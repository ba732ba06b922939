-------------------------- MODULE SessionOutputProofs --------------------------
(* What a command gets that is alone in its session, for any number of     *)
(* calls and of pieces of text and wherever lines and chunks end.          *)
EXTENDS ShellSessionProofs

-----------------------------------------------------------------------------
(* The output of a command in a row of text.                               *)

\* Piece x was printed by the command of e; it is a sentinel of e.
By(e, x) == x.kind = "out" /\ x.by = e
Marks(e, x) == x.kind = "sentinel" /\ x.by = e

\* Row s has pieces 1 to m of the output of e, in order, none behind a sentinel of
\* e, and piece w ends its line.
Told(s, e, m, w) ==
  /\ w \in 0..m
  /\ \A i \in 1..Len(s) : By(e, s[i]) => s[i].n \in 1..m
  /\ \A n \in 1..m : \E i \in 1..Len(s) : By(e, s[i]) /\ s[i].n = n
  /\ \A i, j \in 1..Len(s) : i < j /\ By(e, s[i]) /\ By(e, s[j]) => s[i].n < s[j].n
  /\ \A i, j \in 1..Len(s) : i < j /\ Marks(e, s[i]) => ~By(e, s[j])
  /\ \A i \in 1..Len(s) : By(e, s[i]) /\ s[i].n = w => s[i].eol

\* It has no other output, and no sentinel of e.
Only(s, e) == \A i \in 1..Len(s) : s[i].kind = "out" => s[i].by = e
Unmarked(s, e) == \A i \in 1..Len(s) : ~Marks(e, s[i])

\* Row s has pieces 1 to w of the output of e, maybe more of its m pieces, none
\* without those before it, and in order.
Given(s, e, m, w) ==
  /\ \A n \in 1..w : \E i \in 1..Len(s) : By(e, s[i]) /\ s[i].n = n
  /\ \A i \in 1..Len(s) : By(e, s[i]) =>
       /\ s[i].n \in 1..m
       /\ \A n \in 1..s[i].n : \E j \in 1..Len(s) : By(e, s[j]) /\ s[j].n = n
  /\ \A i, j \in 1..Len(s) : i < j /\ By(e, s[i]) /\ By(e, s[j]) => s[i].n < s[j].n

\* A row of the same text tells the same.
LEMMA SameTold ==
  ASSUME NEW s \in Seq(Lines), NEW t \in Seq(Lines), NEW e \in Execs, NEW m \in Nat, NEW w \in Nat,
         Told(s, e, m, w), Alike(s, t)
  PROVE  /\ Told(t, e, m, w)
         /\ Only(s, e) => Only(t, e)
         /\ Unmarked(s, e) => Unmarked(t, e)
<1>1. /\ Len(t) = Len(s)
      /\ \A i \in 1..Len(s) : By(e, t[i]) <=> By(e, s[i])
      /\ \A i \in 1..Len(s) : Marks(e, t[i]) => Marks(e, s[i])
      /\ \A i \in 1..Len(s) : t[i].n = s[i].n /\ (s[i].eol => t[i].eol)
  BY DEF Alike, By, Marks
<1>2. Only(s, e) => Only(t, e) BY DEF Alike, Only
<1>3. Unmarked(s, e) => Unmarked(t, e) BY <1>1 DEF Unmarked
<1>4. Told(t, e, m, w) BY <1>1 DEF Told
<1>5. QED BY <1>2, <1>3, <1>4

\* So does one with more text that is no output.
LEMMA LineMoreTold ==
  ASSUME NEW s \in Seq(Lines), NEW t \in Seq(Lines), NEW e \in Execs, NEW m \in Nat, NEW w \in Nat,
         Told(s, e, m, w),
         Len(t) = Len(s) + 1, \A i \in 1..Len(s) : t[i] = s[i], t[Len(t)].kind # "out"
  PROVE  /\ Told(t, e, m, w)
         /\ Only(s, e) => Only(t, e)
<1>1. \A i \in 1..Len(t) : i \in 1..Len(s) \/ i = Len(t) OBVIOUS
<1>2. ~By(e, t[Len(t)]) BY DEF By
<1>3. \A i \in 1..Len(t) : By(e, t[i]) => i \in 1..Len(s) /\ t[i] = s[i] BY <1>1, <1>2
<1>4. \A i \in 1..Len(t) : By(e, t[i]) => t[i].n \in 1..m BY <1>3 DEF Told
<1>5. \A n \in 1..m : \E i \in 1..Len(t) : By(e, t[i]) /\ t[i].n = n
  <2> SUFFICES ASSUME NEW n \in 1..m PROVE \E i \in 1..Len(t) : By(e, t[i]) /\ t[i].n = n OBVIOUS
  <2>1. PICK i \in 1..Len(s) : By(e, s[i]) /\ s[i].n = n BY DEF Told
  <2>2. i \in 1..Len(t) /\ t[i] = s[i] OBVIOUS
  <2>3. QED BY <2>1, <2>2
<1>6. \A i, j \in 1..Len(t) : i < j /\ By(e, t[i]) /\ By(e, t[j]) => t[i].n < t[j].n
  BY <1>3 DEF Told
<1>7. \A i, j \in 1..Len(t) : i < j /\ Marks(e, t[i]) => ~By(e, t[j])
  <2> SUFFICES ASSUME NEW i \in 1..Len(t), NEW j \in 1..Len(t), i < j, Marks(e, t[i]), By(e, t[j])
               PROVE  FALSE
    OBVIOUS
  <2>1. j \in 1..Len(s) /\ t[j] = s[j] BY <1>3
  <2>2. i \in 1..Len(s) /\ t[i] = s[i] BY <2>1
  <2>3. QED BY <2>1, <2>2 DEF Told
<1>8. \A i \in 1..Len(t) : By(e, t[i]) /\ t[i].n = w => t[i].eol BY <1>3 DEF Told
<1>9. Only(s, e) => Only(t, e) BY <1>1 DEF Only
<1>10. w \in 0..m BY DEF Told
<1>11. QED BY <1>4, <1>5, <1>6, <1>7, <1>8, <1>9, <1>10 DEF Told

\* One with the next piece of the output tells that too.
LEMMA OutputMoreTold ==
  ASSUME NEW s \in Seq(Lines), NEW t \in Seq(Lines), NEW e \in Execs, NEW m \in Nat, NEW w \in Nat,
         NEW eol \in BOOLEAN, Told(s, e, m, w),
         Len(t) = Len(s) + 1, \A i \in 1..Len(s) : t[i] = s[i], t[Len(t)] = Out(e, m + 1, eol),
         Unmarked(s, e)
  PROVE  /\ Told(t, e, m + 1, IF eol THEN m + 1 ELSE w) /\ Unmarked(t, e)
         /\ Only(s, e) => Only(t, e)
<1> DEFINE v == IF eol THEN m + 1 ELSE w
<1>1. \A i \in 1..Len(t) : (i \in 1..Len(s) /\ t[i] = s[i]) \/ i = Len(t) OBVIOUS
<1>2. /\ By(e, t[Len(t)]) /\ t[Len(t)].n = m + 1 /\ ~Marks(e, t[Len(t)])
      /\ t[Len(t)].eol = eol
  BY DEF By, Out, Marks
<1>3. ASSUME NEW i \in 1..Len(t), By(e, t[i])
      PROVE  t[i].n \in 1..m + 1 /\ (t[i].n = v => t[i].eol)
  <2>1. CASE i = Len(t)
    <3>1. w # m + 1 BY DEF Told
    <3>2. QED BY <1>2, <2>1, <3>1
  <2>2. CASE i \in 1..Len(s) /\ t[i] = s[i]
    <3>1. t[i].n \in 1..m /\ (t[i].n = w => t[i].eol) BY <1>3, <2>2 DEF Told
    <3>2. QED BY <3>1
  <2>3. QED BY <1>1, <2>1, <2>2
<1>4. ASSUME NEW n \in 1..m + 1 PROVE \E i \in 1..Len(t) : By(e, t[i]) /\ t[i].n = n
  <2>1. CASE n = m + 1
    <3>1. Len(t) \in 1..Len(t) OBVIOUS
    <3>2. QED BY <1>2, <2>1, <3>1
  <2>2. CASE n # m + 1
    <3>1. n \in 1..m BY <2>2
    <3>2. PICK i \in 1..Len(s) : By(e, s[i]) /\ s[i].n = n BY <3>1 DEF Told
    <3>3. i \in 1..Len(t) /\ t[i] = s[i] OBVIOUS
    <3>4. QED BY <3>2, <3>3
  <2>3. QED BY <2>1, <2>2
<1>5. ASSUME NEW i \in 1..Len(t), NEW j \in 1..Len(t), i < j, By(e, t[i]), By(e, t[j])
      PROVE  t[i].n < t[j].n
  <2>1. i \in 1..Len(s) /\ t[i] = s[i] BY <1>5
  <2>2. s[i].n \in 1..m BY <1>5, <2>1 DEF Told
  <2>3. CASE j = Len(t) BY <1>2, <2>1, <2>2, <2>3
  <2>4. CASE j # Len(t)
    <3>1. j \in 1..Len(s) /\ t[j] = s[j] BY <2>4
    <3>2. QED BY <1>5, <2>1, <3>1 DEF Told
  <2>5. QED BY <2>3, <2>4
<1>6. Unmarked(t, e) BY <1>1, <1>2 DEF Unmarked
<1>7. Only(s, e) => Only(t, e) BY <1>1, <1>2 DEF Only, By
<1>8. v \in 0..m + 1 BY DEF Told
<1> HIDE DEF v
<1>9. Told(t, e, m + 1, v) BY <1>3, <1>4, <1>5, <1>6, <1>8 DEF Told, Unmarked
<1>10. QED BY <1>6, <1>7, <1>9 DEF v

\* What precedes the line of a sentinel of e gives all that was ended.
LEMMA PrefixTold ==
  ASSUME NEW s \in Seq(Lines), NEW t \in Seq(Lines), NEW e \in Execs, NEW m \in Nat, NEW w \in Nat,
         Told(s, e, m, w),
         NEW q \in 1..Len(s), Marks(e, s[q]), NEW p \in 0..q - 1,
         \A i \in p + 1..q - 1 : ~s[i].eol,
         Len(t) = p, \A i \in 1..p : t[i] = s[i]
  PROVE  /\ Given(t, e, m, w)
         /\ Only(s, e) => Only(t, e)
<1>1. \A i \in 1..Len(t) : i \in 1..Len(s) /\ t[i] = s[i] OBVIOUS
<1>2. ASSUME NEW i \in 1..p, By(e, s[i]), NEW n \in 1..s[i].n
      PROVE  \E j \in 1..Len(t) : By(e, t[j]) /\ t[j].n = n
  <2>1. i \in 1..Len(s) /\ s[i].n \in 1..m BY <1>2 DEF Told
  <2>2. n \in 1..m BY <2>1
  <2>3. PICK j \in 1..Len(s) : By(e, s[j]) /\ s[j].n = n BY <2>2 DEF Told
  <2>4. ~(i < j)
    <3>1. i < j => s[i].n < s[j].n BY <1>2, <2>1, <2>3 DEF Told
    <3>2. QED BY <2>1, <2>3, <3>1
  <2>5. j \in 1..Len(t) BY <2>4
  <2>6. QED BY <1>1, <2>3, <2>5
<1>3. ASSUME NEW n \in 1..w PROVE \E j \in 1..Len(t) : By(e, t[j]) /\ t[j].n = n
  <2>1. w \in 1..m BY DEF Told
  <2>2. PICK i \in 1..Len(s) : By(e, s[i]) /\ s[i].n = w BY <2>1 DEF Told
  <2>3. i # q BY <2>2 DEF By, Marks
  <2>4. ~(q < i) BY <2>2 DEF Told
  <2>5. s[i].eol BY <2>2 DEF Told
  <2>6. i \in 1..p BY <2>3, <2>4, <2>5
  <2>7. n \in 1..s[i].n BY <2>2
  <2>8. QED BY <1>2, <2>2, <2>6, <2>7
<1>4. ASSUME NEW i \in 1..Len(t), By(e, t[i])
      PROVE  /\ t[i].n \in 1..m
             /\ \A n \in 1..t[i].n : \E j \in 1..Len(t) : By(e, t[j]) /\ t[j].n = n
  <2>1. i \in 1..p /\ i \in 1..Len(s) /\ t[i] = s[i] /\ By(e, s[i]) BY <1>1, <1>4
  <2>2. s[i].n \in 1..m BY <2>1 DEF Told
  <2>3. QED BY <1>2, <2>1, <2>2
<1>5. \A i, j \in 1..Len(t) : i < j /\ By(e, t[i]) /\ By(e, t[j]) => t[i].n < t[j].n
  BY <1>1 DEF Told
<1>6. Only(s, e) => Only(t, e) BY <1>1 DEF Only
<1>7. QED BY <1>3, <1>4, <1>5, <1>6 DEF Given

-----------------------------------------------------------------------------
(* Rows of text, one behind the other.                                     *)

LEMMA ConcatAt ==
  ASSUME NEW x \in Seq(Lines), NEW y \in Seq(Lines)
  PROVE  /\ x \o y \in Seq(Lines) /\ Len(x \o y) = Len(x) + Len(y)
         /\ Len(x) \in Nat /\ Len(y) \in Nat
         /\ \A i \in 1..Len(x) : (x \o y)[i] = x[i]
         /\ \A i \in 1..Len(y) : (x \o y)[Len(x) + i] = y[i]
  OBVIOUS

LEMMA AlikeSelf == ASSUME NEW s \in Seq(Lines) PROVE Alike(s, s)
  BY DEF Alike

\* Text t in the place of text s at place i.
AlikeAt(x, y) ==
  /\ y.kind = "out" <=> x.kind = "out"
  /\ y.kind = "sentinel" => x.kind = "sentinel"
  /\ y.by = x.by /\ y.n = x.n
  /\ x.eol => y.eol

LEMMA AlikeEach ==
  ASSUME NEW s \in Seq(Lines), NEW t \in Seq(Lines)
  PROVE  Alike(s, t) <=> Len(t) = Len(s) /\ \A i \in 1..Len(s) : AlikeAt(s[i], t[i])
  BY DEF Alike, AlikeAt

\* Alike rows behind alike rows are alike.
LEMMA AlikeConcat ==
  ASSUME NEW x \in Seq(Lines), NEW y \in Seq(Lines), NEW a \in Seq(Lines), NEW b \in Seq(Lines),
         Alike(x, a), Alike(y, b)
  PROVE  Alike(x \o y, a \o b)
<1> DEFINE s == x \o y
           t == a \o b
<1>1. /\ s \in Seq(Lines) /\ Len(s) = Len(x) + Len(y) /\ Len(x) \in Nat /\ Len(y) \in Nat
      /\ \A i \in 1..Len(x) : s[i] = x[i]
      /\ \A i \in 1..Len(y) : s[Len(x) + i] = y[i]
  BY ConcatAt
<1>2. /\ t \in Seq(Lines) /\ Len(t) = Len(a) + Len(b)
      /\ \A i \in 1..Len(a) : t[i] = a[i]
      /\ \A i \in 1..Len(b) : t[Len(a) + i] = b[i]
  BY ConcatAt
<1>3. Len(a) = Len(x) /\ \A i \in 1..Len(x) : AlikeAt(x[i], a[i]) BY AlikeEach
<1>4. Len(b) = Len(y) /\ \A i \in 1..Len(y) : AlikeAt(y[i], b[i]) BY AlikeEach
<1> HIDE DEF s, t
<1>5. ASSUME NEW i \in 1..Len(s) PROVE AlikeAt(s[i], t[i])
  <2>1. CASE i \in 1..Len(x) BY <1>1, <1>2, <1>3, <2>1
  <2>2. CASE i \notin 1..Len(x)
    <3>1. i - Len(x) \in 1..Len(y) /\ i = Len(x) + (i - Len(x)) BY <1>1, <2>2
    <3>2. s[Len(x) + (i - Len(x))] = y[i - Len(x)] BY <1>1, <3>1
    <3>3. t[Len(x) + (i - Len(x))] = b[i - Len(x)] BY <1>2, <1>3, <1>4, <3>1
    <3>4. AlikeAt(y[i - Len(x)], b[i - Len(x)]) BY <1>4, <3>1
    <3>5. QED BY <3>1, <3>2, <3>3, <3>4
  <2>3. QED BY <2>1, <2>2
<1>6. Len(t) = Len(s) BY <1>1, <1>2, <1>3, <1>4
<1>7. Alike(s, t) BY <1>1, <1>2, <1>5, <1>6, AlikeEach
<1>8. QED BY <1>7 DEF s, t

\* A stream, cut in two, is what it was.
LEMMA CutInTwo ==
  ASSUME NEW o \in Seq(Lines), NEW n \in 1..Len(o)
  PROVE  /\ SubSeq(o, 1, n) \in Seq(Lines) /\ SubSeq(o, n + 1, Len(o)) \in Seq(Lines)
         /\ o = SubSeq(o, 1, n) \o SubSeq(o, n + 1, Len(o))
<1>1. SubSeq(o, 1, n) \in Seq(Lines) /\ SubSeq(o, n + 1, Len(o)) \in Seq(Lines)
  BY SubSeqType
<1>2. o = SubSeq(o, 1, n) \o SubSeq(o, n + 1, Len(o)) OBVIOUS
<1>3. QED BY <1>1, <1>2

\* What a read returned, with what was there before and what is left, is alike.
LEMMA ReadAlike ==
  ASSUME NEW l \in Seq(Lines), NEW o \in Seq(Lines), NEW n \in 1..Len(o), NEW c \in Seq(Lines),
         Alike(SubSeq(o, 1, n), c)
  PROVE  /\ (l \o c) \o SubSeq(o, n + 1, Len(o)) \in Seq(Lines)
         /\ Alike(l \o o, (l \o c) \o SubSeq(o, n + 1, Len(o)))
<1> DEFINE a == SubSeq(o, 1, n)
           b == SubSeq(o, n + 1, Len(o))
<1>1. a \in Seq(Lines) /\ b \in Seq(Lines) /\ o = a \o b BY CutInTwo
<1>2. Alike(a, c) OBVIOUS
<1> HIDE DEF a, b
<1>3. Alike(l \o a, l \o c) BY <1>1, <1>2, AlikeSelf, AlikeConcat
<1>4. l \o a \in Seq(Lines) /\ l \o c \in Seq(Lines) BY <1>1
<1>5. Alike((l \o a) \o b, (l \o c) \o b) BY <1>1, <1>3, <1>4, AlikeSelf, AlikeConcat
<1>6. (l \o a) \o b = l \o o
  <2>1. (l \o a) \o b = l \o (a \o b) BY ONLY <1>1, l \in Seq(Lines)
  <2>2. QED BY <1>1, <2>1
<1>7. (l \o c) \o b \in Seq(Lines) BY <1>1, <1>4
<1>8. QED BY <1>5, <1>6, <1>7 DEF b

-----------------------------------------------------------------------------
(* A call that is alone in the session.                                    *)

\* How far the shell is with the two lines of e, and there are no others.
Stage(e) ==
  \/ /\ shell = "prompt" /\ running = NoInput
     /\ Len(inp) = 2 /\ inp[1] = Input("command", e) /\ inp[2] = Input("sentinel", e)
  \/ /\ shell = "busy" /\ running = Input("command", e)
     /\ Len(inp) = 1 /\ inp[1] = Input("sentinel", e)
  \/ /\ shell = "prompt" /\ running = NoInput
     /\ Len(inp) = 1 /\ inp[1] = Input("sentinel", e)
  \/ shell = "busy" /\ running = Input("sentinel", e) /\ Len(inp) = 0
  \/ shell \in {"prompt", "gone"} /\ running = NoInput /\ Len(inp) = 0

\* All that e has read or may read since it began.
Stream(e) == exec[e].lines \o out

\* Row s has the whole output of e so far and, if nothing was unread before, no other.
Tells(e, s) == Told(s, e, printed[e], whole[e]) /\ (exec[e].fresh => Only(s, e))

\* Row s has what an answer to e owes it.
Answers(e, s) == Given(s, e, printed[e], whole[e]) /\ (exec[e].fresh => Only(s, e))

\* What holds of a call that is alone: until the shell has read its sentinel none is
\* in the stream, which holds all of its output; and the answer has what it owes.
Answering(e) ==
  exec[e].alone /\ exec[e].st \in {"reading", "done"} =>
    /\ Stage(e)
    /\ exec[e].st = "reading" =>
         /\ \A d \in Execs \ {e} : exec[d].st # "reading"
         /\ Tells(e, Stream(e))
         /\ Len(inp) # 0 => Unmarked(Stream(e), e)
    /\ exec[e].st = "done" => Len(inp) = 0 /\ Answers(e, exec[e].lines)

\* Row s has nothing of e.
Without(e, s) == \A i \in 1..Len(s) : s[i].by # e

\* Of a call that has not begun there is nothing anywhere.
Untouched(e) ==
  exec[e].st = "idle" =>
    /\ printed[e] = 0 /\ whole[e] = 0 /\ running.by # e
    /\ Without(e, inp) /\ Without(e, out)

\* Only a busy shell runs something, there is none before the session is made, and
\* nobody calls before it is listed.
Orderly ==
  /\ phase = "none" => shell = "off"
  /\ shell # "busy" => running = NoInput
  /\ \A e \in Execs : exec[e].st # "idle" => phase \in {"listed", "removed"}

OutputInv == TypeInv /\ Orderly /\ \A e \in Execs : Untouched(e) /\ Answering(e)

\* Streams are rows of text.
LEMMA StreamType ==
  ASSUME TypeOK, NEW e \in Execs
  PROVE  /\ exec[e].lines \in Seq(Lines) /\ out \in Seq(Lines) /\ Stream(e) \in Seq(Lines)
         /\ printed[e] \in Nat /\ whole[e] \in Nat /\ inp \in Seq(Inputs)
<1>1. exec[e].lines \in Seq(Lines) /\ out \in Seq(Lines) /\ inp \in Seq(Inputs)
  BY DEF TypeOK, Call
<1>2. printed[e] \in Nat /\ whole[e] \in Nat BY DEF TypeOK
<1>3. QED BY <1>1, <1>2 DEF Stream

\* What the shell does for a call that is alone: nothing that is seen, an echo or a
\* sentinel when it has read all, or a piece of text of the command before that.
Silent(e) ==
  /\ Alike(out, out') /\ printed'[e] = printed[e] /\ whole'[e] = whole[e]
  /\ Len(inp') # 0 => Len(inp) # 0
Marking(e) ==
  /\ out' = Append(out, Sentinel(e)) /\ printed'[e] = printed[e] /\ whole'[e] = whole[e]
  /\ Len(inp') = 0
Printing(e, eol) ==
  /\ out' = Append(out, Out(e, printed[e] + 1, eol)) /\ printed'[e] = printed[e] + 1
  /\ whole'[e] = (IF eol THEN printed[e] + 1 ELSE whole[e])
  /\ Len(inp) # 0 /\ inp' = inp

LEMMA ShellStep ==
  ASSUME TypeOK, NEW e \in Execs, Stage(e), ReadLine \/ PrintText \/ Finish \/ Die \/ Hangup
  PROVE  /\ Stage(e)' /\ UNCHANGED exec
         /\ Silent(e) \/ Marking(e) \/ \E eol \in BOOLEAN : Printing(e, eol)
<1> USE DEF TypeOK
<1>0. out \in Seq(Lines) /\ inp \in Seq(Inputs) OBVIOUS
<1>1. CASE ReadLine
  <2>1. shell = "prompt" /\ inp # <<>> /\ Len(inp) \in {1, 2} BY <1>1 DEF ReadLine, Stage
  <2>2. Head(inp) = inp[1] /\ Len(Tail(inp)) = Len(inp) - 1
        /\ (Len(inp) = 2 => Tail(inp)[1] = inp[2])
    BY <1>0, <2>1
  <2>3. CASE inp[1] = Input("command", e) /\ Len(inp) = 2 /\ inp[2] = Input("sentinel", e)
    <3>1. /\ out' = Ended(out) /\ shell' = "busy" /\ running' = inp[1] /\ inp' = Tail(inp)
          /\ UNCHANGED <<printed, whole, exec>>
      BY <1>1, <2>2, <2>3 DEF ReadLine, Echoed, Input
    <3>2. Alike(out, out') BY <1>0, <3>1, EndedAlike
    <3>3. /\ shell' = "busy" /\ running' = Input("command", e)
          /\ Len(inp') = 1 /\ inp'[1] = Input("sentinel", e)
      <4>1. shell' = "busy" /\ running' = Input("command", e) BY <2>3, <3>1
      <4>2. Tail(inp)[1] = Input("sentinel", e) /\ Len(Tail(inp)) = 2 - 1
        BY <2>2, <2>3, Zenon
      <4>3. inp' = Tail(inp) /\ 2 - 1 = 1 BY <3>1
      <4>4. QED BY <4>1, <4>2, <4>3, Zenon
    <3>4. Stage(e)' BY <3>3 DEF Stage
    <3>5. Silent(e) BY <2>3, <3>1, <3>2 DEF Silent
    <3>6. QED BY <3>1, <3>4, <3>5
  <2>4. CASE inp[1] = Input("sentinel", e) /\ Len(inp) = 1
    <3>1. /\ out' = Append(out, Sentinel(e)) /\ shell' = "busy" /\ running' = inp[1]
          /\ inp' = Tail(inp) /\ UNCHANGED <<printed, whole, exec>>
      BY <1>1, <2>2, <2>4 DEF ReadLine, Echoed, Input
    <3>2. Len(inp') = 0 BY <2>2, <2>4, <3>1
    <3>3. Stage(e)' BY <2>4, <3>1, <3>2 DEF Stage
    <3>4. Marking(e) BY <3>1, <3>2 DEF Marking
    <3>5. QED BY <3>1, <3>3, <3>4
  <2>5. QED BY <2>1, <2>3, <2>4 DEF Stage, NoInput, Input
<1>2. CASE PrintText
  <2>1. /\ shell = "busy" /\ running = Input("command", e)
        /\ Len(inp) = 1 /\ inp[1] = Input("sentinel", e)
    BY <1>2 DEF PrintText, Stage, NoInput, Input
  <2>2. PICK eol \in BOOLEAN :
          /\ out' = Append(out, Out(e, printed[e] + 1, eol))
          /\ whole' = IF eol THEN [whole EXCEPT ![e] = printed[e] + 1] ELSE whole
    BY <1>2, <2>1 DEF PrintText, Input
  <2>3. /\ printed' = [printed EXCEPT ![e] = @ + 1]
        /\ UNCHANGED <<shell, running, inp, exec>>
    BY <1>2, <2>1 DEF PrintText, Input
  <2>4. /\ printed'[e] = printed[e] + 1
        /\ whole'[e] = (IF eol THEN printed[e] + 1 ELSE whole[e])
    BY <2>2, <2>3
  <2>5. Stage(e)' BY <2>1, <2>3 DEF Stage
  <2>6. Printing(e, eol) BY <2>1, <2>2, <2>3, <2>4 DEF Printing
  <2>7. QED BY <2>3, <2>5, <2>6
<1>3. CASE Finish
  <2>1. /\ shell = "busy" /\ UNCHANGED <<inp, printed, whole, exec>>
        /\ shell' = "prompt" /\ running' = NoInput
    BY <1>3 DEF Finish, Stage
  <2>2. CASE running = Input("command", e)
    <3>1. UNCHANGED out BY <1>3, <2>2 DEF Finish, Input
    <3>2. Stage(e)' BY <2>1, <2>2 DEF Stage, Input
    <3>3. Silent(e) BY <1>0, <2>1, <3>1, AlikeSelf DEF Silent
    <3>4. QED BY <2>1, <3>2, <3>3
  <2>3. CASE running = Input("sentinel", e) /\ Len(inp) = 0
    <3>1. out' = Append(out, Sentinel(e)) BY <1>3, <2>3 DEF Finish, Input
    <3>2. Stage(e)' BY <2>1, <2>3 DEF Stage
    <3>3. Marking(e) BY <2>1, <2>3, <3>1 DEF Marking
    <3>4. QED BY <2>1, <3>2, <3>3
  <2>4. QED BY <2>1, <2>2, <2>3 DEF Stage
<1>4. CASE Die \/ Hangup
  <2>1. /\ shell' = "gone" /\ running' = NoInput /\ inp' = <<>>
        /\ UNCHANGED <<out, printed, whole, exec>>
    BY <1>4 DEF Die, Hangup, Kill
  <2>2. Stage(e)' BY <2>1 DEF Stage
  <2>3. Silent(e) BY <1>0, <2>1, AlikeSelf DEF Silent
  <2>4. QED BY <2>1, <2>2, <2>3
<1>5. QED BY <1>1, <1>2, <1>3, <1>4

\* A row with a piece more behind it.
LEMMA OneMore ==
  ASSUME NEW l \in Seq(Lines), NEW o \in Seq(Lines), NEW x \in Lines
  PROVE  LET s == l \o o  t == l \o Append(o, x) IN
         /\ t \in Seq(Lines) /\ Len(t) = Len(s) + 1 /\ t[Len(t)] = x
         /\ \A i \in 1..Len(s) : t[i] = s[i]
<1>1. l \o o \in Seq(Lines) OBVIOUS
<1>2. l \o Append(o, x) = Append(l \o o, x) OBVIOUS
<1>3. QED BY <1>1, <1>2

\* So what a call that is alone gets is kept whole while the shell works.
LEMMA ShellAnswering ==
  ASSUME TypeOK, TypeOK', NEW e \in Execs, Answering(e),
         ReadLine \/ PrintText \/ Finish \/ Die \/ Hangup
  PROVE  Answering(e)'
<1>0. UNCHANGED exec
  BY DEF ReadLine, PrintText, Finish, Die, Hangup
<1> SUFFICES ASSUME exec[e].alone, exec[e].st \in {"reading", "done"} PROVE Answering(e)'
  BY <1>0 DEF Answering
<1>1. Stage(e) BY DEF Answering
<1>2. Stage(e)' BY <1>1, ShellStep
<1>3. CASE exec[e].st = "done"
  <2>1. Len(inp) = 0 /\ Answers(e, exec[e].lines) BY <1>3 DEF Answering
  <2>2. Silent(e) \/ Marking(e) BY <1>1, <2>1, ShellStep DEF Printing
  <2>3. Len(inp') = 0 /\ printed'[e] = printed[e] /\ whole'[e] = whole[e]
    BY <2>1, <2>2 DEF Silent, Marking
  <2>4. Answers(e, exec[e].lines)' BY <1>0, <2>1, <2>3 DEF Answers
  <2>5. QED BY <1>0, <1>2, <1>3, <2>3, <2>4 DEF Answering
<1>4. CASE exec[e].st = "reading"
  <2> DEFINE l == exec[e].lines
             s == l \o out
             t == l \o out'
             m == printed[e]
             w == whole[e]
  <2>0. Stream(e) = s /\ Stream(e)' = t BY <1>0 DEF Stream
  <2>1. /\ \A d \in Execs \ {e} : exec[d].st # "reading"
        /\ Told(s, e, m, w) /\ (exec[e].fresh => Only(s, e))
        /\ Len(inp) # 0 => Unmarked(s, e)
    BY <1>4, <2>0 DEF Answering, Tells
  <2>2. l \in Seq(Lines) /\ out \in Seq(Lines) /\ s \in Seq(Lines) /\ m \in Nat /\ w \in Nat
    BY <2>0, StreamType
  <2>3. out' \in Seq(Lines) BY DEF TypeOK
  <2>4. t \in Seq(Lines) BY <2>2, <2>3
  <2>5. ASSUME Told(t, e, printed'[e], whole'[e]), exec[e].fresh => Only(t, e),
               Len(inp') # 0 => Unmarked(t, e)
        PROVE  Answering(e)'
    BY <1>0, <1>2, <1>4, <2>0, <2>1, <2>5 DEF Answering, Tells
  <2>6. CASE Silent(e)
    <3> HIDE DEF l
    <3>1. Alike(s, t) BY <2>2, <2>3, <2>6, AlikeSelf, AlikeConcat DEF Silent
    <3> HIDE DEF s, t, m, w
    <3>2. /\ Told(t, e, m, w) /\ (Only(s, e) => Only(t, e))
          /\ Unmarked(s, e) => Unmarked(t, e)
      BY <2>1, <2>2, <2>4, <3>1, SameTold
    <3>3. QED BY <2>1, <2>5, <2>6, <3>2 DEF Silent, m, w
  <2>7. CASE Marking(e)
    <3>1. Sentinel(e) \in Lines /\ Sentinel(e).kind # "out" BY LinesType DEF Sentinel
    <3>2. /\ Len(t) = Len(s) + 1 /\ t[Len(t)] = Sentinel(e)
          /\ \A i \in 1..Len(s) : t[i] = s[i]
      <4> HIDE DEF l
      <4>1. QED BY <2>2, <2>7, <3>1, OneMore DEF Marking
    <3> HIDE DEF s, t, m, w
    <3>3. Told(t, e, m, w) /\ (Only(s, e) => Only(t, e))
      BY <2>1, <2>2, <2>4, <3>1, <3>2, LineMoreTold
    <3>4. QED BY <2>1, <2>5, <2>7, <3>3 DEF Marking, m, w
  <2>8. ASSUME NEW eol \in BOOLEAN, Printing(e, eol) PROVE Answering(e)'
    <3>1. Out(e, m + 1, eol) \in Lines
      <4>1. m + 1 \in Nat BY <2>2
      <4>2. QED BY <4>1, LinesType
    <3>2. /\ Len(t) = Len(s) + 1 /\ t[Len(t)] = Out(e, m + 1, eol)
          /\ \A i \in 1..Len(s) : t[i] = s[i]
      <4> HIDE DEF l
      <4>1. QED BY <2>2, <2>8, <3>1, OneMore DEF Printing
    <3>3. Unmarked(s, e) BY <2>1, <2>8 DEF Printing
    <3> HIDE DEF s, t, m, w
    <3>4. /\ Told(t, e, m + 1, IF eol THEN m + 1 ELSE w) /\ Unmarked(t, e)
          /\ Only(s, e) => Only(t, e)
      BY <2>1, <2>2, <2>4, <3>2, <3>3, OutputMoreTold
    <3>5. printed'[e] = m + 1 /\ whole'[e] = (IF eol THEN m + 1 ELSE w)
      BY <2>8 DEF Printing, m, w
    <3>6. Told(t, e, printed'[e], whole'[e]) BY <3>4, <3>5, Zenon
    <3>7. QED BY <2>1, <2>5, <3>4, <3>6
  <2>9. QED BY <1>1, <2>6, <2>7, <2>8, ShellStep
<1>5. QED BY <1>3, <1>4

\* A call that is alone stays so told by a step that does not touch it.
LEMMA QuietAnswering ==
  ASSUME NEW e \in Execs, Answering(e), UNCHANGED <<shell, running, inp, printed, whole>>,
         exec'[e] = exec[e], exec[e].st = "reading" => out' = out,
         \A d \in Execs \ {e} : exec'[d].st = "reading" => exec[d].st = "reading"
  PROVE  Answering(e)'
<1>1. Stage(e) => Stage(e)' BY DEF Stage
<1>2. exec[e].st = "reading" => Stream(e)' = Stream(e) BY DEF Stream
<1>3. Answers(e, exec[e].lines) => Answers(e, exec[e].lines)' BY DEF Answers
<1>4. exec[e].st = "reading" /\ Tells(e, Stream(e)) => Tells(e, Stream(e))'
  BY <1>2 DEF Tells
<1>5. exec[e].st = "reading" /\ (Len(inp) # 0 => Unmarked(Stream(e), e))
        => (Len(inp) # 0 => Unmarked(Stream(e), e))'
  BY <1>2
<1>6. QED BY <1>1, <1>3, <1>4, <1>5 DEF Answering

\* Sending the command begins it: nothing of it is in the stream.
LEMMA StartAnswering ==
  ASSUME TypeOK, Orderly, NEW e \in Execs, Untouched(e), StartExec(e)
  PROVE  Answering(e)'
<1>1. SUFFICES ASSUME exec'[e].alone, exec'[e].st \in {"reading", "done"} PROVE Answering(e)'
  BY DEF Answering
<1> DEFINE lines == <<Input("command", e), Input("sentinel", e)>>
<1>2. exec \in [Execs -> Call] BY DEF TypeOK
<1>3. /\ Write(lines) /\ UNCHANGED remote
      /\ exec' = [Disturbed EXCEPT ![e] =
           [st |-> "reading", lines |-> <<>>,
            alone |-> /\ shell = "prompt" /\ inp = <<>>
                      /\ \A d \in Execs : exec[d].st # "reading",
            fresh |-> out = <<>>]]
  <2>1. CASE exec' = [exec EXCEPT ![e].st = "raised"]
    <3>1. exec'[e].st = "raised" BY <1>2, <2>1 DEF Call
    <3>2. QED BY <1>1, <3>1
  <2>2. QED BY <2>1 DEF StartExec
<1>4. /\ exec'[e].st = "reading" /\ exec'[e].lines = <<>> /\ (exec'[e].fresh => out = <<>>)
      /\ shell = "prompt" /\ inp = <<>>
      /\ \A d \in Execs : exec[d].st # "reading"
      /\ \A d \in Execs \ {e} : exec'[d].st = exec[d].st
  BY <1>1, <1>2, <1>3 DEF Disturbed, Call
<1>5. /\ shell' = "prompt" /\ running' = NoInput /\ out' = out
      /\ printed'[e] = 0 /\ whole'[e] = 0
  <2>1. printed[e] = 0 /\ whole[e] = 0 /\ exec[e].st = "idle" BY DEF Untouched, StartExec
  <2>2. QED BY <1>3, <1>4, <2>1 DEF Write, remote, Orderly
<1>6. Stage(e)'
  <2>1. inp' = <<>> \o lines BY <1>3, <1>4 DEF Write
  <2>2. Len(inp') = 2 /\ inp'[1] = Input("command", e) /\ inp'[2] = Input("sentinel", e)
    <3> DEFINE a == Input("command", e)  b == Input("sentinel", e)
    <3>1. a \in Inputs /\ b \in Inputs BY InputsType
    <3> HIDE DEF a, b
    <3>2. Len(<<>> \o <<a, b>>) = 2 /\ (<<>> \o <<a, b>>)[1] = a /\ (<<>> \o <<a, b>>)[2] = b
      BY <3>1
    <3>3. QED BY <2>1, <3>2 DEF a, b
  <2>3. QED BY <1>5, <2>2 DEF Stage
<1>7. out \in Seq(Lines) /\ Stream(e)' = out
  BY <1>4, <1>5 DEF TypeOK, Stream
<1>8. \A i \in 1..Len(out) : out[i].by # e BY DEF Untouched, Without, StartExec
<1>9. Told(out, e, 0, 0) /\ Unmarked(out, e)
  <2>1. \A i \in 1..Len(out) : ~By(e, out[i]) /\ ~Marks(e, out[i]) BY <1>8 DEF By, Marks
  <2>2. QED BY <2>1 DEF Told, Unmarked
<1>10. exec'[e].fresh => Only(out, e) BY <1>4 DEF Only
<1>11. QED BY <1>4, <1>5, <1>6, <1>7, <1>9, <1>10 DEF Answering, Tells

\* A read of the call keeps what is told; when it finds the sentinel it has an answer.
LEMMA ReadAnswering ==
  ASSUME TypeOK, NEW e \in Execs, Answering(e), ReadChunk(e)
  PROVE  Answering(e)'
<1>1. PICK n \in 1..Len(out), torn \in BOOLEAN :
        /\ torn => out[n].kind = "sentinel"
        /\ out' = SubSeq(out, n + 1, Len(out))
        /\ \/ exec' = [exec EXCEPT ![e].lines = @ \o Chunk(n, torn)]
           \/ \E i \in Hits(e, Chunk(n, torn)), k \in 0..n :
                /\ k < i /\ LineBegins(Chunk(n, torn), k, i)
                /\ exec' = [exec EXCEPT ![e].st = "done",
                                        ![e].lines = @ \o SubSeq(Chunk(n, torn), 1, k)]
  BY ReadChunkDoes, Zenon
<1>2. exec[e].st = "reading" /\ UNCHANGED <<shell, running, inp, printed, whole>>
  BY DEF ReadChunk, remote
<1>3. exec \in [Execs -> Call] /\ exec[e] \in Call BY DEF TypeOK
<1> DEFINE l == exec[e].lines
           c == Chunk(n, torn)
           b == SubSeq(out, n + 1, Len(out))
           s == l \o out
           t == (l \o c) \o b
           m == printed[e]
           w == whole[e]
<1>4. SUFFICES ASSUME exec'[e].alone PROVE Answering(e)' BY DEF Answering
<1>5. exec[e].alone /\ exec'[e].fresh = exec[e].fresh
      /\ \A d \in Execs \ {e} : exec'[d] = exec[d]
  <2> HIDE DEF c
  <2>1. CASE exec' = [exec EXCEPT ![e].lines = @ \o c]
    BY <1>3, <1>4, <2>1 DEF Call
  <2>2. ASSUME NEW k, exec' = [exec EXCEPT ![e].st = "done", ![e].lines = @ \o SubSeq(c, 1, k)]
        PROVE  exec[e].alone /\ exec'[e].fresh = exec[e].fresh
               /\ \A d \in Execs \ {e} : exec'[d] = exec[d]
    BY <1>3, <1>4, <2>2 DEF Call
  <2>3. QED BY <1>1, <2>1, <2>2 DEF c
<1>6. l \in Seq(Lines) /\ out \in Seq(Lines) /\ s \in Seq(Lines) /\ Stream(e) = s
      /\ m \in Nat /\ w \in Nat
  BY StreamType DEF Stream
<1>7. /\ Stage(e) /\ Told(s, e, m, w) /\ (exec[e].fresh => Only(s, e))
      /\ \A d \in Execs \ {e} : exec[d].st # "reading"
      /\ Len(inp) # 0 => Unmarked(s, e)
  BY <1>2, <1>5, <1>6 DEF Answering, Tells
<1>8. Stage(e)' BY <1>2, <1>7 DEF Stage
<1>9. c \in Seq(Lines) /\ Len(c) = n /\ Alike(SubSeq(out, 1, n), c)
  BY <1>1, <1>6, ChunkType
<1>10. t \in Seq(Lines) /\ Alike(s, t)
  <2> HIDE DEF l, c
  <2>1. QED BY <1>6, <1>9, ReadAlike
<1>11. /\ Told(t, e, m, w) /\ (exec[e].fresh => Only(t, e))
       /\ Len(inp) # 0 => Unmarked(t, e)
  <2> HIDE DEF s, t, m, w
  <2>1. QED BY <1>6, <1>7, <1>10, SameTold
<1>12. CASE exec' = [exec EXCEPT ![e].lines = @ \o c]
  <2>1. exec'[e].st = "reading" /\ exec'[e].lines = l \o c
    <3> HIDE DEF c
    <3>1. QED BY <1>2, <1>3, <1>12 DEF Call
  <2>2. Stream(e)' = t BY <1>1, <2>1 DEF Stream
  <2>3. Tells(e, Stream(e))' BY <1>2, <1>5, <1>11, <2>2 DEF Tells
  <2>4. (Len(inp) # 0 => Unmarked(Stream(e), e))' BY <1>2, <1>11, <2>2
  <2>5. \A d \in Execs \ {e} : exec'[d].st # "reading" BY <1>5, <1>7
  <2> HIDE DEF t
  <2>6. QED BY <1>8, <2>1, <2>3, <2>4, <2>5 DEF Answering
<1>13. ASSUME NEW i \in Hits(e, c), NEW k \in 0..n, k < i, LineBegins(c, k, i),
              exec' = [exec EXCEPT ![e].st = "done", ![e].lines = @ \o SubSeq(c, 1, k)]
       PROVE  Answering(e)'
  <2> HIDE DEF c
  <2> DEFINE a == SubSeq(c, 1, k)
             q == Len(l) + i
             p == Len(l) + k
  <2>1. exec'[e].st = "done" /\ exec'[e].lines = l \o a BY <1>3, <1>13 DEF Call
  <2>2. i \in 1..n /\ Marks(e, c[i]) /\ (\A j \in k + 1..i - 1 : ~c[j].eol)
    BY <1>9, <1>13 DEF Hits, Marks, Sentinel, LineBegins
  <2>3. a \in Seq(Lines) /\ Len(a) = k /\ \A j \in 1..k : a[j] = c[j]
    <3>1. k \in 0..Len(c) /\ 1 <= k + 1 /\ k - 1 + 1 = k BY <1>9, <1>13
    <3>2. a \in Seq(Lines) /\ Len(a) = k BY <1>9, <3>1, SubSeqType
    <3>3. QED BY <1>9, <3>1, <3>2
  <2>4. b \in Seq(Lines) BY <1>6, CutInTwo
  <2> HIDE DEF l, a, b, s, t, m, w
  <2>5. /\ Len(l) \in Nat /\ Len(l \o c) = Len(l) + n /\ l \o c \in Seq(Lines)
        /\ \A j \in 1..Len(l) : (l \o c)[j] = l[j]
        /\ \A j \in 1..n : (l \o c)[Len(l) + j] = c[j]
    BY <1>6, <1>9, ConcatAt
  <2>6. /\ Len(t) = Len(l) + n + Len(b) /\ Len(b) \in Nat
        /\ \A j \in 1..Len(l) + n : t[j] = (l \o c)[j]
    <3>1. /\ Len((l \o c) \o b) = Len(l \o c) + Len(b) /\ Len(b) \in Nat
          /\ \A j \in 1..Len(l \o c) : ((l \o c) \o b)[j] = (l \o c)[j]
      BY <2>4, <2>5, ConcatAt
    <3>2. QED BY <2>5, <3>1 DEF t
  <2>7. /\ Len(l \o a) = Len(l) + k /\ l \o a \in Seq(Lines)
        /\ \A j \in 1..Len(l) : (l \o a)[j] = l[j]
        /\ \A j \in 1..k : (l \o a)[Len(l) + j] = c[j]
    <3>1. /\ Len(l \o a) = Len(l) + Len(a) /\ l \o a \in Seq(Lines)
          /\ \A j \in 1..Len(l) : (l \o a)[j] = l[j]
          /\ \A j \in 1..Len(a) : (l \o a)[Len(l) + j] = a[j]
      BY <1>6, <2>3, ConcatAt
    <3>2. QED BY <2>3, <3>1
  <2>8. ASSUME NEW j \in 1..n PROVE t[Len(l) + j] = c[j]
    <3>1. Len(l) + j \in 1..Len(l) + n BY ONLY <2>5, j \in 1..n, n \in 1..Len(out)
    <3>2. QED BY <2>5, <2>6, <3>1
  <2>9. q \in 1..Len(t) /\ Marks(e, t[q]) /\ p \in 0..q - 1
    <3>1. q \in 1..Len(t) /\ p \in 0..q - 1 BY <1>13, <2>2, <2>5, <2>6
    <3>2. t[q] = c[i] BY <2>2, <2>8
    <3>3. QED BY <2>2, <3>1, <3>2
  <2>10. ASSUME NEW j \in p + 1..q - 1 PROVE ~t[j].eol
    <3>1. j - Len(l) \in k + 1..i - 1 /\ j - Len(l) \in 1..n /\ j = Len(l) + (j - Len(l))
      BY <1>13, <2>2, <2>5
    <3>2. t[Len(l) + (j - Len(l))] = c[j - Len(l)] BY <2>8, <3>1
    <3>3. QED BY <2>2, <3>1, <3>2
  <2>11. ASSUME NEW j \in 1..p PROVE (l \o a)[j] = t[j]
    <3>1. CASE j \in 1..Len(l) BY <2>5, <2>6, <2>7, <3>1
    <3>2. CASE j \notin 1..Len(l)
      <4>1. j - Len(l) \in 1..k /\ j - Len(l) \in 1..n /\ j = Len(l) + (j - Len(l))
        BY <1>13, <2>5, <3>2
      <4>2. (l \o a)[Len(l) + (j - Len(l))] = c[j - Len(l)] BY <2>7, <4>1
      <4>3. t[Len(l) + (j - Len(l))] = c[j - Len(l)] BY <2>8, <4>1
      <4>4. QED BY <4>1, <4>2, <4>3
    <3>3. QED BY <3>1, <3>2
  <2>12. Len(l \o a) = p BY <2>7
  <2> HIDE DEF p, q
  <2>13. Given(l \o a, e, m, w) /\ (Only(t, e) => Only(l \o a, e))
    BY <1>6, <1>10, <1>11, <2>7, <2>9, <2>10, <2>11, <2>12, PrefixTold
  <2>14. Len(inp) = 0 BY <1>11, <2>9 DEF Unmarked
  <2>15. Answers(e, exec[e].lines)' BY <1>2, <1>5, <1>11, <2>1, <2>13 DEF Answers, m, w
  <2>16. QED BY <1>2, <1>8, <2>1, <2>14, <2>15 DEF Answering
<1>14. QED BY <1>1, <1>12, <1>13

-----------------------------------------------------------------------------
(* The invariant.                                                          *)

\* A write disturbs every call but the one that begins.
LEMMA WriteAnswering ==
  ASSUME TypeOK, NEW e \in Execs, exec'[e] = Disturbed[e]
  PROVE  Answering(e)'
<1>1. ~exec'[e].alone BY DEF Disturbed, TypeOK, Call
<1>2. QED BY <1>1 DEF Answering

\* Every step keeps what holds of a call that is alone.
LEMMA AnsweringStep ==
  ASSUME OutputInv, TypeInv', [Next]_vars, NEW e \in Execs
  PROVE  Answering(e)'
<1>1. TypeOK /\ TypeOK' /\ Orderly /\ Untouched(e) /\ Answering(e)
  BY DEF OutputInv, TypeInv
<1>2. exec \in [Execs -> Call] /\ exec' \in [Execs -> Call] BY <1>1 DEF TypeOK
<1>3. ASSUME phase \in {"none", "draining"}, UNCHANGED exec PROVE Answering(e)'
  <2>1. exec'[e].st = "idle" BY <1>1, <1>3 DEF Orderly
  <2>2. QED BY <2>1 DEF Answering
<1>4. CASE Create \/ CreateFails \/ DrainRead \/ DrainDone \/ DrainTimeout \/ DrainRaises
  BY <1>3, <1>4, Zenon DEF Create, CreateFails, DrainRead, DrainDone, DrainTimeout, DrainRaises
<1>5. CASE ReadLine \/ PrintText \/ Finish \/ Die \/ Hangup
  BY <1>1, <1>5, ShellAnswering
<1>6. ASSUME NEW d \in Execs, StartExec(d) PROVE Answering(e)'
  <2>1. CASE d = e BY <1>1, <1>6, <2>1, StartAnswering
  <2>2. CASE d # e
    <3>1. CASE exec' = [exec EXCEPT ![d].st = "raised"] /\ UNCHANGED <<inp, out>>
      <4>1. exec'[e] = exec[e] BY <1>2, <2>2, <3>1
      <4>2. \A c \in Execs : exec'[c].st = "reading" => exec[c].st = "reading"
        BY <1>2, <3>1 DEF Call
      <4>3. UNCHANGED <<shell, running, printed, whole>> BY <1>6 DEF StartExec, remote
      <4>4. QED BY <1>1, <3>1, <4>1, <4>2, <4>3, QuietAnswering
    <3>2. CASE ~(exec' = [exec EXCEPT ![d].st = "raised"] /\ UNCHANGED <<inp, out>>)
      <4>1. exec'[e] = Disturbed[e]
        <5>1. Disturbed \in [Execs -> Call] BY <1>2 DEF Disturbed, Call
        <5>2. PICK x : exec' = [Disturbed EXCEPT ![d] = x] BY <1>6, <3>2, Zenon DEF StartExec
        <5>3. QED BY <2>2, <5>1, <5>2
      <4>2. QED BY <1>1, <4>1, WriteAnswering
    <3>3. QED BY <3>1, <3>2
  <2>3. QED BY <2>1, <2>2
<1>7. ASSUME NEW d \in Execs, ReadChunk(d) PROVE Answering(e)'
  <2>1. CASE d = e BY <1>1, <1>7, <2>1, ReadAnswering
  <2>2. CASE d # e
    <3>1. UNCHANGED <<shell, running, inp, printed, whole>> /\ exec[d].st = "reading"
      BY <1>7 DEF ReadChunk, remote
    <3>2. exec'[e] = exec[e] /\ \A c \in Execs : exec'[c].st = "reading" => exec[c].st = "reading"
      <4>1. \A c \in Execs \ {d} : exec'[c] = exec[c]
        BY <1>2, <1>7 DEF ReadChunk
      <4>2. QED BY <2>2, <3>1, <4>1
    <3>3. CASE exec[e].alone /\ exec[e].st = "reading"
      BY <1>1, <2>2, <3>1, <3>3 DEF Answering
    <3>4. CASE exec[e].st # "reading" BY <1>1, <3>1, <3>2, <3>4, QuietAnswering
    <3>5. CASE ~exec[e].alone BY <3>2, <3>5 DEF Answering
    <3>6. QED BY <3>3, <3>4, <3>5
  <2>3. QED BY <2>1, <2>2
<1>8. ASSUME NEW d \in Execs, ExecTimeout(d) \/ ExecRaises(d) PROVE Answering(e)'
  <2>1. UNCHANGED <<shell, running, inp, printed, whole, out>>
    BY <1>8 DEF ExecTimeout, ExecRaises, remote
  <2>2. exec'[d].st \in {"timedOut", "error"} /\ \A c \in Execs \ {d} : exec'[c] = exec[c]
    <3>1. CASE ExecTimeout(d) BY <1>2, <3>1 DEF ExecTimeout, Call
    <3>2. CASE ExecRaises(d) BY <1>2, <3>2 DEF ExecRaises, Call
    <3>3. QED BY <1>8, <3>1, <3>2
  <2>3. CASE d = e BY <2>2, <2>3 DEF Answering
  <2>4. CASE d # e BY <1>1, <2>1, <2>2, <2>4, QuietAnswering
  <2>5. QED BY <2>3, <2>4
<1>9. CASE SetEnv BY <1>1, <1>9, WriteAnswering DEF SetEnv
<1>10. ASSUME NEW k \in Closers, Close(k) PROVE Answering(e)'
  <2>1. CASE exec' = Disturbed BY <1>1, <2>1, WriteAnswering
  <2>2. CASE UNCHANGED <<inp, out, exec>>
    <3>1. UNCHANGED <<shell, running, printed, whole>> BY <1>10 DEF Close, remote
    <3>2. QED BY <1>1, <2>2, <3>1, QuietAnswering
  <2>3. QED BY <1>10, <2>1, <2>2 DEF Close
<1>11. ASSUME NEW k \in Closers, CloseExited(k) \/ CloseTimeout(k) PROVE Answering(e)'
  <2>1. UNCHANGED <<shell, running, printed, whole, inp, out, exec>>
    BY <1>11 DEF CloseExited, CloseTimeout, remote
  <2>2. QED BY <1>1, <2>1, QuietAnswering
<1>12. CASE UNCHANGED vars BY <1>1, <1>12, QuietAnswering DEF vars, remote
<1>13. QED BY <1>4, <1>5, <1>6, <1>7, <1>8, <1>9, <1>10, <1>11, <1>12 DEF OutputInv, Next

\* Only a busy shell runs something, and only a listed session is called.
LEMMA OrderlyStep == TypeInv /\ Orderly /\ [Next]_vars => Orderly'
<1> SUFFICES ASSUME TypeInv, Orderly, [Next]_vars PROVE Orderly' OBVIOUS
<1>1. /\ phase' = "none" => shell' = "off"
      /\ shell' # "busy" => running' = NoInput
  <2>1. CASE Create BY <2>1 DEF Create, Orderly
  <2>2. CASE CreateFails \/ DrainRead \/ DrainDone \/ DrainTimeout \/ DrainRaises
    BY <2>2 DEF CreateFails, DrainRead, DrainDone, DrainTimeout, DrainRaises, remote, Orderly
  <2>3. CASE ReadLine \/ PrintText \/ Finish \/ Die \/ Hangup
    BY <2>3 DEF ReadLine, PrintText, Finish, Die, Hangup, Kill, Orderly
  <2>4. CASE \E e \in Execs : StartExec(e) \/ ReadChunk(e) \/ ExecTimeout(e) \/ ExecRaises(e)
    BY <2>4 DEF StartExec, ReadChunk, ExecTimeout, ExecRaises, remote, Orderly
  <2>5. CASE SetEnv BY <2>5 DEF SetEnv, remote, Orderly
  <2>6. CASE \E k \in Closers : Close(k) \/ CloseExited(k) \/ CloseTimeout(k)
    BY <2>6 DEF Close, CloseExited, CloseTimeout, Unlist, remote, Orderly
  <2>7. CASE UNCHANGED vars BY <2>7 DEF vars, remote, Orderly
  <2>8. QED BY <2>1, <2>2, <2>3, <2>4, <2>5, <2>6, <2>7 DEF Next
<1>2. phase \in {"listed", "removed"} => phase' \in {"listed", "removed"}
  BY Zenon DEF Next, vars, Create, CreateFails, DrainRead, DrainDone, DrainTimeout, DrainRaises,
    ReadLine, PrintText, Finish, Die, Hangup, StartExec, ReadChunk, ExecTimeout, ExecRaises,
    SetEnv, Close, CloseExited, CloseTimeout, Unlist, Found
<1>3. ASSUME NEW e \in Execs, exec'[e].st # "idle" PROVE phase' \in {"listed", "removed"}
  <2>1. exec \in [Execs -> Call] BY DEF TypeInv, TypeOK
  <2>2. CASE exec[e].st # "idle" BY <1>2, <2>2 DEF Orderly
  <2>3. CASE \E d \in Execs : StartExec(d) BY <1>2, <2>3 DEF StartExec, Found
  <2>4. CASE \E d \in Execs : ReadChunk(d) \/ ExecTimeout(d) \/ ExecRaises(d)
    <3>1. PICK d \in Execs : ReadChunk(d) \/ ExecTimeout(d) \/ ExecRaises(d) BY <2>4
    <3>2. exec[d].st = "reading" BY <3>1 DEF ReadChunk, ExecTimeout, ExecRaises
    <3>3. QED BY <1>2, <3>2 DEF Orderly
  <2>5. CASE exec' = Disturbed \/ UNCHANGED exec
    BY <1>3, <1>2, <2>1, <2>5 DEF Disturbed, Orderly, Call
  <2>6. QED
    BY <2>3, <2>4, <2>5 DEF Next, vars, Create, CreateFails, DrainRead, DrainDone,
      DrainTimeout, DrainRaises, ReadLine, PrintText, Finish, Die, Hangup, SetEnv, Close,
      CloseExited, CloseTimeout
<1>4. QED BY <1>1, <1>2, <1>3 DEF Orderly

\* Rows without anything of e, together, in part, ended or with an echo behind them.
LEMMA WithoutRow ==
  ASSUME NEW e \in Execs, NEW S, NEW x \in Seq(S), Without(e, x)
  PROVE  /\ \A y \in Seq(S) : Without(e, y) => Without(e, x \o y)
         /\ \A z \in S : z.by # e => Without(e, Append(x, z))
         /\ x # <<>> => Head(x).by # e /\ Without(e, Tail(x))
         /\ \A n \in 1..Len(x) : Without(e, SubSeq(x, n + 1, Len(x)))
<1>1. ASSUME NEW y \in Seq(S), Without(e, y) PROVE Without(e, x \o y)
  <2> SUFFICES ASSUME NEW i \in 1..Len(x \o y) PROVE (x \o y)[i].by # e BY DEF Without
  <2>1. CASE i \in 1..Len(x)
    <3>1. (x \o y)[i] = x[i] BY <2>1
    <3>2. QED BY <2>1, <3>1 DEF Without
  <2>2. CASE i - Len(x) \in 1..Len(y)
    <3>1. (x \o y)[i] = y[i - Len(x)] BY <2>2
    <3>2. QED BY <1>1, <2>2, <3>1 DEF Without
  <2>3. QED BY <2>1, <2>2
<1>2. ASSUME NEW z \in S, z.by # e PROVE Without(e, Append(x, z))
  <2> SUFFICES ASSUME NEW i \in 1..Len(x) + 1 PROVE Append(x, z)[i].by # e BY DEF Without
  <2>1. Append(x, z)[i] = IF i = Len(x) + 1 THEN z ELSE x[i] OBVIOUS
  <2>2. QED BY <1>2, <2>1 DEF Without
<1>3. ASSUME x # <<>> PROVE Head(x).by # e /\ Without(e, Tail(x))
  <2>1. Head(x) = x[1] /\ 1 \in 1..Len(x) BY <1>3
  <2>2. \A i \in 1..Len(Tail(x)) : Tail(x)[i] = x[i + 1] /\ i + 1 \in 1..Len(x) BY <1>3
  <2>3. QED BY <2>1, <2>2 DEF Without
<1>4. ASSUME NEW n \in 1..Len(x) PROVE Without(e, SubSeq(x, n + 1, Len(x)))
  <2>1. /\ Len(SubSeq(x, n + 1, Len(x))) = Len(x) - n
        /\ \A i \in 1..Len(x) - n : SubSeq(x, n + 1, Len(x))[i] = x[n + i]
    OBVIOUS
  <2>2. \A i \in 1..Len(x) - n : n + i \in 1..Len(x) OBVIOUS
  <2>3. QED BY <2>1, <2>2 DEF Without
<1>5. QED BY <1>1, <1>2, <1>3, <1>4

LEMMA WithoutEcho ==
  ASSUME NEW e \in Execs, NEW x \in Seq(Lines), Without(e, x), NEW y \in Inputs, y.by # e,
         Written(y)
  PROVE  /\ Ended(x) \in Seq(Lines) /\ Without(e, Ended(x))
         /\ Without(e, Echoed(x, y))
<1>1. Ended(x) \in Seq(Lines) /\ Without(e, Ended(x))
  BY EndedAlike DEF Alike, Without
<1>2. CASE y.kind = "sentinel"
  <2>1. Sentinel(y.by) \in Lines /\ Sentinel(y.by).by # e
    BY <1>2, LinesType DEF Written, Sentinel
  <2>2. Without(e, Append(x, Sentinel(y.by))) BY <2>1, WithoutRow
  <2>3. QED BY <1>1, <1>2, <2>2 DEF Echoed
<1>3. CASE y.kind # "sentinel" BY <1>1, <1>3 DEF Echoed
<1>4. QED BY <1>2, <1>3

\* Nothing of a call shows before it begins.
LEMMA UntouchedStep ==
  ASSUME TypeInv, Orderly, [Next]_vars, NEW e \in Execs, Untouched(e)
  PROVE  Untouched(e)'
<1> SUFFICES ASSUME exec'[e].st = "idle" PROVE Untouched(e)' BY DEF Untouched
<1>0. /\ exec \in [Execs -> Call] /\ inp \in Seq(Inputs) /\ out \in Seq(Lines) /\ e # None
      /\ running \in Inputs /\ printed \in [Execs \cup {None} -> Nat]
      /\ whole \in [Execs \cup {None} -> Nat]
      /\ Written(running) /\ \A i \in 1..Len(inp) : Written(inp[i])
  BY NoneAssumption DEF TypeInv, TypeOK
<1>1. /\ NoInput.by # e /\ \A kind \in {"export", "exit"} : Input(kind, None).by # e
      /\ \A d \in Execs \ {e}, kind \in {"command", "sentinel"} : Input(kind, d).by # e
      /\ Without(e, <<>>)
  BY <1>0 DEF NoInput, Input, Without
<1>2. exec[e].st = "idle" =>
        /\ printed[e] = 0 /\ whole[e] = 0 /\ running.by # e
        /\ Without(e, inp) /\ Without(e, out)
  BY DEF Untouched
<1>3. ASSUME printed'[e] = 0, whole'[e] = 0, running'.by # e, Without(e, inp'), Without(e, out')
      PROVE  Untouched(e)'
  BY <1>3 DEF Untouched, Without
<1>4. ASSUME exec[e].st = "idle", NEW s \in Seq(Inputs), s # <<>>, Write(s),
             Without(e, s), \A i \in 1..Len(s) : Written(s[i])
      PROVE  Without(e, inp') /\ Without(e, out')
  <2>1. Len(s) \in 1..Len(s) /\ Last(s) = s[Len(s)] /\ s[Len(s)] \in Inputs
    BY <1>4 DEF Last
  <2>2. Last(s) \in Inputs /\ Last(s).by # e /\ Written(Last(s))
    BY <1>4, <2>1 DEF Without
  <2>3. Without(e, inp \o s) BY <1>0, <1>2, <1>4, WithoutRow
  <2>4. Ended(out) \in Seq(Lines) /\ Without(e, Ended(out))
    BY <1>0, <1>2, <1>4, <2>2, WithoutEcho
  <2>5. Without(e, Echoed(Ended(out), Last(s))) BY <2>2, <2>4, WithoutEcho
  <2>6. QED BY <1>2, <1>4, <2>3, <2>5 DEF Write
<1>5. CASE UNCHANGED <<running, printed, whole, inp, out>> /\ exec[e].st = "idle"
  BY <1>2, <1>3, <1>5
<1>6. CASE Create \/ CreateFails \/ DrainDone \/ DrainTimeout \/ DrainRaises
  BY <1>5, <1>6 DEF Create, CreateFails, DrainDone, DrainTimeout, DrainRaises, remote
<1>7. CASE DrainRead \/ \E d \in Execs : ReadChunk(d)
  <2>1. UNCHANGED <<running, printed, whole, inp>>
    BY <1>7 DEF DrainRead, ReadChunk, remote
  <2>2. PICK n \in 1..Len(out) : out' = SubSeq(out, n + 1, Len(out))
    BY <1>7 DEF DrainRead, ReadChunk
  <2>3. exec[e].st = "idle"
    <3>1. CASE DrainRead BY <3>1 DEF DrainRead
    <3>2. ASSUME NEW d \in Execs, ReadChunk(d) PROVE exec[e].st = "idle"
      <4>1. exec[d].st = "reading" BY <3>2 DEF ReadChunk
      <4>2. CASE d # e
        <5>1. exec'[e] = exec[e] BY <1>0, <3>2, <4>2 DEF ReadChunk
        <5>2. QED BY <5>1
      <4>3. CASE d = e
        <5>1. \E c : \/ exec' = [exec EXCEPT ![d].lines = c]
                    \/ exec' = [exec EXCEPT ![d].st = "done", ![d].lines = c]
          BY <3>2, ReadChunkDoes, Zenon
        <5>2. exec'[e].st \in {"reading", "done"} BY <1>0, <4>1, <4>3, <5>1 DEF Call
        <5>3. QED BY <5>2
      <4>4. QED BY <4>2, <4>3
    <3>3. QED BY <1>7, <3>1, <3>2
  <2>4. Without(e, out') BY <1>0, <1>2, <2>2, <2>3, WithoutRow
  <2>5. QED BY <1>2, <1>3, <2>1, <2>3, <2>4
<1>8. CASE ReadLine
  <2>1. inp # <<>> /\ exec[e].st = "idle" BY <1>8 DEF ReadLine
  <2>2. Head(inp) \in Inputs /\ Written(Head(inp))
    <3>1. Head(inp) = inp[1] /\ 1 \in 1..Len(inp) BY <1>0, <2>1
    <3>2. QED BY <1>0, <3>1
  <2>3. Head(inp).by # e /\ Without(e, Tail(inp)) BY <1>0, <1>2, <2>1, WithoutRow
  <2>4. Without(e, Echoed(out, Head(inp))) BY <1>0, <1>2, <2>1, <2>2, <2>3, WithoutEcho
  <2>5. out' = Echoed(out, Head(inp)) /\ printed' = printed /\ whole' = whole
        /\ (inp' = <<>> \/ inp' = Tail(inp)) /\ (running' = NoInput \/ running' = Head(inp))
    BY <1>8 DEF ReadLine
  <2>6. Without(e, inp') BY <1>1, <2>3, <2>5
  <2>7. running'.by # e BY <1>1, <2>3, <2>5
  <2>8. Without(e, out') BY <2>4, <2>5
  <2>9. QED BY <1>2, <1>3, <2>1, <2>5, <2>6, <2>7, <2>8
<1>9. CASE PrintText
  <2>1. exec[e].st = "idle" /\ UNCHANGED <<running, inp>>
        /\ printed' = [printed EXCEPT ![running.by] = @ + 1]
    BY <1>9 DEF PrintText
  <2>2. PICK eol \in BOOLEAN :
          /\ out' = Append(out, Out(running.by, printed[running.by] + 1, eol))
          /\ whole' = IF eol THEN [whole EXCEPT ![running.by] = printed[running.by] + 1] ELSE whole
    BY <1>9 DEF PrintText
  <2>3. running.by # e /\ running.by \in Execs \cup {None} /\ printed[e] = 0 /\ whole[e] = 0
    BY <1>0, <1>2, <2>1 DEF Inputs
  <2>4. printed'[e] = 0 /\ whole'[e] = 0 BY <1>0, <2>1, <2>2, <2>3
  <2>5. Out(running.by, printed[running.by] + 1, eol) \in Lines
    <3>1. printed[running.by] + 1 \in Nat BY <1>0, <2>3
    <3>2. QED BY <2>3, <3>1, LinesType
  <2>6. Out(running.by, printed[running.by] + 1, eol).by # e BY <2>3 DEF Out
  <2>7. Without(e, out') BY <1>0, <1>2, <2>1, <2>2, <2>5, <2>6, WithoutRow
  <2>8. QED BY <1>2, <1>3, <2>1, <2>3, <2>4, <2>7
<1>10. CASE Finish
  <2>1. exec[e].st = "idle" /\ UNCHANGED <<printed, whole, inp>> /\ running' = NoInput
        /\ out' = IF running.kind = "sentinel" THEN Append(out, Sentinel(running.by)) ELSE out
    BY <1>10 DEF Finish
  <2>2. Without(e, out')
    <3>1. CASE running.kind # "sentinel" BY <1>2, <2>1, <3>1
    <3>2. CASE running.kind = "sentinel"
      <4>1. Sentinel(running.by) \in Lines /\ Sentinel(running.by).by # e
        BY <1>0, <1>2, <2>1, <3>2, LinesType DEF Written, Sentinel
      <4>2. QED BY <1>0, <1>2, <2>1, <3>2, <4>1, WithoutRow
    <3>3. QED BY <3>1, <3>2
  <2>3. QED BY <1>1, <1>2, <1>3, <2>1, <2>2
<1>11. CASE Die \/ Hangup
  <2>1. exec[e].st = "idle" /\ UNCHANGED <<printed, whole, out>> /\ running' = NoInput
        /\ inp' = <<>>
    BY <1>11 DEF Die, Hangup, Kill
  <2>2. QED BY <1>1, <1>2, <1>3, <2>1
<1>12. ASSUME NEW d \in Execs, StartExec(d) PROVE Untouched(e)'
  <2>1. CASE exec' = [exec EXCEPT ![d].st = "raised"] /\ UNCHANGED <<inp, out>>
    <3>1. exec[e].st = "idle" BY <1>0, <2>1 DEF Call
    <3>2. QED BY <1>5, <1>12, <2>1, <3>1 DEF StartExec, remote
  <2>2. CASE ~(exec' = [exec EXCEPT ![d].st = "raised"] /\ UNCHANGED <<inp, out>>)
    <3> DEFINE s == <<Input("command", d), Input("sentinel", d)>>
    <3>1. Disturbed \in [Execs -> Call] /\ Disturbed[e].st = exec[e].st
      BY <1>0 DEF Disturbed, Call
    <3>2. PICK a, f : exec' = [Disturbed EXCEPT ![d] =
                          [st |-> "reading", lines |-> <<>>, alone |-> a, fresh |-> f]]
      BY <1>12, <2>2, Zenon DEF StartExec
    <3>3. d # e /\ exec[e].st = "idle" BY <3>1, <3>2
    <3>4. Write(s) /\ UNCHANGED <<running, printed, whole>>
      BY <1>12, <2>2 DEF StartExec, remote
    <3>5. s \in Seq(Inputs) /\ s # <<>> /\ \A i \in 1..Len(s) : Written(s[i])
      BY WrittenLines
    <3>6. Without(e, s) BY <3>3 DEF Input, Without
    <3> HIDE DEF s
    <3>7. Without(e, inp') /\ Without(e, out') BY <1>4, <3>3, <3>4, <3>5, <3>6
    <3>8. QED BY <1>2, <1>3, <3>3, <3>4, <3>7
  <2>3. QED BY <2>1, <2>2
<1>13. ASSUME NEW kind \in {"export", "exit"}, Write(<<Input(kind, None)>>), exec' = Disturbed,
              UNCHANGED <<running, printed, whole>>
       PROVE  Untouched(e)'
  <2> DEFINE s == <<Input(kind, None)>>
  <2>1. exec[e].st = "idle" BY <1>0, <1>13 DEF Disturbed, Call
  <2>2. s \in Seq(Inputs) /\ s # <<>> /\ \A i \in 1..Len(s) : Written(s[i]) BY WrittenLines
  <2>3. Without(e, s) BY <1>0 DEF Input, Without
  <2>4. Write(s) BY <1>13
  <2> HIDE DEF s
  <2>5. Without(e, inp') /\ Without(e, out') BY <1>4, <2>1, <2>2, <2>3, <2>4
  <2>6. QED BY <1>2, <1>3, <1>13, <2>1, <2>5
<1>14. CASE SetEnv BY <1>13, <1>14 DEF SetEnv, remote
<1>15. ASSUME NEW k \in Closers, Close(k) PROVE Untouched(e)'
  <2>1. UNCHANGED <<running, printed, whole>> BY <1>15 DEF Close, remote
  <2>2. CASE UNCHANGED <<inp, out, exec>> BY <1>5, <2>1, <2>2
  <2>3. CASE Write(<<Input("exit", None)>>) /\ exec' = Disturbed BY <1>13, <2>1, <2>3
  <2>4. QED BY <1>15, <2>2, <2>3 DEF Close
<1>16. CASE \E k \in Closers : CloseExited(k) \/ CloseTimeout(k)
  BY <1>5, <1>16 DEF CloseExited, CloseTimeout, remote
<1>17. ASSUME NEW d \in Execs, ExecTimeout(d) \/ ExecRaises(d) PROVE Untouched(e)'
  <2>1. UNCHANGED <<running, printed, whole, inp, out>>
    BY <1>17 DEF ExecTimeout, ExecRaises, remote
  <2>2. exec[e].st = "idle"
    <3>1. CASE ExecTimeout(d) BY <1>0, <3>1 DEF ExecTimeout, Call
    <3>2. CASE ExecRaises(d) BY <1>0, <3>2 DEF ExecRaises, Call
    <3>3. QED BY <1>17, <3>1, <3>2
  <2>3. QED BY <1>5, <2>1, <2>2
<1>18. CASE UNCHANGED vars BY <1>5, <1>18 DEF vars, remote
<1>19. QED
  BY <1>6, <1>7, <1>8, <1>9, <1>10, <1>11, <1>12, <1>14, <1>15, <1>16, <1>17, <1>18 DEF Next

\* What an answer has is what ExactWhenUndisturbed says of it.
LEMMA AnswerExact ==
  ASSUME TypeOK, NEW e \in Execs, Answers(e, exec[e].lines)
  PROVE  /\ 1..whole[e] \subseteq Returned(e)
         /\ \A n \in Returned(e) : n <= printed[e] /\ 1..n \subseteq Returned(e)
         /\ \A i, j \in OutputAt(e, e) : i < j => exec[e].lines[i].n < exec[e].lines[j].n
         /\ exec[e].fresh => \A d \in (Execs \cup {None}) \ {e} : OutputAt(e, d) = {}
<1> DEFINE s == exec[e].lines
<1>1. s \in Seq(Lines) BY DEF TypeOK, Call
<1>2. OutputAt(e, e) = {i \in 1..Len(s) : By(e, s[i])} BY <1>1 DEF OutputAt, By
<1>3. ASSUME NEW n, \E i \in 1..Len(s) : By(e, s[i]) /\ s[i].n = n PROVE n \in Returned(e)
  BY <1>2, <1>3 DEF Returned
<1>4. ASSUME NEW n \in Returned(e) PROVE \E i \in 1..Len(s) : By(e, s[i]) /\ s[i].n = n
  BY <1>2, <1>4 DEF Returned
<1> DEFINE m == printed[e]
<1>5. Given(s, e, m, whole[e]) /\ m \in Nat BY DEF Answers, TypeOK
<1> HIDE DEF s, m
<1>6. 1..whole[e] \subseteq Returned(e) BY <1>3, <1>5 DEF Given
<1>7. ASSUME NEW n \in Returned(e) PROVE n <= m /\ 1..n \subseteq Returned(e)
  <2>1. PICK i \in 1..Len(s) : By(e, s[i]) /\ s[i].n = n BY <1>4
  <2>2. /\ s[i].n \in 1..m
        /\ \A k \in 1..s[i].n : \E j \in 1..Len(s) : By(e, s[j]) /\ s[j].n = k
    BY <1>5, <2>1 DEF Given
  <2>3. \A k \in 1..n : k \in Returned(e) BY <1>3, <2>1, <2>2
  <2>4. QED BY <1>5, <2>1, <2>2, <2>3
<1>8. \A i, j \in OutputAt(e, e) : i < j => s[i].n < s[j].n BY <1>2, <1>5 DEF Given
<1>9. ASSUME exec[e].fresh, NEW d \in (Execs \cup {None}) \ {e} PROVE OutputAt(e, d) = {}
  BY <1>1, <1>9 DEF Answers, Only, OutputAt, s
<1>10. QED BY <1>6, <1>7, <1>8, <1>9 DEF s, m

\* Whoever sends a command to a session at its prompt and is left alone gets every
\* line that the command has ended, wherever lines and chunks end, in order and with
\* no gap, and no output but its own if nothing was left unread.
THEOREM ExactWhenUndisturbedHolds == Spec => []ExactWhenUndisturbed
<1>1. Init => OutputInv
  <2> SUFFICES ASSUME Init PROVE OutputInv OBVIOUS
  <2>1. TypeInv BY InitType
  <2>2. Orderly BY DEF Init, Orderly
  <2>3. ASSUME NEW e \in Execs PROVE Untouched(e) /\ Answering(e)
    <3>1. e # None BY NoneAssumption
    <3>2. QED BY <3>1 DEF Init, Untouched, Without, Answering, NoInput, Input
  <2>4. QED BY <2>1, <2>2, <2>3 DEF OutputInv
<1>2. OutputInv /\ [Next]_vars => OutputInv'
  <2> SUFFICES ASSUME OutputInv, [Next]_vars PROVE OutputInv' OBVIOUS
  <2>1. TypeInv /\ Orderly BY DEF OutputInv
  <2>2. TypeInv' BY <2>1, TypeStep
  <2>3. Orderly' BY <2>1, OrderlyStep
  <2>4. ASSUME NEW e \in Execs PROVE Untouched(e)' /\ Answering(e)'
    <3>1. Untouched(e) BY DEF OutputInv
    <3>2. QED BY <2>1, <2>2, <3>1, UntouchedStep, AnsweringStep
  <2>5. QED BY <2>2, <2>3, <2>4 DEF OutputInv
<1>3. OutputInv => ExactWhenUndisturbed
  <2> SUFFICES ASSUME OutputInv, NEW e \in Execs, exec[e].st = "done", exec[e].alone
               PROVE  /\ 1..whole[e] \subseteq Returned(e)
                      /\ \A n \in Returned(e) : n <= printed[e] /\ 1..n \subseteq Returned(e)
                      /\ \A i, j \in OutputAt(e, e) : i < j => exec[e].lines[i].n < exec[e].lines[j].n
                      /\ exec[e].fresh => \A d \in (Execs \cup {None}) \ {e} : OutputAt(e, d) = {}
    BY DEF ExactWhenUndisturbed
  <2>1. TypeOK /\ Answers(e, exec[e].lines) BY DEF OutputInv, TypeInv, Answering
  <2>2. QED BY <2>1, AnswerExact
<1>4. QED BY <1>1, <1>2, <1>3, PTL DEF Spec
===============================================================================
