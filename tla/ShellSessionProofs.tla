-------------------------- MODULE ShellSessionProofs --------------------------
(* Theorems about ShellSession for any number of calls and of lines.       *)
EXTENDS ShellSession, FiniteSetTheorems, FunctionTheorems, TLAPS

-----------------------------------------------------------------------------
(* Type correctness.                                                       *)

\* What a command or its echo shows is a piece of text.
LEMMA LinesType ==
  /\ \A e \in Execs : Sentinel(e) \in Lines
  /\ \A x \in Execs \cup {None}, n \in Nat, eol \in BOOLEAN : Out(x, n, eol) \in Lines
  BY DEF Sentinel, Out, Lines

\* Row t has the text of row s, but that lines are ended in it and sentinels torn.
Alike(s, t) ==
  /\ Len(t) = Len(s)
  /\ \A i \in 1..Len(s) :
       /\ t[i].kind = "out" <=> s[i].kind = "out"
       /\ t[i].kind = "sentinel" => s[i].kind = "sentinel"
       /\ t[i].by = s[i].by /\ t[i].n = s[i].n
       /\ s[i].eol => t[i].eol

\* Ending the last line of a text, or tearing the sentinel that is last in it.
LEMMA EndedAlike ==
  ASSUME NEW s \in Seq(Lines)
  PROVE  Ended(s) \in Seq(Lines) /\ Alike(s, Ended(s))
<1>1. DOMAIN s = 1..Len(s) /\ Len(s) \in Nat OBVIOUS
<1>2. \A i \in 1..Len(s) : s[i] \in Lines OBVIOUS
<1>3. \A i \in 1..Len(s) : [s[i] EXCEPT !.eol = TRUE] \in Lines BY <1>2 DEF Lines
<1>4. Ended(s) \in Seq(Lines) /\ Len(Ended(s)) = Len(s) BY <1>1, <1>2, <1>3 DEF Ended
<1>5. \A i \in 1..Len(s) : Ended(s)[i] \in {s[i], [s[i] EXCEPT !.eol = TRUE]}
  BY <1>1 DEF Ended
<1>6. QED BY <1>2, <1>4, <1>5 DEF Alike, Lines

LEMMA TornAlike ==
  ASSUME NEW s \in Seq(Lines)
  PROVE  /\ Torn(s) \in Seq(Lines)
         /\ s # <<>> /\ s[Len(s)].kind = "sentinel" => Alike(s, Torn(s))
<1>1. DOMAIN s = 1..Len(s) /\ Len(s) \in Nat OBVIOUS
<1>2. \A i \in 1..Len(s) : s[i] \in Lines OBVIOUS
<1>3. \A i \in 1..Len(s) : [s[i] EXCEPT !.kind = "torn"] \in Lines BY <1>2 DEF Lines
<1>4. Torn(s) \in Seq(Lines) /\ Len(Torn(s)) = Len(s) BY <1>1, <1>2, <1>3 DEF Torn
<1>5. \A i \in 1..Len(s) :
        \/ Torn(s)[i] = s[i]
        \/ i = Len(s) /\ Torn(s)[i] = [s[i] EXCEPT !.kind = "torn"]
  BY <1>1 DEF Torn
<1>6. QED BY <1>2, <1>4, <1>5 DEF Alike, Lines

\* The inputs of the calls, and none, are inputs.
LEMMA InputsType ==
  /\ NoInput \in Inputs
  /\ \A e \in Execs : Input("command", e) \in Inputs /\ Input("sentinel", e) \in Inputs
  /\ Input("export", None) \in Inputs /\ Input("exit", None) \in Inputs
  BY DEF Input, NoInput, Inputs

\* A text with the echo of an input of some call is one.
LEMMA EchoType ==
  ASSUME NEW s \in Seq(Lines), NEW x \in Inputs, x.kind = "sentinel" => x.by \in Execs
  PROVE  Echoed(s, x) \in Seq(Lines)
  BY LinesType, EndedAlike DEF Echoed

\* Writing lines to stdin keeps both streams typed.
LEMMA WriteType ==
  ASSUME TypeOK, NEW s \in Seq(Inputs), s # <<>>, Write(s),
         Last(s).kind = "sentinel" => Last(s).by \in Execs
  PROVE  inp' \in Seq(Inputs) /\ out' \in Seq(Lines)
<1>1. Last(s) \in Inputs
  BY DEF Last
<1>2. out \in Seq(Lines) /\ inp \in Seq(Inputs) BY DEF TypeOK
<1>3. Ended(out) \in Seq(Lines) BY <1>2, EndedAlike
<1>4. Echoed(Ended(out), Last(s)) \in Seq(Lines)
  BY <1>1, <1>3, EchoType
<1>5. QED BY <1>2, <1>4 DEF Write

\* A piece of a sequence of lines is one.
LEMMA SubSeqType ==
  ASSUME NEW S, NEW s \in Seq(S), NEW i \in Nat \ {0}, NEW j \in 0..Len(s)
  PROVE  /\ SubSeq(s, i, j) \in Seq(S)
         /\ i <= j + 1 => Len(SubSeq(s, i, j)) = j - i + 1
<1>1. \A k \in i..j : s[k] \in S
  OBVIOUS
<1>2. QED BY <1>1

\* The lines of a text are counted by a number.
LEMMA LinesFromType ==
  ASSUME NEW s \in Seq(Lines), NEW k \in Nat
  PROVE  LinesFrom(s, k) \in Nat /\ IsFiniteSet({i \in k..Len(s) : s[i].eol})
<1>1. IsFiniteSet(k..Len(s)) BY FS_Interval
<1>2. IsFiniteSet({i \in k..Len(s) : s[i].eol}) BY <1>1, FS_Subset
<1>3. QED BY <1>2, FS_CardinalityType DEF LinesFrom

\* What is kept of a text has as many lines as the text has from there on.
LEMMA LinesKept ==
  ASSUME NEW s \in Seq(Lines), NEW k \in 1..Len(s) + 1
  PROVE  LinesFrom(SubSeq(s, k, Len(s)), 1) = LinesFrom(s, k)
<1> DEFINE t == SubSeq(s, k, Len(s))
           S == {i \in k..Len(s) : s[i].eol}
           T == {i \in 1..Len(t) : t[i].eol}
           f == [i \in S |-> i - k + 1]
<1>1. /\ Len(t) = Len(s) - k + 1
      /\ \A i \in 1..Len(s) - k + 1 : t[i] = s[k + i - 1]
  OBVIOUS
<1> HIDE DEF t
<1>2. \A i \in S : i - k + 1 \in T
  <2> SUFFICES ASSUME NEW i \in S PROVE i - k + 1 \in T OBVIOUS
  <2>1. i - k + 1 \in 1..Len(s) - k + 1 /\ k + (i - k + 1) - 1 = i OBVIOUS
  <2>2. t[i - k + 1] = s[k + (i - k + 1) - 1] BY <1>1, <2>1
  <2>3. QED BY <1>1, <2>1, <2>2
<1>3. \A j \in T : k + j - 1 \in S /\ (k + j - 1) - k + 1 = j BY <1>1
<1>4. f \in [S -> T] BY <1>2
<1>5. \A a, b \in S : f[a] = f[b] => a = b OBVIOUS
<1>6. \A j \in T : \E i \in S : f[i] = j BY <1>3
<1>7. f \in Bijection(S, T)
  <2> HIDE DEF S, T, f
  <2>1. QED BY <1>4, <1>5, <1>6, Fun_IsBij
<1>8. IsFiniteSet(S) BY LinesFromType
<1>9. Cardinality(T) = Cardinality(S)
  <2> HIDE DEF S, T, f
  <2>1. ExistsBijection(S, T) BY <1>7 DEF ExistsBijection
  <2>2. QED BY <1>8, <2>1, FS_Bijection
<1>10. QED BY <1>9 DEF LinesFrom, t

\* The buffer keeps to its limit.
LEMMA KeptType ==
  ASSUME NEW s \in Seq(Lines), NEW k \in 1..Len(s) + 1, KeptFrom(s, k)
  PROVE  /\ SubSeq(s, k, Len(s)) \in Seq(Lines)
         /\ LinesFrom(SubSeq(s, k, Len(s)), 1) <= BufferLines
  BY SubSeqType, LinesKept DEF KeptFrom

\* A line that holds a sentinel is of a call.
Written(x) == x.kind = "sentinel" => x.by \in Execs

\* The strengthening of TypeOK: what bash has yet to echo is of calls.
TypeInv == TypeOK /\ Written(running) /\ \A i \in 1..Len(inp) : Written(inp[i])

\* Writing the lines of a call, of set_env or of close_session keeps TypeInv.
LEMMA WriteStep ==
  ASSUME TypeInv, NEW s \in Seq(Inputs), s # <<>>, Write(s),
         \A i \in 1..Len(s) : Written(s[i])
  PROVE  /\ inp' \in Seq(Inputs) /\ out' \in Seq(Lines)
         /\ \A i \in 1..Len(inp') : Written(inp'[i])
<1>1. Last(s).kind = "sentinel" => Last(s).by \in Execs
  BY DEF Last, Written
<1>2. inp' \in Seq(Inputs) /\ out' \in Seq(Lines)
  BY <1>1, WriteType DEF TypeInv
<1>3. \A i \in 1..Len(inp') : Written(inp'[i])
  BY DEF Write, TypeInv, TypeOK
<1>4. QED BY <1>2, <1>3

\* What the calls write can be written.
LEMMA WrittenLines ==
  /\ \A e \in Execs : LET s == <<Input("command", e), Input("sentinel", e)>> IN
       s \in Seq(Inputs) /\ s # <<>> /\ \A i \in 1..Len(s) : Written(s[i])
  /\ \A kind \in {"export", "exit"} : LET s == <<Input(kind, None)>> IN
       s \in Seq(Inputs) /\ s # <<>> /\ \A i \in 1..Len(s) : Written(s[i])
<1>1. ASSUME NEW e \in Execs
      PROVE  LET s == <<Input("command", e), Input("sentinel", e)>> IN
               s \in Seq(Inputs) /\ s # <<>> /\ \A i \in 1..Len(s) : Written(s[i])
  <2> DEFINE a == Input("command", e)  b == Input("sentinel", e)
  <2>1. a \in Inputs /\ b \in Inputs /\ Written(a) /\ Written(b)
    BY InputsType DEF Input, Written
  <2> HIDE DEF a, b
  <2>2. <<a, b>> \in Seq(Inputs) /\ <<a, b>> # <<>>
        /\ \A i \in 1..Len(<<a, b>>) : Written(<<a, b>>[i])
    BY <2>1
  <2>3. QED BY <2>2 DEF a, b
<1>2. ASSUME NEW kind \in {"export", "exit"}
      PROVE  LET s == <<Input(kind, None)>> IN
               s \in Seq(Inputs) /\ s # <<>> /\ \A i \in 1..Len(s) : Written(s[i])
  <2> DEFINE a == Input(kind, None)
  <2>1. a \in Inputs /\ Written(a)
    BY InputsType DEF Input, Written
  <2> HIDE DEF a
  <2>2. <<a>> \in Seq(Inputs) /\ <<a>> # <<>> /\ \A i \in 1..Len(<<a>>) : Written(<<a>>[i])
    BY <2>1
  <2>3. QED BY <2>2 DEF a
<1>3. QED BY <1>1, <1>2

\* The text that a read returns.
Chunk(n, torn) == IF torn THEN Torn(SubSeq(out, 1, n)) ELSE Ended(SubSeq(out, 1, n))

\* It is what was in the stream, but that its last line is ended or its sentinel torn.
LEMMA ChunkType ==
  ASSUME out \in Seq(Lines), NEW n \in 1..Len(out), NEW torn \in BOOLEAN,
         torn => out[n].kind = "sentinel"
  PROVE  /\ Chunk(n, torn) \in Seq(Lines) /\ Len(Chunk(n, torn)) = n
         /\ Alike(SubSeq(out, 1, n), Chunk(n, torn))
<1> DEFINE t == SubSeq(out, 1, n)
<1>1. t \in Seq(Lines) /\ Len(t) = n /\ t # <<>> /\ t[n] = out[n]
  <2>1. t \in Seq(Lines) BY SubSeqType
  <2>2. QED BY <2>1
<1> HIDE DEF t
<1>2. CASE torn
  <2>1. t[Len(t)].kind = "sentinel" BY <1>1, <1>2
  <2>2. Torn(t) \in Seq(Lines) /\ Alike(t, Torn(t)) BY <1>1, <2>1, TornAlike
  <2>3. Chunk(n, torn) = Torn(t) BY <1>2 DEF Chunk, t
  <2>4. QED BY <1>1, <2>2, <2>3 DEF Alike, t
<1>3. CASE ~torn
  <2>1. Ended(t) \in Seq(Lines) /\ Alike(t, Ended(t)) BY <1>1, EndedAlike
  <2>2. Chunk(n, torn) = Ended(t) BY <1>3 DEF Chunk, t
  <2>3. QED BY <1>1, <2>1, <2>2 DEF Alike, t
<1>4. QED BY <1>2, <1>3

\* What a read of execute_in_session does.
LEMMA ReadChunkDoes ==
  ASSUME NEW e \in Execs, ReadChunk(e)
  PROVE  \E n \in 1..Len(out), torn \in BOOLEAN :
           /\ torn => out[n].kind = "sentinel"
           /\ out' = SubSeq(out, n + 1, Len(out))
           /\ \/ exec' = [exec EXCEPT ![e].lines = @ \o Chunk(n, torn)]
              \/ \E i \in Hits(e, Chunk(n, torn)), k \in 0..n :
                   /\ k < i /\ LineBegins(Chunk(n, torn), k, i)
                   /\ exec' = [exec EXCEPT ![e].st = "done",
                                           ![e].lines = @ \o SubSeq(Chunk(n, torn), 1, k)]
  BY Zenon DEF ReadChunk, Chunk

\* A chunk that execute_in_session reads leaves calls and stream typed.
LEMMA ReadChunkStep ==
  ASSUME TypeInv, NEW e \in Execs, ReadChunk(e)
  PROVE  out' \in Seq(Lines) /\ exec' \in [Execs -> Call]
<1>1. PICK n \in 1..Len(out), torn \in BOOLEAN :
        /\ torn => out[n].kind = "sentinel"
        /\ out' = SubSeq(out, n + 1, Len(out))
        /\ \/ exec' = [exec EXCEPT ![e].lines = @ \o Chunk(n, torn)]
           \/ \E i \in Hits(e, Chunk(n, torn)), k \in 0..n :
                /\ k < i /\ LineBegins(Chunk(n, torn), k, i)
                /\ exec' = [exec EXCEPT ![e].st = "done",
                                        ![e].lines = @ \o SubSeq(Chunk(n, torn), 1, k)]
  BY ReadChunkDoes, Zenon
<1> USE DEF TypeInv, TypeOK
<1> DEFINE chunk == Chunk(n, torn)
<1>2. out' \in Seq(Lines)
  BY <1>1, SubSeqType
<1>3. chunk \in Seq(Lines) /\ Len(chunk) = n
  BY <1>1, ChunkType
<1> HIDE DEF chunk
<1>4. exec[e] \in Call /\ exec[e].lines \in Seq(Lines)
  BY DEF Call
<1>5. ASSUME NEW s \in Seq(Lines), NEW st \in {"reading", "done"}
      PROVE  /\ [exec[e] EXCEPT !.st = st, !.lines = @ \o s] \in Call
             /\ [exec[e] EXCEPT !.lines = @ \o s] \in Call
  <2>1. exec[e].lines \o s \in Seq(Lines)
    BY <1>4
  <2>2. QED BY <1>4, <2>1 DEF Call
<1>6. CASE exec' = [exec EXCEPT ![e].lines = @ \o chunk]
  <2>1. [exec[e] EXCEPT !.lines = @ \o chunk] \in Call
    BY <1>3, <1>4, <1>5
  <2>2. QED BY <1>2, <1>6, <2>1
<1>7. ASSUME NEW k \in 0..n,
             exec' = [exec EXCEPT ![e].st = "done",
                                  ![e].lines = @ \o SubSeq(chunk, 1, k)]
      PROVE  exec' \in [Execs -> Call]
  <2>1. SubSeq(chunk, 1, k) \in Seq(Lines)
    BY <1>3, SubSeqType
  <2>2. QED BY <1>5, <1>7, <2>1
<1>8. QED BY <1>1, <1>2, <1>6, <1>7 DEF chunk

\* Every step keeps every type.
LEMMA TypeStep == TypeInv /\ [Next]_vars => TypeInv'
<1> SUFFICES ASSUME TypeInv, [Next]_vars PROVE TypeInv'
  OBVIOUS
<1> USE DEF TypeInv, remote
<1>1. CASE Create \/ CreateFails \/ DrainDone \/ DrainTimeout \/ DrainRaises
  BY <1>1 DEF Create, CreateFails, DrainDone, DrainTimeout, DrainRaises, TypeOK
<1>2. CASE DrainRead
  <2>1. PICK n \in 1..Len(out) :
          /\ \E k \in 1..Len(buffer \o Ended(SubSeq(out, 1, n))) + 1 :
               /\ KeptFrom(buffer \o Ended(SubSeq(out, 1, n)), k)
               /\ buffer' = SubSeq(buffer \o Ended(SubSeq(out, 1, n)), k,
                                   Len(buffer \o Ended(SubSeq(out, 1, n))))
          /\ out' = SubSeq(out, n + 1, Len(out))
    BY <1>2 DEF DrainRead
  <2> DEFINE all == buffer \o Ended(SubSeq(out, 1, n))
  <2>2. SubSeq(out, 1, n) \in Seq(Lines) /\ out' \in Seq(Lines)
    BY <2>1, SubSeqType DEF TypeOK
  <2>3. all \in Seq(Lines)
    <3>1. Ended(SubSeq(out, 1, n)) \in Seq(Lines) BY <2>2, EndedAlike
    <3>2. buffer \in Seq(Lines) BY DEF TypeOK
    <3> HIDE DEF TypeInv
    <3>3. QED BY ONLY <3>1, <3>2
  <2>4. PICK k \in 1..Len(all) + 1 : KeptFrom(all, k) /\ buffer' = SubSeq(all, k, Len(all))
    BY <2>1
  <2> HIDE DEF all
  <2>5. buffer' \in Seq(Lines) /\ LinesFrom(buffer', 1) <= BufferLines
    BY <2>3, <2>4, KeptType
  <2>6. QED BY <1>2, <2>2, <2>5 DEF DrainRead, TypeOK
<1>3. CASE ReadLine
  <2>1. Head(inp) \in Inputs /\ Written(Head(inp)) /\ Tail(inp) \in Seq(Inputs)
    BY <1>3 DEF ReadLine, TypeOK
  <2>2. Echoed(out, Head(inp)) \in Seq(Lines)
    BY <2>1, EchoType DEF Written, TypeOK
  <2>3. out' \in Seq(Lines)
    BY <1>3, <2>2 DEF ReadLine
  <2>4. running' \in Inputs /\ Written(running') /\ inp' \in Seq(Inputs)
    <3>1. NoInput \in Inputs /\ Written(NoInput) /\ <<>> \in Seq(Inputs)
      BY InputsType DEF NoInput, Input, Written
    <3>2. QED BY <1>3, <2>1, <3>1 DEF ReadLine
  <2>5. \A i \in 1..Len(inp') : Written(inp'[i])
    <3>1. inp \in Seq(Inputs) /\ inp # <<>> /\ (inp' = <<>> \/ inp' = Tail(inp))
      BY <1>3 DEF ReadLine, TypeOK
    <3>2. ASSUME NEW i \in 1..Len(Tail(inp)) PROVE Written(Tail(inp)[i])
      <4>1. i + 1 \in 1..Len(inp) /\ Tail(inp)[i] = inp[i + 1]
        BY <3>1
      <4>2. QED BY <4>1
    <3>3. QED BY <3>1, <3>2
  <2>6. shell' \in {"busy", "gone"}
    BY <1>3 DEF ReadLine
  <2>7. QED BY <1>3, <2>3, <2>4, <2>5, <2>6 DEF ReadLine, TypeOK
<1>4. CASE PrintText
  <2> DEFINE by == running.by
  <2>1. by \in Execs \cup {None}
    BY DEF TypeOK, Inputs
  <2>2. PICK eol \in BOOLEAN :
          /\ out' = Append(out, Out(by, printed[by] + 1, eol))
          /\ whole' = IF eol THEN [whole EXCEPT ![by] = printed[by] + 1] ELSE whole
    BY <1>4 DEF PrintText
  <2>3. printed[by] + 1 \in Nat
    BY <2>1 DEF TypeOK
  <2>4. Out(by, printed[by] + 1, eol) \in Lines
    BY <2>1, <2>3, LinesType
  <2>5. out' \in Seq(Lines) /\ whole' \in [Execs \cup {None} -> Nat]
    <3> HIDE DEF by
    <3>1. QED BY <2>1, <2>2, <2>3, <2>4 DEF TypeOK
  <2>6. printed' \in [Execs \cup {None} -> Nat]
    BY <1>4, <2>1, <2>3 DEF PrintText, TypeOK
  <2>7. QED BY <1>4, <2>5, <2>6 DEF PrintText, TypeOK
<1>5. CASE Finish
  <2>1. running.kind = "sentinel" => Sentinel(running.by) \in Lines
    BY LinesType DEF Written
  <2>2. out' \in Seq(Lines)
    BY <1>5, <2>1 DEF Finish, TypeOK
  <2>3. running' \in Inputs /\ Written(running')
    BY <1>5, InputsType DEF Finish, NoInput, Input, Written
  <2>4. QED BY <1>5, <2>2, <2>3 DEF Finish, TypeOK
<1>6. ASSUME Kill PROVE /\ shell' = "gone" /\ inp' \in Seq(Inputs) /\ inp' = <<>>
                        /\ running' \in Inputs /\ Written(running')
  BY <1>6, InputsType DEF Kill, NoInput, Input, Written
<1>7. CASE Die \/ Hangup
  BY <1>6, <1>7 DEF Die, Hangup, TypeOK
<1>8. ASSUME NEW e \in Execs, StartExec(e) PROVE TypeInv'
  <2>1. ASSUME NEW f \in [Execs -> Call], NEW a \in BOOLEAN, NEW b \in BOOLEAN
        PROVE  [f EXCEPT ![e] = [st |-> "reading", lines |-> <<>>, alone |-> a, fresh |-> b]]
                 \in [Execs -> Call]
    BY DEF Call
  <2>2. Disturbed \in [Execs -> Call]
    BY DEF Disturbed, TypeOK, Call
  <2>4. exec' \in [Execs -> Call]
    <3>1. CASE shell = "gone" /\ exec' = [exec EXCEPT ![e].st = "raised"]
      BY <3>1 DEF TypeOK, Call
    <3>2. CASE exec' = [Disturbed EXCEPT ![e] =
                 [st |-> "reading", lines |-> <<>>,
                  alone |-> /\ shell = "prompt" /\ inp = <<>>
                            /\ \A d \in Execs : exec[d].st # "reading",
                  fresh |-> out = <<>>]]
      <4>1. (/\ shell = "prompt" /\ inp = <<>>
             /\ \A d \in Execs : exec[d].st # "reading") \in BOOLEAN /\ (out = <<>>) \in BOOLEAN
        OBVIOUS
      <4>2. QED BY <2>1, <2>2, <3>2, <4>1
    <3>3. QED BY <1>8, <3>1, <3>2 DEF StartExec
  <2>5. CASE Write(<<Input("command", e), Input("sentinel", e)>>)
    <3>1. /\ inp' \in Seq(Inputs) /\ out' \in Seq(Lines)
          /\ \A i \in 1..Len(inp') : Written(inp'[i])
      BY <2>5, WriteStep, WrittenLines
    <3>2. QED BY <1>8, <2>4, <3>1 DEF StartExec, TypeOK
  <2>6. CASE UNCHANGED <<inp, out>>
    BY <1>8, <2>4, <2>6 DEF StartExec, TypeOK
  <2>7. QED BY <1>8, <2>5, <2>6 DEF StartExec
<1>9. ASSUME NEW e \in Execs, ReadChunk(e) PROVE TypeInv'
  BY <1>9, ReadChunkStep DEF ReadChunk, TypeOK
<1>10. ASSUME NEW e \in Execs, ExecTimeout(e) \/ ExecRaises(e) PROVE TypeInv'
  <2>1. exec' \in [Execs -> Call]
    <3>1. exec \in [Execs -> Call] BY DEF TypeOK
    <3>2. [exec[e] EXCEPT !.st = "timedOut"] \in Call BY <3>1 DEF Call
    <3>3. [exec[e] EXCEPT !.st = "error", !.lines = <<>>] \in Call
      <4>1. <<>> \in Seq(Lines) OBVIOUS
      <4>2. QED BY <3>1, <4>1 DEF Call
    <3>4. CASE ExecTimeout(e) BY <3>1, <3>2, <3>4 DEF ExecTimeout
    <3>5. CASE ExecRaises(e) BY <3>1, <3>3, <3>5 DEF ExecRaises
    <3>6. QED BY <1>10, <3>4, <3>5
  <2>2. QED BY <1>10, <2>1 DEF ExecTimeout, ExecRaises, TypeOK
<1>11. Disturbed \in [Execs -> Call]
  BY DEF Disturbed, TypeOK, Call
<1>12. CASE SetEnv
  <2>1. envs' \in 0..MaxEnv
    BY <1>12, BoundsAssumption DEF SetEnv, TypeOK
  <2>2. /\ inp' \in Seq(Inputs) /\ out' \in Seq(Lines)
        /\ \A i \in 1..Len(inp') : Written(inp'[i])
    BY <1>12, WriteStep, WrittenLines DEF SetEnv
  <2>3. QED BY <1>11, <1>12, <2>1, <2>2 DEF SetEnv, TypeOK
<1>13. ASSUME NEW k \in Closers, Unlist(k)
       PROVE  /\ phase' = "removed"
              /\ closer' \in [Closers -> {"idle", "waiting", "done", "raised"}]
  BY <1>13 DEF Unlist, TypeOK
<1>14. ASSUME NEW k \in Closers, Close(k) PROVE TypeInv'
  <2>1. CASE Write(<<Input("exit", None)>>) /\ UNCHANGED phase /\ exec' = Disturbed
             /\ closer' = [closer EXCEPT ![k] = "waiting"]
    <3>1. /\ inp' \in Seq(Inputs) /\ out' \in Seq(Lines)
          /\ \A i \in 1..Len(inp') : Written(inp'[i])
      BY <2>1, WriteStep, WrittenLines
    <3>2. QED BY <1>11, <1>14, <2>1, <3>1 DEF Close, TypeOK
  <2>2. CASE Unlist(k) /\ UNCHANGED <<inp, out, exec>>
    BY <1>13, <1>14, <2>2 DEF Close, TypeOK
  <2>3. QED BY <1>14, <2>1, <2>2 DEF Close
<1>15. ASSUME NEW k \in Closers, CloseExited(k) PROVE TypeInv'
  BY <1>13, <1>15 DEF CloseExited, TypeOK
<1>16. ASSUME NEW k \in Closers, CloseTimeout(k) PROVE TypeInv'
  BY <1>13, <1>16 DEF CloseTimeout, TypeOK
<1>17. CASE UNCHANGED vars
  BY <1>17 DEF vars, TypeOK
<1>18. QED
  BY <1>1, <1>2, <1>3, <1>4, <1>5, <1>7, <1>8, <1>9, <1>10, <1>12, <1>14, <1>15, <1>16,
     <1>17
  DEF Next

\* The program starts with every type right.
LEMMA InitType == Init => TypeInv
<1> SUFFICES ASSUME Init PROVE TypeInv
  OBVIOUS
<1>1. exec \in [Execs -> Call]
  BY DEF Init, Call
<1>2. running \in Inputs /\ Written(running)
  BY InputsType DEF Init, NoInput, Input, Written
<1>3. envs \in 0..MaxEnv
  BY BoundsAssumption DEF Init
<1>4. LinesFrom(buffer, 1) <= BufferLines
  <2>1. {i \in 1..Len(<<>>) : <<>>[i].eol} = {} OBVIOUS
  <2>2. LinesFrom(buffer, 1) = 0 BY <2>1, FS_EmptySet DEF LinesFrom, Init
  <2>3. QED BY <2>2, BoundsAssumption
<1>5. printed \in [Execs \cup {None} -> Nat] /\ whole \in [Execs \cup {None} -> Nat]
  BY DEF Init
<1>6. inp \in Seq(Inputs) /\ out \in Seq(Lines) /\ buffer \in Seq(Lines)
  BY DEF Init
<1>7. \A i \in 1..Len(inp) : Written(inp[i])
  BY DEF Init
<1>8. /\ phase = "none" /\ shell = "off" /\ closing = FALSE
      /\ closer \in [Closers -> {"idle", "waiting", "done", "raised"}]
  BY DEF Init
<1>9. QED BY <1>1, <1>2, <1>3, <1>4, <1>5, <1>6, <1>7, <1>8 DEF TypeInv, TypeOK

\* Type correctness of a session, its streams and its calls.
THEOREM TypeCorrect == Spec => []TypeOK
<1>1. TypeInv => TypeOK
  BY DEF TypeInv
<1>2. QED BY <1>1, InitType, TypeStep, PTL DEF Spec

-----------------------------------------------------------------------------
(* Closing.  That a close was waiting says the session has been listed,    *)
(* and that it is removed says one of them won: together they are          *)
(* inductive.                                                              *)

Won(k) == closer[k] = "done" /\ \A j \in Closers : closer[j] = "done" => j = k

CloseInv ==
  /\ closer \in [Closers -> {"idle", "waiting", "done", "raised"}]
  /\ (\E k \in Closers : closer[k] # "idle") => phase \in {"listed", "removed"}
  /\ (\E k \in Closers : closer[k] = "raised") => phase = "removed"
  /\ IF phase = "removed" THEN \E k \in Closers : Won(k)
     ELSE \A k \in Closers : closer[k] # "done"
  /\ phase = "removed" => shell = "gone" \/ closing = TRUE

\* Deleting the entry keeps the account of who won.
LEMMA UnlistStep ==
  ASSUME CloseInv, NEW k \in Closers, closer[k] \in {"idle", "waiting"}, Unlist(k),
         phase \in {"listed", "removed"}, shell' = "gone" \/ closing' = TRUE
  PROVE  CloseInv'
<1> USE DEF CloseInv, Unlist
<1>1. CASE phase = "listed"
  <2>1. Won(k)'
    BY <1>1 DEF Won
  <2>2. QED BY <1>1, <2>1
<1>2. CASE phase = "removed"
  <2>1. PICK j \in Closers : Won(j)
    BY <1>2
  <2>2. j # k /\ Won(j)'
    BY <1>2, <2>1 DEF Won
  <2>3. QED BY <1>2, <2>2
<1>3. QED BY <1>1, <1>2

\* Every step keeps the account.
LEMMA CloseStep == CloseInv /\ [Next]_vars => CloseInv'
<1> SUFFICES ASSUME CloseInv, [Next]_vars PROVE CloseInv'
  OBVIOUS
<1>1. ASSUME UNCHANGED closer, phase' = phase \/ (phase \notin {"listed", "removed"} /\ phase' # "removed"),
             shell = "gone" => shell' = "gone", closing = TRUE => closing' = TRUE
      PROVE  CloseInv'
  BY <1>1 DEF CloseInv, Won
<1>2. CASE Create \/ CreateFails \/ DrainRead \/ DrainDone \/ DrainTimeout \/ DrainRaises
  <2>1. phase = "none" \/ phase = "draining"
    BY <1>2 DEF Create, CreateFails, DrainRead, DrainDone, DrainTimeout, DrainRaises
  <2>2. UNCHANGED closer /\ phase' # "removed"
    BY <1>2 DEF Create, CreateFails, DrainRead, DrainDone, DrainTimeout, DrainRaises
  <2>3. QED BY <2>1, <2>2 DEF CloseInv, Won
<1>3. CASE ReadLine \/ PrintText \/ Finish \/ Die \/ Hangup
  BY <1>1, <1>3 DEF ReadLine, PrintText, Finish, Die, Hangup, Kill
<1>4. ASSUME NEW e \in Execs, StartExec(e) \/ ReadChunk(e) \/ ExecTimeout(e) \/ ExecRaises(e)
      PROVE  CloseInv'
  BY <1>1, <1>4 DEF StartExec, ReadChunk, ExecTimeout, ExecRaises, remote
<1>5. CASE SetEnv \/ UNCHANGED vars
  BY <1>1, <1>5 DEF SetEnv, remote, vars
<1>6. ASSUME NEW k \in Closers, Close(k) PROVE CloseInv'
  <2>1. CASE UNCHANGED phase /\ closer' = [closer EXCEPT ![k] = "waiting"]
    BY <1>6, <2>1 DEF Close, Found, CloseInv, Won, remote
  <2>2. CASE shell = "gone" /\ Unlist(k)
    BY <1>6, <2>2, UnlistStep DEF Close, Found, remote
  <2>3. QED BY <1>6, <2>1, <2>2 DEF Close
<1>7. ASSUME NEW k \in Closers, CloseExited(k) \/ CloseTimeout(k) PROVE CloseInv'
  <2>1. closer[k] = "waiting" /\ Unlist(k) /\ (shell' = "gone" \/ closing' = TRUE)
    BY <1>7 DEF CloseExited, CloseTimeout, remote
  <2>2. phase \in {"listed", "removed"}
    BY <2>1 DEF CloseInv
  <2>3. QED BY <2>1, <2>2, UnlistStep
<1>8. QED BY <1>2, <1>3, <1>4, <1>5, <1>6, <1>7 DEF Next

\* The account holds in every reachable state.
LEMMA CloseInvariant == Spec => []CloseInv
<1>1. Init => CloseInv
  BY DEF Init, CloseInv, Won
<1>2. QED BY <1>1, CloseStep, PTL DEF Spec

\* However many calls close a session at once, exactly one of them removes it.
THEOREM OneCloseWinsHolds == Spec => []OneCloseWins
<1>1. CloseInv => OneCloseWins
  <2> SUFFICES ASSUME CloseInv PROVE OneCloseWins
    OBVIOUS
  <2> DEFINE winners == {k \in Closers : closer[k] = "done"}
  <2>1. CASE phase = "removed"
    <3>1. PICK k \in Closers : Won(k)
      BY <2>1 DEF CloseInv
    <3>2. winners = {k}
      BY <3>1 DEF Won
    <3>3. Cardinality(winners) = 1
      BY <3>2, FS_Singleton
    <3>4. QED BY <2>1, <3>3 DEF OneCloseWins
  <2>2. CASE phase # "removed"
    <3>1. winners = {}
      BY <2>2 DEF CloseInv
    <3>2. Cardinality(winners) = 0
      BY <3>1, FS_EmptySet
    <3>3. QED BY <2>2, <3>2 DEF OneCloseWins, CloseInv
  <2>3. QED BY <2>1, <2>2
<1>2. QED BY <1>1, CloseInvariant, PTL

\* A session that was removed has no shell left that runs and was not asked to end.
THEOREM RemovedIsEndingHolds == Spec => []RemovedIsEnding
<1>1. CloseInv => RemovedIsEnding
  BY DEF CloseInv, RemovedIsEnding
<1>2. QED BY <1>1, CloseInvariant, PTL

-----------------------------------------------------------------------------
(* What the drain of a new session keeps.                                  *)

\* Row s is made of pieces that bash has printed at its start, from piece n + 1 on.
Newest(s, n) ==
  \A i \in 1..Len(s) : s[i].kind = "out" /\ s[i].by = None /\ s[i].n = n + i

\* Buffer b and stream o are the newest text that bash has printed at its start.
NewestPrinted(b, o) ==
  /\ Newest(b, printed[None] - Len(b) - Len(o))
  /\ Newest(o, printed[None] - Len(o))
  /\ printed[None] > Len(b) + Len(o) => LinesFrom(b, 1) = BufferLines

\* Until the session is listed nobody has written to it.
EarlyInv ==
  phase \in {"none", "draining"} =>
    /\ inp = <<>> /\ running = NoInput /\ shell \in {"off", "boot", "prompt", "gone"}
    /\ \A e \in Execs : exec[e].st = "idle"
    /\ \A k \in Closers : closer[k] = "idle"
    /\ NewestPrinted(buffer, out)
    /\ phase = "none" => shell = "off"

\* Rows of the newest text, one behind the other, parts of them, and with lines ended.
LEMMA NewestRows ==
  ASSUME NEW x \in Seq(Lines), NEW y \in Seq(Lines), NEW m \in Int,
         Newest(x, m), Newest(y, m + Len(x))
  PROVE  Newest(x \o y, m)
<1> SUFFICES ASSUME NEW i \in 1..Len(x \o y)
             PROVE  /\ (x \o y)[i].kind = "out" /\ (x \o y)[i].by = None
                    /\ (x \o y)[i].n = m + i
  BY DEF Newest
<1>1. CASE i \in 1..Len(x)
  <2>1. (x \o y)[i] = x[i] BY <1>1
  <2>2. QED BY <1>1, <2>1 DEF Newest
<1>2. CASE i - Len(x) \in 1..Len(y)
  <2>1. (x \o y)[i] = y[i - Len(x)] BY <1>2
  <2>2. y[i - Len(x)].n = (m + Len(x)) + (i - Len(x)) BY <1>2 DEF Newest
  <2>3. (m + Len(x)) + (i - Len(x)) = m + i OBVIOUS
  <2>4. QED BY <1>2, <2>1, <2>2, <2>3 DEF Newest
<1>3. QED BY <1>1, <1>2

LEMMA NewestPart ==
  ASSUME NEW x \in Seq(Lines), NEW m \in Int, Newest(x, m), NEW k \in 1..Len(x) + 1,
         NEW n \in 0..Len(x)
  PROVE  /\ SubSeq(x, 1, n) \in Seq(Lines) /\ Len(SubSeq(x, 1, n)) = n
         /\ Newest(SubSeq(x, 1, n), m)
         /\ SubSeq(x, k, Len(x)) \in Seq(Lines) /\ Len(SubSeq(x, k, Len(x))) = Len(x) - k + 1
         /\ Newest(SubSeq(x, k, Len(x)), m + k - 1)
<1>1. SubSeq(x, 1, n) \in Seq(Lines) /\ Len(SubSeq(x, 1, n)) = n BY SubSeqType
<1>2. SubSeq(x, k, Len(x)) \in Seq(Lines) /\ Len(SubSeq(x, k, Len(x))) = Len(x) - k + 1
  BY SubSeqType
<1>3. \A i \in 1..n : SubSeq(x, 1, n)[i] = x[i] OBVIOUS
<1>4. Newest(SubSeq(x, 1, n), m) BY <1>1, <1>3 DEF Newest
<1>5. ASSUME NEW i \in 1..Len(x) - k + 1
      PROVE  /\ SubSeq(x, k, Len(x))[i] = x[k + i - 1] /\ k + i - 1 \in 1..Len(x)
             /\ m + (k + i - 1) = m + k - 1 + i
  OBVIOUS
<1>6. Newest(SubSeq(x, k, Len(x)), m + k - 1)
  <2> SUFFICES ASSUME NEW i \in 1..Len(x) - k + 1
               PROVE  LET z == SubSeq(x, k, Len(x))[i] IN
                      z.kind = "out" /\ z.by = None /\ z.n = m + k - 1 + i
    BY <1>2 DEF Newest
  <2>1. x[k + i - 1].n = m + (k + i - 1) BY <1>5 DEF Newest
  <2>2. QED BY <1>5, <2>1 DEF Newest
<1>7. QED BY <1>1, <1>2, <1>4, <1>6

LEMMA NewestAlike ==
  ASSUME NEW x \in Seq(Lines), NEW y \in Seq(Lines), NEW m \in Int, Newest(x, m), Alike(x, y)
  PROVE  Newest(y, m)
  BY DEF Newest, Alike

\* A text has no fewer lines than its beginning.
LEMMA LinesGrow ==
  ASSUME NEW x \in Seq(Lines), NEW y \in Seq(Lines)
  PROVE  LinesFrom(x, 1) <= LinesFrom(x \o y, 1)
<1> DEFINE S == {i \in 1..Len(x) : x[i].eol}
           T == {i \in 1..Len(x \o y) : (x \o y)[i].eol}
<1>1. x \o y \in Seq(Lines) /\ Len(x \o y) = Len(x) + Len(y)
      /\ \A i \in 1..Len(x) : (x \o y)[i] = x[i]
  OBVIOUS
<1>2. S \in SUBSET T BY <1>1
<1>3. IsFiniteSet(T) BY <1>1, LinesFromType
<1> HIDE DEF S, T
<1>4. Cardinality(S) <= Cardinality(T) BY <1>2, <1>3, FS_Subset
<1>5. QED BY <1>4 DEF LinesFrom, S, T

\* It has one line more at most than what follows its first piece.
LEMMA LinesLess ==
  ASSUME NEW x \in Seq(Lines), NEW k \in Nat, k > 1
  PROVE  LinesFrom(x, k - 1) <= LinesFrom(x, k) + 1
<1> DEFINE S == {i \in k - 1..Len(x) : x[i].eol}
           T == {i \in k..Len(x) : x[i].eol}
<1>1. S \in SUBSET (T \cup {k - 1}) OBVIOUS
<1>2. IsFiniteSet(T) /\ Cardinality(T) \in Nat BY LinesFromType DEF LinesFrom
<1>3. IsFiniteSet(S) /\ Cardinality(S) \in Nat
  <2>1. k - 1 \in Nat OBVIOUS
  <2>2. QED BY <2>1, LinesFromType DEF LinesFrom
<1>4. k - 1 \notin T OBVIOUS
<1> HIDE DEF S, T
<1>5. /\ IsFiniteSet(T \cup {k - 1})
      /\ Cardinality(T \cup {k - 1}) = Cardinality(T) + 1
  BY <1>2, <1>4, FS_AddElement
<1>6. Cardinality(S) <= Cardinality(T \cup {k - 1}) BY <1>1, <1>5, FS_Subset
<1>7. Cardinality(S) <= Cardinality(T) + 1 BY <1>5, <1>6
<1>8. QED BY <1>7 DEF LinesFrom, S, T

\* One row behind the other is as long as both.
LEMMA BothLen ==
  ASSUME NEW x \in Seq(Lines), NEW y \in Seq(Lines)
  PROVE  Len(x \o y) = Len(x) + Len(y)
  OBVIOUS

\* A read moves text from the stream to the buffer, which drops its oldest lines.
LEMMA DrainMoves ==
  ASSUME TypeOK, NewestPrinted(buffer, out), NEW n \in 1..Len(out),
         NEW all \in Seq(Lines), all = buffer \o Ended(SubSeq(out, 1, n)),
         NEW k \in 1..Len(all) + 1, KeptFrom(all, k),
         buffer' = SubSeq(all, k, Len(all)),
         out' = SubSeq(out, n + 1, Len(out)), printed' = printed
  PROVE  NewestPrinted(buffer, out)'
<1> DEFINE p == printed[None]
           part == SubSeq(out, 1, n)
           text == Ended(part)
           m == p - Len(buffer) - Len(out)
<1>1. /\ buffer \in Seq(Lines) /\ out \in Seq(Lines) /\ p \in Nat /\ n \in Nat
      /\ Len(buffer) \in Nat /\ Len(out) \in Nat /\ n <= Len(out)
      /\ BufferLines \in Nat \ {0} /\ m \in Int
  BY BoundsAssumption DEF TypeOK
<1>2. Newest(buffer, m) /\ Newest(out, p - Len(out)) BY DEF NewestPrinted
<1>3. /\ part \in Seq(Lines) /\ Len(part) = n /\ Newest(part, p - Len(out))
      /\ out' \in Seq(Lines) /\ Len(out') = Len(out) - n
      /\ Newest(out', p - Len(out) + n)
  <2>1. n + 1 \in 1..Len(out) + 1 /\ n \in 0..Len(out) /\ p - Len(out) \in Int BY <1>1
  <2>2. /\ part \in Seq(Lines) /\ Len(part) = n /\ Newest(part, p - Len(out))
        /\ out' \in Seq(Lines) /\ Len(out') = Len(out) - (n + 1) + 1
        /\ Newest(out', p - Len(out) + (n + 1) - 1)
    BY <1>1, <1>2, <2>1, NewestPart
  <2>3. Len(out) - (n + 1) + 1 = Len(out) - n /\ p - Len(out) + (n + 1) - 1 = p - Len(out) + n
    BY <1>1
  <2>4. QED BY <2>2, <2>3
<1> HIDE DEF part
<1>4. text \in Seq(Lines) /\ Len(text) = n /\ Newest(text, p - Len(out))
  <2>1. text \in Seq(Lines) /\ Alike(part, text) BY <1>3, EndedAlike
  <2>2. p - Len(out) \in Int BY <1>1
  <2>3. Newest(text, p - Len(out)) BY <1>3, <2>1, <2>2, NewestAlike
  <2>4. QED BY <1>3, <2>1, <2>3 DEF Alike
<1> HIDE DEF text
<1>5. all = buffer \o text BY DEF text, part
<1>6. Len(all) = Len(buffer) + n /\ Newest(all, m)
  <2>1. Len(all) = Len(buffer) + n
    <3>1. Len(buffer \o text) = Len(buffer) + Len(text) BY ONLY <1>1, <1>4, BothLen
    <3>2. QED BY ONLY <1>4, <1>5, <3>1
  <2>2. m + Len(buffer) = p - Len(out) BY <1>1
  <2> HIDE DEF m, p
  <2>3. Newest(all, m) BY <1>1, <1>2, <1>4, <1>5, <2>2, NewestRows
  <2>4. QED BY <2>1, <2>3
<1>7. /\ buffer' \in Seq(Lines) /\ Len(buffer') = Len(all) - k + 1
      /\ Newest(buffer', m + k - 1)
  <2>1. 0 \in 0..Len(all) OBVIOUS
  <2> HIDE DEF m
  <2>2. QED BY <1>1, <1>6, <2>1, NewestPart
<1>8. p - Len(buffer') - Len(out') = m + k - 1 /\ p - Len(out') = p - Len(out) + n
  <2>1. /\ Len(buffer') = Len(buffer) + n - k + 1 /\ Len(out') = Len(out) - n
        /\ k \in Int
    BY ONLY <1>1, <1>3, <1>6, <1>7, k \in 1..Len(all) + 1, Len(all) = Len(buffer) + n
  <2> HIDE DEF p
  <2>2. QED BY ONLY <1>1, <2>1 DEF m
<1>9. p > Len(buffer') + Len(out') => LinesFrom(buffer', 1) = BufferLines
  <2>1. LinesFrom(buffer', 1) = LinesFrom(all, k) BY LinesKept
  <2>2. LinesFrom(all, k) \in Nat /\ LinesFrom(all, 1) \in Nat /\ LinesFrom(buffer, 1) \in Nat
    <3>1. 1 \in Nat /\ k \in Nat OBVIOUS
    <3>2. QED BY <1>1, <3>1, LinesFromType
  <2>3. LinesFrom(all, k) <= BufferLines BY DEF KeptFrom
  <2>4. CASE k = 1
    <3>1. p > Len(buffer') + Len(out') => p > Len(buffer) + Len(out)
      <4> HIDE DEF p
      <4>1. QED BY ONLY <1>1, <1>3, <1>6, <1>7, <2>4
    <3>2. p > Len(buffer) + Len(out) => LinesFrom(buffer, 1) = BufferLines BY DEF NewestPrinted
    <3>3. LinesFrom(buffer, 1) <= LinesFrom(all, 1)
      <4>1. QED BY <1>1, <1>4, <1>5, LinesGrow
    <3>4. QED BY <1>1, <2>1, <2>2, <2>3, <2>4, <3>1, <3>2, <3>3
  <2>5. CASE k > 1
    <3>1. LinesFrom(all, k - 1) > BufferLines BY <2>5 DEF KeptFrom
    <3>2. LinesFrom(all, k - 1) <= LinesFrom(all, k) + 1
      <4>1. k \in Nat BY <2>5
      <4>2. QED BY <2>5, <4>1, LinesLess
    <3>3. LinesFrom(all, k - 1) \in Nat
      <4>1. k - 1 \in Nat BY <2>5
      <4>2. QED BY <4>1, LinesFromType
    <3>4. QED BY <1>1, <2>1, <2>2, <2>3, <3>1, <3>2, <3>3
  <2>6. QED BY <2>4, <2>5
<1> HIDE DEF m
<1>10. QED BY <1>3, <1>7, <1>8, <1>9 DEF NewestPrinted

\* A piece that is printed is the newest.
LEMMA PrintIsNewest ==
  ASSUME TypeOK, NewestPrinted(buffer, out), running = NoInput, PrintText
  PROVE  NewestPrinted(buffer, out)'
<1> DEFINE p == printed[None]
<1>1. /\ out \in Seq(Lines) /\ p \in Nat /\ Len(buffer) \in Nat /\ Len(out) \in Nat
  BY DEF TypeOK
<1>2. PICK eol \in BOOLEAN : out' = Append(out, Out(None, p + 1, eol))
  BY DEF PrintText, NoInput, Input
<1>3. printed'[None] = p + 1 /\ buffer' = buffer
  BY DEF PrintText, NoInput, Input, TypeOK
<1>4. /\ Len(out') = Len(out) + 1
      /\ out'[Len(out) + 1] = Out(None, p + 1, eol)
      /\ \A i \in 1..Len(out) : out'[i] = out[i]
  BY <1>1, <1>2
<1>5. p + 1 - Len(out') = p - Len(out) BY <1>1, <1>4
<1>6. Newest(out', p - Len(out))
  <2> SUFFICES ASSUME NEW i \in 1..Len(out')
               PROVE  out'[i].kind = "out" /\ out'[i].by = None /\ out'[i].n = p - Len(out) + i
    BY DEF Newest
  <2>1. CASE i \in 1..Len(out) BY <1>4, <2>1 DEF NewestPrinted, Newest
  <2>2. CASE i = Len(out) + 1
    <3>1. p - Len(out) + i = p + 1 BY <1>1, <2>2
    <3>2. QED BY <1>4, <2>2, <3>1 DEF Out
  <2>3. QED BY <1>1, <1>4, <2>1, <2>2
<1>7. p + 1 - Len(buffer') - Len(out') = p - Len(buffer) - Len(out) BY <1>1, <1>3, <1>4
<1>8. p + 1 > Len(buffer') + Len(out') => p > Len(buffer) + Len(out) BY <1>1, <1>3, <1>4
<1>9. QED
  <2>1. Newest(buffer', printed'[None] - Len(buffer') - Len(out'))
    <3>1. Newest(buffer, p - Len(buffer) - Len(out)) BY DEF NewestPrinted
    <3>2. Newest(buffer', p + 1 - Len(buffer') - Len(out'))
      BY ONLY <1>3, <1>7, <3>1, Zenon
    <3>3. printed'[None] - Len(buffer') - Len(out') = p + 1 - Len(buffer') - Len(out')
      BY ONLY <1>1, <1>3, <1>4
    <3>4. QED BY ONLY <3>2, <3>3, Zenon
  <2>2. Newest(out', printed'[None] - Len(out'))
    <3>1. Newest(out', p + 1 - Len(out')) BY ONLY <1>5, <1>6, Zenon
    <3>2. printed'[None] - Len(out') = p + 1 - Len(out') BY ONLY <1>1, <1>3, <1>4
    <3>3. QED BY ONLY <3>1, <3>2, Zenon
  <2>3. printed'[None] > Len(buffer') + Len(out') => LinesFrom(buffer', 1) = BufferLines
    BY <1>3, <1>8 DEF NewestPrinted
  <2>4. QED BY ONLY <2>1, <2>2, <2>3 DEF NewestPrinted

\* Every step keeps it.
LEMMA EarlyStep == TypeOK /\ EarlyInv /\ [Next]_vars => EarlyInv'
<1> SUFFICES ASSUME TypeOK, EarlyInv, [Next]_vars, phase' \in {"none", "draining"}
             PROVE  EarlyInv'
  BY DEF EarlyInv
<1> USE DEF remote
<1>1. phase \in {"none", "draining"}
  BY Zenon DEF Next, vars, Create, CreateFails, DrainRead, DrainDone, DrainTimeout, DrainRaises,
         ReadLine, PrintText, Finish, Die, Hangup, StartExec, ReadChunk, ExecTimeout, ExecRaises,
         SetEnv, Close, CloseExited, CloseTimeout, Unlist, Found
<1>2. /\ inp = <<>> /\ running = NoInput /\ shell \in {"off", "boot", "prompt", "gone"}
      /\ \A e \in Execs : exec[e].st = "idle"
      /\ \A k \in Closers : closer[k] = "idle"
      /\ NewestPrinted(buffer, out)
      /\ phase = "none" => shell = "off"
  BY <1>1 DEF EarlyInv
<1>3. CASE DrainRead
  <2>1. PICK n \in 1..Len(out) :
          /\ \E k \in 1..Len(buffer \o Ended(SubSeq(out, 1, n))) + 1 :
               /\ KeptFrom(buffer \o Ended(SubSeq(out, 1, n)), k)
               /\ buffer' = SubSeq(buffer \o Ended(SubSeq(out, 1, n)), k,
                                   Len(buffer \o Ended(SubSeq(out, 1, n))))
          /\ out' = SubSeq(out, n + 1, Len(out))
    BY <1>3 DEF DrainRead
  <2> DEFINE all == buffer \o Ended(SubSeq(out, 1, n))
  <2>2. all \in Seq(Lines)
    <3>1. SubSeq(out, 1, n) \in Seq(Lines) BY SubSeqType DEF TypeOK
    <3>2. Ended(SubSeq(out, 1, n)) \in Seq(Lines) BY <3>1, EndedAlike
    <3>3. buffer \in Seq(Lines) BY DEF TypeOK
    <3>4. QED BY ONLY <3>2, <3>3
  <2>3. PICK k \in 1..Len(all) + 1 : KeptFrom(all, k) /\ buffer' = SubSeq(all, k, Len(all))
    BY <2>1
  <2>4. all = buffer \o Ended(SubSeq(out, 1, n)) /\ UNCHANGED printed
    BY <1>3 DEF DrainRead
  <2> HIDE DEF all
  <2>5. NewestPrinted(buffer, out)' BY <1>2, <2>1, <2>2, <2>3, <2>4, DrainMoves
  <2>6. QED BY <1>2, <1>3, <2>5 DEF DrainRead, EarlyInv
<1>4. CASE PrintText
  <2>1. NewestPrinted(buffer, out)' BY <1>2, <1>4, PrintIsNewest
  <2>2. QED BY <1>2, <1>4, <2>1 DEF PrintText, EarlyInv
<1>5. CASE Create \/ Finish \/ Die \/ Hangup \/ UNCHANGED vars
  <2>1. UNCHANGED <<out, buffer, printed, exec, closer>> /\ inp' = <<>> /\ running' = NoInput
    BY <1>2, <1>5 DEF Create, Finish, Die, Hangup, Kill, vars, NoInput, Input
  <2>2. NewestPrinted(buffer, out)' BY <1>2, <2>1 DEF NewestPrinted
  <2>3. shell' \in {"off", "boot", "prompt", "gone"} /\ (phase' = "none" => shell' = "off")
    BY <1>2, <1>5 DEF Create, Finish, Die, Hangup, Kill, vars
  <2>4. QED BY <1>2, <2>1, <2>2, <2>3 DEF EarlyInv
<1>6. CASE CreateFails \/ DrainDone \/ DrainTimeout \/ DrainRaises
  BY <1>6 DEF CreateFails, DrainDone, DrainTimeout, DrainRaises
<1>7. ~ReadLine BY <1>2 DEF ReadLine
<1>8. ~SetEnv /\ \A e \in Execs : ~StartExec(e) /\ ~ReadChunk(e) /\ ~ExecTimeout(e) /\ ~ExecRaises(e)
  BY <1>1, <1>2 DEF SetEnv, StartExec, Found, ReadChunk, ExecTimeout, ExecRaises
<1>9. \A k \in Closers : ~Close(k) /\ ~CloseExited(k) /\ ~CloseTimeout(k)
  BY <1>1, <1>2 DEF Close, Found, CloseExited, CloseTimeout
<1>10. QED BY <1>3, <1>4, <1>5, <1>6, <1>7, <1>8, <1>9 DEF Next

\* What create_session drains is kept from the newest text back, for any length of
\* the buffer and whatever the reads return.
THEOREM BufferIsTailHolds == Spec => []BufferIsTail
<1>1. Init => EarlyInv
  BY BoundsAssumption DEF Init, EarlyInv, NewestPrinted, Newest
<1>2. ASSUME TypeOK, EarlyInv, phase = "draining" PROVE BufferIsTail
  <2> DEFINE kept == buffer \o out
             first == printed[None] - Len(kept)
  <2>1. /\ buffer \in Seq(Lines) /\ out \in Seq(Lines) /\ printed[None] \in Nat
        /\ kept \in Seq(Lines) /\ Len(kept) = Len(buffer) + Len(out)
    BY <1>2 DEF TypeOK
  <2>2. NewestPrinted(buffer, out) BY <1>2 DEF EarlyInv
  <2>3. Newest(kept, first)
    <3>1. /\ first \in Int /\ first = printed[None] - Len(buffer) - Len(out)
          /\ first + Len(buffer) = printed[None] - Len(out)
      BY <2>1
    <3>2. Newest(buffer, first) /\ Newest(out, first + Len(buffer))
      BY <2>2, <3>1 DEF NewestPrinted
    <3> HIDE DEF first
    <3>3. QED BY <2>1, <3>1, <3>2, NewestRows
  <2>4. first > 0 => LinesFrom(buffer, 1) = BufferLines BY <2>1, <2>2 DEF NewestPrinted
  <2>5. QED BY <2>3, <2>4 DEF BufferIsTail, Newest
<1>3. TypeOK /\ EarlyInv => BufferIsTail BY <1>2 DEF BufferIsTail
<1>4. QED BY <1>1, <1>3, TypeCorrect, EarlyStep, PTL DEF Spec
===============================================================================
