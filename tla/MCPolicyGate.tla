----------------------------- MODULE MCPolicyGate -----------------------------
(* Small instances of PolicyGate for TLC.                                  *)
EXTENDS PolicyGate

CONSTANTS h1, h2, h3, ls, rm, df

\* h3 matches no pattern of the host allowlist.
MCHostAllowlist == {{h1}, {h1, h2}}
MCCommandBlocklist == {{rm}}

\* rm is both blocked and allowed, df is neither.
MCCommandAllowlist == {{ls}, {rm}}
===============================================================================
