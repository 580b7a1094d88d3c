----------------------------- MODULE MCInodeKlock -----------------------------
(* Model-checking instance of InodeKlock: two clients on two metadata      *)
(* servers calling on one file.                                            *)
EXTENDS InodeKlock, TLC

CONSTANTS k1, k2, s1, s2

MCServerOf == (k1 :> s1 @@ k2 :> s2)

\* a forced truncate to 1, a chmod without force, extends to 1 and 2, link
\* and unlink
MCOps ==
  { [kind |-> "truncate", arg |-> 1, force |-> TRUE],
    [kind |-> "chmod", arg |-> 0, force |-> FALSE],
    [kind |-> "extend", arg |-> 1, force |-> FALSE],
    [kind |-> "extend", arg |-> 2, force |-> FALSE],
    [kind |-> "link", arg |-> 0, force |-> TRUE],
    [kind |-> "unlink", arg |-> 0, force |-> TRUE] }
=============================================================================
