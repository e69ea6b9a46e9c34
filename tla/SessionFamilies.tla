--------------------------- MODULE SessionFamilies ---------------------------
(***************************************************************************)
(* What refresh sessions promise to an application and its users: a family *)
(* of tokens begins with a credential nobody used before, goes on by       *)
(* replacing its one live token by a new one of the same user, and ends;   *)
(* a token that is dead stays dead.                                        *)
(***************************************************************************)
CONSTANT Tokens

VARIABLES
  live,      \* the tokens that work: whose, and of which family (named by its first token)
  issued,    \* the tokens that were ever handed out
  opened     \* the credentials that were spent, each with its user

fvars == <<live, issued, opened>>

\* A database may have sessions from before.
FInit ==
  /\ \A x \in live : x.token \in issued /\ x.family \in issued
  /\ \A x, y \in live : x.family = y.family => x = y

End == live' \subseteq live /\ UNCHANGED <<issued, opened>>

Rotate(t) ==
  /\ \E x \in live : live' = (live \ {x}) \cup {[x EXCEPT !.token = t]}
  /\ issued' = issued \cup {t}
  /\ UNCHANGED opened

\* uc is a user and a credential that was not spent before.
Open(t) ==
  /\ \E uc \in opened' \ opened :
       /\ opened' = opened \cup {uc}
       /\ live' = live \cup {[user |-> uc[1], family |-> t, token |-> t]}
  /\ issued' = issued \cup {t}

FNext == End \/ \E t \in Tokens \ issued : Rotate(t) \/ Open(t)

FSpec == FInit /\ [][FNext]_fvars
==============================================================================
