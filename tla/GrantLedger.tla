----------------------------- MODULE GrantLedger -----------------------------
(***************************************************************************)
(* What the OAuth sidecar vault promises about a subscription grant, with  *)
(* no files, locks or processes in it: a ledger of one token pair per      *)
(* provider, on a chain whose refresh tokens may be used once.             *)
(*                                                                         *)
(* A pair is spent in two moves: first the ledger records the intent       *)
(* (Intend), then the refresh token leaves the machine (Present).  Only a  *)
(* renewed pair, or a new grant stored by the operator, takes the intent   *)
(* away.  Each move concerns one provider and leaves the others alone.     *)
(* AuthVault implements this ledger (see the instance at its end).         *)
(***************************************************************************)
EXTENDS Naturals

CONSTANTS Providers,  \* names the grants are stored under
          Pairs,      \* numbers of the token pairs the identity provider issues
          Siblings    \* those whose grant may be copied from another CLI's store

VARIABLES pair,       \* pair[q]: the token pair on record, 0 when there is none
          intent,     \* intent[q]: a refresh of that pair may be under way
          presented   \* pairs whose refresh token has left the machine

ledgerVars == <<pair, intent, presented>>

Init ==
    /\ pair = [q \in Providers |-> 0]
    /\ intent = [q \in Providers |-> FALSE]
    /\ presented = {}

(* A grant is stored.  Unless another CLI could also hold it, its refresh *)
(* token has never been presented.                                        *)
Store(q, n) ==
    /\ q \notin Siblings => n \notin presented
    /\ pair' = [pair EXCEPT ![q] = n]
    /\ intent' = [intent EXCEPT ![q] = FALSE]
    /\ UNCHANGED presented

(* The intent to refresh is recorded before anything is sent. *)
Intend(q) ==
    /\ pair[q] # 0
    /\ ~intent[q]
    /\ intent' = [intent EXCEPT ![q] = TRUE]
    /\ UNCHANGED <<pair, presented>>

(* The refresh token is sent: under a recorded intent, and once. *)
Present(q) ==
    /\ intent[q]
    /\ q \notin Siblings => pair[q] \notin presented
    /\ presented' = presented \cup {pair[q]}
    /\ UNCHANGED <<pair, intent>>

(* The exchange is committed: a pair nobody has presented replaces the old one. *)
Renew(q, n) ==
    /\ intent[q]
    /\ n \notin presented
    /\ pair' = [pair EXCEPT ![q] = n]
    /\ intent' = [intent EXCEPT ![q] = FALSE]
    /\ UNCHANGED presented

Next == \E q \in Providers :
            \/ Intend(q)
            \/ Present(q)
            \/ \E n \in Pairs : Store(q, n) \/ Renew(q, n)

Spec == Init /\ [][Next]_ledgerVars
=============================================================================
