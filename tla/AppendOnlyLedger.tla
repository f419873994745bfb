-------------------------- MODULE AppendOnlyLedger --------------------------
(***************************************************************************)
(* What the signing event ledger promises its callers, whatever the        *)
(* database does: entries are added one at a time, after every entry there *)
(* is, and never change; no event is entered twice; and only an entry that *)
(* is there is acknowledged.  An entry need not be acknowledged: the       *)
(* caller of a committed append may have been lost.                        *)
(*                                                                         *)
(* Places are numbers and may leave gaps (docs/adr/0004).                  *)
(***************************************************************************)
EXTENDS Naturals

VARIABLES
  entries,  \* the ledger: a set of records [at, content]
  acked     \* the entries whose caller was told so

Init ==
  /\ entries = {}
  /\ acked = {}

Enter(e) ==
  /\ entries' = entries \cup {e}
  /\ \A f \in entries : f.at < e.at /\ f.content # e.content
  /\ UNCHANGED acked

Acknowledge(e) ==
  /\ acked' = acked \cup {e}
  /\ UNCHANGED entries

Next ==
  \/ \E e \in entries' \ entries : Enter(e)
  \/ \E e \in entries \ acked : Acknowledge(e)

Spec == Init /\ [][Next]_<<entries, acked>>
=============================================================================
