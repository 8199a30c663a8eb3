----------------------------- MODULE MCSession -----------------------------
(***************************************************************************)
(* Two sessions of a four-node mint for TLC.  An item is the note that it  *)
(* spends, and is valid once.  The first session is cut by bytes, right    *)
(* after a delivery that a node rejects because of an earlier one; the     *)
(* second by rounds, with a note among its deliveries that the first has   *)
(* spent.                                                                  *)
(***************************************************************************)
EXTENDS Session

Note(i, r, k) == [item |-> i, round |-> r, size |-> k]

MCStream ==
  << <<Note("a", 0, 1), Note("a", 1, 1), Note("b", 1, 2), Note("c", 1, 1)>>,
     <<Note("b", 0, 1), Note("c", 1, 1), Note("d", 2, 1)>> >>

MCValid(history, d) == \A i \in DOMAIN history : history[i].item # d.item
=============================================================================
