----------------------------- MODULE AtomicStore -----------------------------
(***************************************************************************)
(* What nested transactions promise their user, with no lock and no log: a *)
(* transaction collects its own writes, reads through its ancestors to the *)
(* committed store, and when it ends its writes go to its parent (or, at   *)
(* the root, to the committed store) all together or not at all.  Children *)
(* that are still live when their parent commits may each join it or be    *)
(* dropped; one that joins brings the whole path between it and the parent.*)
(***************************************************************************)
EXTENDS Naturals

CONSTANTS MaxTxn, Key, Val, InitStore, NoImage

Txn == 1..MaxTxn

VARIABLES
    status,      \* of each transaction
    ancestors,   \* the path from its parent to the root
    work,        \* work[t][k]: what t wrote to k, NoImage if nothing
    committed    \* the committed store

vars == <<status, ancestors, work, committed>>

Init ==
    /\ status = [t \in Txn |-> "unused"]
    /\ ancestors = [t \in Txn |-> {}]
    /\ work = [t \in Txn |-> [k \in Key |-> NoImage]]
    /\ committed = InitStore

Running(t) == status[t] = "running"
Family(t) == {t} \cup {c \in Txn : Running(c) /\ t \in ancestors[c]}
IsParent(p, t) == ancestors[t] = {p} \cup ancestors[p]
Wrote(t, k) == work[t][k] # NoImage

\* Of the transactions in S that wrote k, h is the one farthest from the root.
Innermost(S, h, k) ==
    /\ Wrote(h, k)
    /\ \A g \in S : Wrote(g, k) => g = h \/ g \in ancestors[h]

\* What S makes of k, when it was `old' before S.
Result(S, k, old) ==
    IF \E h \in S : Innermost(S, h, k)
      THEN work[CHOOSE h \in S : Innermost(S, h, k)][k]
      ELSE old

\* What t reads.
View(t, k) == Result({t} \cup ancestors[t], k, committed[k])

Begin(t, p) ==
    /\ status[t] = "unused"
    /\ p \in Txn => Running(p)
    /\ status' = [status EXCEPT ![t] = "running"]
    /\ ancestors' = [ancestors EXCEPT ![t] =
                        IF p \in Txn THEN {p} \cup ancestors[p] ELSE {}]
    /\ UNCHANGED <<work, committed>>

\* Nobody writes what a transaction that is not an ancestor has written.
Write(t, k, v) ==
    /\ Running(t)
    /\ \A u \in Txn : Wrote(u, k) => u = t \/ u \in ancestors[t]
    /\ work' = [work EXCEPT ![t][k] = v]
    /\ UNCHANGED <<status, ancestors, committed>>

End(t, kept) ==
    /\ Running(t)
    /\ kept # {} => t \in kept
    /\ \A c \in kept : \A d \in Family(t) : d \in ancestors[c] => d \in kept
    /\ status' = [u \in Txn |-> IF u \in kept THEN "committed"
                                ELSE IF u \in Family(t) THEN "aborted"
                                ELSE status[u]]
    /\ work' = [u \in Txn |-> [k \in Key |->
                  IF u \in Family(t) THEN NoImage
                  ELSE IF IsParent(u, t) THEN Result(kept, k, work[u][k])
                  ELSE work[u][k]]]
    /\ committed' = IF ancestors[t] = {}
                      THEN [k \in Key |-> Result(kept, k, committed[k])]
                      ELSE committed
    /\ UNCHANGED ancestors

Next ==
    \E t \in Txn : \/ \E p \in Txn \cup {0} : Begin(t, p)
                   \/ \E k \in Key, v \in Val : Write(t, k, v)
                   \/ \E kept \in SUBSET Family(t) : End(t, kept)

Spec == Init /\ [][Next]_vars
=============================================================================
