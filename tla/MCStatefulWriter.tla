-------------------------- MODULE MCStatefulWriter --------------------------
(***************************************************************************)
(* The QoS settings and the symmetry the runs of StatefulWriter use.       *)
(***************************************************************************)
EXTENDS StatefulWriter, TLC

Default == [keepAll |-> FALSE, depth |-> 0, maxSamples |-> 0, maxBytes |-> 0,
            lifespan |-> FALSE, transientLocal |-> FALSE]

KeepAll == [Default EXCEPT !.keepAll = TRUE]

KeepLast(n) == [Default EXCEPT !.depth = n]

Lasting(config) == [config EXCEPT !.lifespan = TRUE]

Durable(config) == [config EXCEPT !.transientLocal = TRUE]

\* Settings with which newChange never moves next, volatile and durable.
PushConfigs ==
  {Lasting(KeepAll), KeepLast(1), Durable(KeepAll), Durable(KeepLast(1))}

\* Settings with which it does: the default of overwriting a full history, and
\* KEEP_LAST with room for more than one change.
OverwriteConfigs == {Default, KeepLast(2)}

\* Every kind of history without a limit, with one in samples, with one in bytes.
LimitConfigs ==
  {[c EXCEPT !.maxSamples = limit[1], !.maxBytes = limit[2]] :
     c \in {Default, KeepAll, KeepLast(1), Lasting(KeepLast(2))},
     limit \in {<<0, 0>>, <<1, 0>>, <<0, 3>>}}

WriterConfigs == PushConfigs \cup LimitConfigs

NeverSeen(r) ==
  /\ \A i \in Slots : proxies[i].reader # r
  /\ sent[r] = {} /\ matchedAt[r] = 0
  /\ \A a \in announced : a.reader # r

\* Bound of a run: two readers with the settings the push keeps in step with, without
\* heartbeats; or one reader in one slot with limits, and heartbeats.
Focus ==
  \/ qos \in PushConfigs /\ hbTodo = {}
  \/ qos \notin PushConfigs /\ Cardinality(used) <= 1 /\ \E r \in Readers : NeverSeen(r)

LiveConfigs == {Lasting(KeepAll), KeepLast(1)}

Symmetry == Permutations(Readers)
=============================================================================
