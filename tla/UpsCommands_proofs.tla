------------------------- MODULE UpsCommands_proofs -------------------------
(***************************************************************************)
(* What UpsCommands guarantees for any number of shipments, trucks,        *)
(* commands, retries and deaths of the daemon.                             *)
(***************************************************************************)
EXTENDS UpsCommands, FiniteSetTheorems, TLAPS

\* The world only ever answers commands it received, so every answer finds
\* its row.
ArrivedRowsExist == arrived \subseteq Rows

\* Rows of the loaded batch stay PENDING until mark_sent: nobody else
\* changes a status while the daemon dispatches.
BatchIsPending ==
  /\ \A n \in batch : cmd[n].status = "pending"
  /\ batch # {} => pc \in {"dispatch", "marking"}

\* Between the send and mark_sent one transmission is not yet accounted for.
Unaccounted(n) == IF pc = "marking" /\ IsFirst(n, batch) THEN 1 ELSE 0

\* Every transmission is paid for by a recorded failure, a death of the
\* daemon, or the attempt whose answer is still open.
SendsAreCharged ==
  \A n \in Seqs :
    /\ cmd[n].status = "absent" => sends[n] = 0
    /\ cmd[n].status = "pending" =>
         sends[n] <= cmd[n].retries + crashes + Unaccounted(n)
    /\ cmd[n].status \in {"sent", "acked", "failed"} =>
         /\ sends[n] <= cmd[n].retries + 1 + crashes
         /\ sends[n] <= MaxRetries + 1 + crashes

\* Rows are stamped in the order in which they were inserted.
Stamped ==
  \A n \in Rows :
    /\ cmd[n].created <= Cardinality(Rows)
    /\ \A m \in Rows \ {n} : cmd[m].created # cmd[n].created

IInv ==
  /\ TypeOK
  /\ Stamped
  /\ ArrivedRowsExist
  /\ BatchIsPending
  /\ BudgetMatchesStatus
  /\ SendsAreCharged
  /\ AckSettles

-----------------------------------------------------------------------------

\* The table is finite.
LEMMA RowsAreFinite == IsFiniteSet(Rows) /\ Cardinality(Rows) \in Nat
<1>1. IsFiniteSet(Seqs)
  BY UpsCommandsAssumption, FS_Interval DEF Seqs
<1>2. IsFiniteSet(Rows)
  BY <1>1, FS_Subset DEF Rows
<1> QED  BY <1>2, FS_CardinalityType

\* A step that neither inserts nor stamps a row keeps the stamps.
LEMMA StampsKeep ==
  ASSUME Stamped,
         \A n \in Seqs : /\ cmd'[n].created = cmd[n].created
                         /\ cmd'[n].status = "absent" <=> cmd[n].status = "absent"
  PROVE  Stamped' /\ Rows' = Rows
<1>1. Rows' = Rows
  BY DEF Rows
<1>2. Cardinality(Rows)' = Cardinality(Rows)
  BY <1>1
<1>3. Rows \subseteq Seqs
  BY DEF Rows
<1> QED  BY <1>1, <1>2, <1>3 DEF Stamped

\* The oldest row of an unchanged batch stays the oldest.
LEMMA FirstStays ==
  ASSUME batch' = batch, \A n \in batch : cmd'[n].created = cmd[n].created
  PROVE  \A n : IsFirst(n, batch)' <=> IsFirst(n, batch)
  BY DEF IsFirst

\* At most one row is the oldest of the batch.
LEMMA OneIsFirst ==
  ASSUME IInv, NEW n \in Seqs, NEW m \in Seqs, IsFirst(n, batch), IsFirst(m, batch)
  PROVE  n = m
<1>1. n \in Rows /\ m \in Rows
  BY DEF IsFirst, IInv, BatchIsPending, Rows
<1>2. cmd[n].created \in Nat /\ cmd[m].created \in Nat
  BY DEF IInv, TypeOK, Row
<1>3. cmd[n].created <= cmd[m].created /\ cmd[m].created <= cmd[n].created
  BY DEF IsFirst
<1> QED  BY <1>1, <1>2, <1>3 DEF IInv, Stamped

\* A fresh table satisfies the inductive invariant.
LEMMA InitIInv == Init => IInv
<1> SUFFICES ASSUME Init PROVE IInv
  OBVIOUS
<1> USE UpsCommandsAssumption
<1>1. Rows = {}
  BY DEF Init, Rows, Absent
<1>2. Stamped
  BY <1>1 DEF Stamped
<1>3. TypeOK
  BY <1>1 DEF Init, TypeOK, Seqs, Row, Absent, Statuses, Phases, Held, Nothing
<1>4. ArrivedRowsExist /\ BatchIsPending
  BY DEF Init, ArrivedRowsExist, BatchIsPending
<1>5. BudgetMatchesStatus /\ SendsAreCharged /\ AckSettles
  BY DEF Init, BudgetMatchesStatus, SendsAreCharged, AckSettles, Absent, With,
         InFlight
<1> QED  BY <1>2, <1>3, <1>4, <1>5 DEF IInv

\* An INSERT under a number that is no row leaves every other row alone.
LEMMA InsertKeeps ==
  ASSUME IInv,
         NEW n \in Seqs \ Rows,
         NEW k \in Kinds, NEW s \in Shipments \cup {None},
         NEW t \in Trucks \cup {None},
         Insert(n, k, s, t),
         next' \in 1..(MaxSeq + 1), next <= next', n < next',
         held' \in [Holders -> Held],
         \A h \in Holders : held'[h] # Nothing =>
           /\ held'[h] = held[h] /\ held[h].seq # n,
         UNCHANGED <<pc, batch, arrived, crashes, sends, verdict>>
  PROVE  IInv'
<1> USE UpsCommandsAssumption DEF Seqs, Goto
<1> DEFINE row == [kind |-> k, shipment |-> s, truck |-> t, status |-> "pending",
                   created |-> Cardinality(Rows) + 1, retries |-> 0,
                   completed |-> FALSE]
<1>0. row \in Row /\ row.status = "pending" /\ row.retries = 0
      /\ row.created = Cardinality(Rows) + 1
  BY RowsAreFinite DEF Row, Statuses
<1>1. /\ cmd' \in [Seqs -> Row] /\ cmd'[n] = row
      /\ \A m \in Seqs : m # n => cmd'[m] = cmd[m]
      /\ cmd[n].status = "absent"
  <2>1. cmd \in [Seqs -> Row] /\ cmd' = [cmd EXCEPT ![n] = row]
    BY DEF Insert, IInv, TypeOK
  <2>2. cmd[n].status = "absent"
    BY DEF Rows
  <2> HIDE DEF row
  <2> QED  BY <1>0, <2>1, <2>2
<1> HIDE DEF row
<1>2. Rows' = Rows \cup {n} /\ n \notin Rows
  BY <1>0, <1>1 DEF Rows
<1>3. TypeOK'
  <2>1. \A m \in Rows' : m < next'
    BY <1>2 DEF IInv, TypeOK, Rows
  <2>2. \A h \in Holders : held'[h] # Nothing =>
          /\ held'[h].seq \in Seqs \ Rows' /\ held'[h].seq < next'
          /\ \A g \in Holders \ {h} : held'[g].seq # held'[h].seq
    <3> SUFFICES ASSUME NEW h \in Holders, held'[h] # Nothing
                 PROVE  /\ held'[h].seq \in Seqs \ Rows' /\ held'[h].seq < next'
                        /\ \A g \in Holders \ {h} : held'[g].seq # held'[h].seq
      OBVIOUS
    <3>1. /\ held'[h] = held[h] /\ held[h].seq # n
          /\ held[h].seq \in Seqs \ Rows /\ held[h].seq < next
          /\ \A g \in Holders \ {h} : held[g].seq # held[h].seq
      BY DEF IInv, TypeOK
    <3>2. ASSUME NEW g \in Holders \ {h} PROVE held'[g].seq # held'[h].seq
      <4>1. CASE held'[g] = Nothing
        BY <3>1, <4>1 DEF Nothing
      <4>2. CASE held'[g] # Nothing
        BY <3>1, <4>2
      <4> QED  BY <4>1, <4>2
    <3>3. next \in Int /\ next' \in Int
      BY DEF IInv, TypeOK
    <3> QED  BY <1>2, <3>1, <3>2, <3>3
  <2> QED  BY <1>1, <2>1, <2>2 DEF IInv, TypeOK
<1>4. Stamped'
  <2>1. Cardinality(Rows') = Cardinality(Rows) + 1
    BY <1>2, RowsAreFinite, FS_AddElement
  <2>2. Cardinality(Rows)' = Cardinality(Rows) + 1 /\ Cardinality(Rows) \in Nat
    BY <2>1, RowsAreFinite
  <2>3. \A m \in Rows : /\ cmd'[m].created = cmd[m].created
                        /\ cmd[m].created \in Nat
                        /\ cmd[m].created <= Cardinality(Rows)
    BY <1>1, <1>2 DEF IInv, Stamped, TypeOK, Rows, Row
  <2>4. cmd'[n].created = Cardinality(Rows) + 1
    BY <1>0, <1>1
  <2> SUFFICES ASSUME NEW m \in Rows'
               PROVE  /\ cmd'[m].created <= Cardinality(Rows)'
                      /\ \A l \in Rows' \ {m} : cmd'[l].created # cmd'[m].created
    BY DEF Stamped
  <2>5. cmd'[m].created <= Cardinality(Rows)'
    BY <1>2, <2>2, <2>3, <2>4
  <2>6. ASSUME NEW l \in Rows' \ {m} PROVE cmd'[l].created # cmd'[m].created
    <3>1. CASE l = n \/ m = n
      BY <1>2, <2>2, <2>3, <2>4, <3>1
    <3>2. CASE l # n /\ m # n
      BY <1>2, <2>3, <3>2 DEF IInv, Stamped
    <3> QED  BY <3>1, <3>2
  <2> QED  BY <2>5, <2>6
<1>5. ArrivedRowsExist'
  BY <1>2 DEF IInv, ArrivedRowsExist
<1>6. BatchIsPending'
  BY <1>0, <1>1 DEF IInv, TypeOK, BatchIsPending
<1>7. BudgetMatchesStatus'
  BY <1>0, <1>1 DEF IInv, TypeOK, BudgetMatchesStatus, InFlight, With
<1>8. \A m \in Seqs : Unaccounted(m)' = Unaccounted(m) /\ Unaccounted(m) \in {0, 1}
  <2>1. \A m \in batch : cmd'[m].created = cmd[m].created
    BY <1>1 DEF IInv, TypeOK, BatchIsPending
  <2> QED  BY <2>1, FirstStays DEF Unaccounted
<1>9. SendsAreCharged'
  <2> SUFFICES ASSUME NEW m \in Seqs
               PROVE  SendsAreCharged!(m)'
    BY DEF SendsAreCharged
  <2>1. CASE m = n
    <3>1. sends'[n] = 0 /\ crashes' \in Nat /\ Unaccounted(n)' \in {0, 1}
      BY <1>1, <1>8 DEF IInv, TypeOK, SendsAreCharged
    <3>2. cmd'[n].status = "pending" /\ cmd'[n].retries = 0
      BY <1>0, <1>1
    <3> QED  BY <2>1, <3>1, <3>2
  <2>2. CASE m # n
    BY <1>1, <1>8, <2>2 DEF IInv, TypeOK, SendsAreCharged
  <2> QED  BY <2>1, <2>2
<1>10. AckSettles'
  BY <1>1 DEF IInv, TypeOK, AckSettles
<1> QED  BY <1>3, <1>4, <1>5, <1>6, <1>7, <1>9, <1>10 DEF IInv

\* What a thread holds says nothing about the rows.
LEMMA HeldKeeps ==
  ASSUME IInv, TypeOK', UNCHANGED <<cmd, pc, batch, arrived, crashes, sends, verdict>>
  PROVE  IInv'
<1>1. Stamped' /\ Rows' = Rows
  BY StampsKeep DEF IInv
<1>2. ArrivedRowsExist' /\ BatchIsPending' /\ BudgetMatchesStatus' /\ AckSettles'
  BY <1>1 DEF IInv, ArrivedRowsExist, BatchIsPending, BudgetMatchesStatus,
              AckSettles, InFlight, With
<1>3. \A n \in Seqs : Unaccounted(n)' = Unaccounted(n)
  BY FirstStays DEF Unaccounted
<1>4. SendsAreCharged'
  BY <1>3 DEF IInv, SendsAreCharged
<1> QED  BY <1>1, <1>2, <1>4 DEF IInv

\* What is held stays apart from the rows when processes die.
LEMMA DropKeeps ==
  ASSUME IInv, UNCHANGED <<cmd, next>>, held' \in [Holders -> Held],
         \A h \in Holders : held'[h] \in {held[h], Nothing}
  PROVE  \A h \in Holders : held'[h] # Nothing =>
           /\ held'[h].seq \in Seqs \ Rows' /\ held'[h].seq < next'
           /\ \A g \in Holders \ {h} : held'[g].seq # held'[h].seq
<1> SUFFICES ASSUME NEW h \in Holders, held'[h] # Nothing
             PROVE  /\ held'[h].seq \in Seqs \ Rows' /\ held'[h].seq < next'
                    /\ \A g \in Holders \ {h} : held'[g].seq # held'[h].seq
  OBVIOUS
<1>1. /\ held'[h] = held[h] /\ held[h].seq \in Seqs \ Rows /\ held[h].seq < next
      /\ \A g \in Holders \ {h} : held[g].seq # held[h].seq
  BY DEF IInv, TypeOK
<1>2. Rows' = Rows /\ next' = next
  BY DEF Rows
<1>3. Nothing.seq = 0 /\ 0 \notin Seqs
  BY UpsCommandsAssumption DEF Nothing, Seqs
<1>4. ASSUME NEW g \in Holders \ {h} PROVE held'[g].seq # held'[h].seq
  BY <1>1, <1>3
<1> QED  BY <1>1, <1>2, <1>4

\* next_sequence_number: a number nobody has goes to one holder.
LEMMA TakeKeeps ==
  ASSUME IInv,
         NEW h \in Holders, NEW k \in Kinds, NEW s \in Shipments \cup {None},
         NEW t \in Trucks \cup {None},
         TakeNumber(h, k, s, t),
         UNCHANGED <<cmd, pc, batch, arrived, crashes, sends, verdict>>
  PROVE  IInv'
<1> USE UpsCommandsAssumption
<1> DEFINE mine == [seq |-> next, kind |-> k, shipment |-> s, truck |-> t]
<1>1. /\ next \in 1..MaxSeq /\ next' = next + 1 /\ next' \in 1..(MaxSeq + 1)
      /\ held \in [Holders -> Held] /\ held' = [held EXCEPT ![h] = mine]
      /\ Rows' = Rows /\ next \notin Rows /\ 0 \notin Seqs
  BY DEF TakeNumber, IInv, TypeOK, Rows, Seqs
<1>2. mine \in Held /\ mine.seq = next
  BY <1>1 DEF Held, Seqs
<1> HIDE DEF mine
<1>3. held' \in [Holders -> Held] /\ held'[h] = mine
      /\ \A g \in Holders \ {h} : held'[g] = held[g]
  BY <1>1, <1>2
<1>4. \A g \in Holders : held[g].seq = 0 \/ held[g].seq < next
  BY DEF IInv, TypeOK, Nothing
<1>5. \A g \in Holders \ {h} : held'[g].seq # next
  BY <1>1, <1>3, <1>4
<1>6. ASSUME NEW g \in Holders, held'[g] # Nothing
      PROVE  /\ held'[g].seq \in Seqs \ Rows' /\ held'[g].seq < next'
             /\ \A f \in Holders \ {g} : held'[f].seq # held'[g].seq
  <2>1. CASE g = h
    BY <1>1, <1>2, <1>3, <1>5, <2>1 DEF Seqs
  <2>2. CASE g # h
    <3>1. /\ held'[g] = held[g] /\ held[g].seq \in Seqs \ Rows
          /\ held[g].seq < next
          /\ \A f \in Holders \ {g} : held[f].seq # held[g].seq
      BY <1>3, <1>6, <2>2 DEF IInv, TypeOK
    <3>2. \A f \in Holders \ {g} : held'[f].seq # held'[g].seq
      BY <1>2, <1>3, <1>5, <2>2, <3>1
    <3>3. held[g].seq < next'
      BY <1>1, <3>1 DEF Seqs
    <3> QED  BY <1>1, <3>1, <3>2, <3>3
  <2> QED  BY <2>1, <2>2
<1>7. \A n \in Rows' : n < next'
  BY <1>1 DEF IInv, TypeOK, Rows, Seqs
<1>8. TypeOK'
  BY <1>1, <1>3, <1>6, <1>7 DEF IInv, TypeOK
<1> QED  BY <1>8, HeldKeeps

\* record_world_command_error, applied to an existing row that has no
\* unaccounted transmission, charges the row and keeps the accounts.
LEMMA ErrorKeeps ==
  ASSUME IInv,
         NEW n \in Seqs, cmd[n].status # "absent", Unaccounted(n) = 0,
         RecordError(n), pc' \in Phases,
         \/ batch = {} /\ UNCHANGED <<pc, batch>>
         \/ pc = "dispatch" /\ batch' = {},
         verdict' \in {verdict, [verdict EXCEPT ![n] = "error"]},
         verdict' # verdict \/ cmd[n].status # "acked" \/ verdict[n] = "error",
         UNCHANGED <<next, held, arrived, crashes, sends>>
  PROVE  IInv'
<1> USE UpsCommandsAssumption DEF Seqs, Goto
<1>1. /\ cmd' \in [Seqs -> Row]
      /\ \A m \in Seqs : m # n => cmd'[m] = cmd[m]
      /\ cmd'[n].retries = cmd[n].retries + 1
      /\ cmd'[n].status = IF cmd[n].retries + 1 <= MaxRetries
                          THEN "pending" ELSE "failed"
      /\ cmd'[n].created = cmd[n].created
      /\ cmd[n].retries \in Nat
  <2> DEFINE st == IF cmd[n].retries + 1 <= MaxRetries THEN "pending" ELSE "failed"
             row == [cmd[n] EXCEPT !.retries = cmd[n].retries + 1, !.status = st]
  <2>1. cmd \in [Seqs -> Row] /\ cmd[n] \in Row
    BY DEF IInv, TypeOK
  <2>2. cmd' = [cmd EXCEPT ![n] = row]
    BY <2>1 DEF RecordError, Row
  <2>3. st \in Statuses
    BY DEF Statuses
  <2>4. cmd[n].retries \in Nat /\ cmd[n].retries + 1 \in Nat
    BY <2>1 DEF Row
  <2> HIDE DEF st
  <2>6. row \in Row /\ row.retries = cmd[n].retries + 1 /\ row.status = st
        /\ row.created = cmd[n].created
    BY <2>1, <2>3, <2>4 DEF Row
  <2> HIDE DEF row
  <2>5. cmd' \in [Seqs -> Row] /\ cmd'[n] = row
        /\ \A m \in Seqs : m # n => cmd'[m] = cmd[m]
    BY <2>1, <2>2, <2>6
  <2> QED  BY <2>4, <2>5, <2>6 DEF st
<1>0. Stamped' /\ Rows' = Rows
  <2>1. \A m \in Seqs : /\ cmd'[m].created = cmd[m].created
                        /\ cmd'[m].status = "absent" <=> cmd[m].status = "absent"
    BY <1>1
  <2> QED  BY <2>1, StampsKeep DEF IInv
<1>2. TypeOK'
  BY <1>0, <1>1 DEF IInv, TypeOK
<1>3. ArrivedRowsExist'
  BY <1>0 DEF IInv, ArrivedRowsExist
<1>4. batch' = {} /\ BatchIsPending'
  BY DEF IInv, BatchIsPending
<1>5. BudgetMatchesStatus'
  BY <1>1, SMTT(30) DEF IInv, TypeOK, BudgetMatchesStatus, InFlight, With
<1>6. \A m \in Seqs : Unaccounted(m)' = 0 /\ Unaccounted(m) = 0
  BY <1>4 DEF Unaccounted, IsFirst
<1>7. SendsAreCharged'
  <2> SUFFICES ASSUME NEW m \in Seqs
               PROVE  SendsAreCharged!(m)'
    BY DEF SendsAreCharged
  <2>1. CASE m # n
    BY <1>1, <1>6, <2>1 DEF IInv, TypeOK, SendsAreCharged
  <2>2. CASE m = n
    <3>1. cmd[n].status \in Statuses
      BY DEF IInv, TypeOK, Row
    <3>2. sends[n] \in Nat /\ crashes \in Nat
      BY DEF IInv, TypeOK
    <3>3. cmd[n].status = "pending" => sends[n] <= cmd[n].retries + crashes
                                    /\ cmd[n].retries <= MaxRetries
      BY <1>1, <1>6, <3>2 DEF IInv, SendsAreCharged, BudgetMatchesStatus, InFlight, With
    <3>4. cmd[n].status # "pending" =>
            sends[n] <= cmd[n].retries + 1 + crashes
            /\ sends[n] <= MaxRetries + 1 + crashes
      BY <3>1 DEF IInv, SendsAreCharged, Statuses
    <3>5. sends[n] <= (cmd[n].retries + 1) + crashes
          /\ sends[n] <= MaxRetries + 1 + crashes
      BY <1>1, <3>2, <3>3, <3>4, SMTT(30)
    <3>6. cmd'[m].status \in {"pending", "failed"} /\ cmd'[m].retries = cmd[n].retries + 1
      BY <1>1, <2>2
    <3>7. sends[m] <= cmd'[m].retries + crashes /\ sends[m] <= MaxRetries + 1 + crashes
      BY <2>2, <3>5, <3>6
    <3>8. sends'[m] = sends[m] /\ crashes' = crashes /\ Unaccounted(m)' = 0
      BY <1>6
    <3>9. cmd'[m].retries \in Nat
      BY <1>1, <3>6
    <3> QED  BY <3>2, <3>6, <3>7, <3>8, <3>9, <2>2
  <2> QED  BY <2>1, <2>2
<1>8. AckSettles'
  BY <1>1 DEF IInv, TypeOK, AckSettles
<1> QED  BY <1>0, <1>2, <1>3, <1>4, <1>5, <1>7, <1>8 DEF IInv

\* A step that changes no row and no transmission count keeps the accounts
\* if it leaves nothing unaccounted for.
LEMMA QuietKeeps ==
  ASSUME IInv, UNCHANGED <<cmd, next, arrived, sends, verdict>>,
         held' \in [Holders -> Held],
         \A h \in Holders : held'[h] \in {held[h], Nothing},
         pc' \in Phases, crashes' \in 0..MaxCrashes,
         batch' \subseteq With("pending"),
         batch' # {} => pc' \in {"dispatch"},
         \A n \in Seqs : crashes + Unaccounted(n) <= crashes'
  PROVE  IInv'
<1> USE UpsCommandsAssumption DEF Seqs, Goto
<1>0. Stamped' /\ Rows' = Rows
  BY StampsKeep DEF IInv
<1>1. TypeOK' /\ ArrivedRowsExist' /\ BatchIsPending'
  BY <1>0, DropKeeps DEF IInv, TypeOK, ArrivedRowsExist, BatchIsPending, With
<1>2. BudgetMatchesStatus' /\ AckSettles'
  BY DEF IInv, BudgetMatchesStatus, AckSettles, InFlight, With
<1>3. \A n \in Seqs : Unaccounted(n)' = 0 /\ Unaccounted(n) \in {0, 1}
  BY DEF Unaccounted, IsFirst
<1>4. SendsAreCharged'
  <2> SUFFICES ASSUME NEW n \in Seqs
               PROVE  SendsAreCharged!(n)'
    BY DEF SendsAreCharged
  <2>1. cmd[n].retries \in Nat /\ sends[n] \in Nat /\ crashes \in Nat /\ crashes' \in Nat
    BY DEF IInv, TypeOK, Row
  <2>2. cmd'[n] = cmd[n] /\ sends'[n] = sends[n] /\ Unaccounted(n)' = 0
    BY <1>3
  <2>3. crashes + Unaccounted(n) <= crashes' /\ Unaccounted(n) \in {0, 1}
    BY <1>3
  <2>4. SendsAreCharged!(n)
    BY DEF IInv, SendsAreCharged
  <2> QED  BY <2>1, <2>2, <2>3, <2>4
<1> QED  BY <1>0, <1>1, <1>2, <1>4 DEF IInv

\* Completing rows touches neither status nor budget.
LEMMA CompletionKeeps ==
  ASSUME IInv, cmd' \in [Seqs -> Row],
         \A n \in Seqs : /\ cmd'[n].status = cmd[n].status
                         /\ cmd'[n].created = cmd[n].created
                         /\ cmd'[n].retries = cmd[n].retries,
         UNCHANGED <<next, held, pc, batch, arrived, crashes, sends, verdict>>
  PROVE  IInv'
<1>0. Stamped' /\ Rows' = Rows
  BY StampsKeep DEF IInv
<1>1. TypeOK' /\ ArrivedRowsExist'
  BY <1>0 DEF IInv, TypeOK, ArrivedRowsExist
<1>2. BatchIsPending' /\ BudgetMatchesStatus' /\ AckSettles'
  BY DEF IInv, TypeOK, BatchIsPending, BudgetMatchesStatus, AckSettles, InFlight, With
<1>3. \A n \in Seqs : Unaccounted(n)' = Unaccounted(n)
  <2>1. \A n \in batch : cmd'[n].created = cmd[n].created
    BY DEF IInv, TypeOK
  <2> QED  BY <2>1, FirstStays DEF Unaccounted
<1>4. SendsAreCharged'
  BY <1>3 DEF IInv, SendsAreCharged
<1> QED  BY <1>0, <1>1, <1>2, <1>4 DEF IInv

\* client.dispatch, first half: the transmission becomes the unaccounted one.
LEMMA SendKeeps == ASSUME IInv, NEW n \in Seqs, Send(n) PROVE IInv'
<1> USE UpsCommandsAssumption DEF Seqs, Goto
<1>1. /\ sends' \in [Seqs -> Nat] /\ sends'[n] = sends[n] + 1
      /\ \A m \in Seqs : m # n => sends'[m] = sends[m]
      /\ sends[n] \in Nat
  BY DEF Send, IInv, TypeOK
<1>2. n \in batch /\ cmd[n].status = "pending"
  BY DEF Send, IsFirst, IInv, BatchIsPending
<1>0. Stamped' /\ Rows' = Rows
  BY StampsKeep DEF Send, IInv
<1>3. TypeOK'
  BY <1>0, <1>1 DEF Send, IInv, TypeOK, Phases
<1>4. ArrivedRowsExist'
  BY <1>0, <1>2 DEF Send, IInv, TypeOK, ArrivedRowsExist, Rows
<1>5. BatchIsPending' /\ BudgetMatchesStatus' /\ AckSettles'
  BY DEF Send, IInv, BatchIsPending, BudgetMatchesStatus, AckSettles, InFlight, With
<1>6. /\ \A m \in Seqs : Unaccounted(m) = 0
      /\ \A m \in Seqs : m # n => Unaccounted(m)' = 0
      /\ Unaccounted(n)' = 1
  <2>1. pc = "dispatch" /\ pc' = "marking" /\ IsFirst(n, batch)
    BY DEF Send
  <2>2. \A m : IsFirst(m, batch)' <=> IsFirst(m, batch)
    BY FirstStays DEF Send
  <2>3. \A m \in Seqs : m # n => ~IsFirst(m, batch)
    BY <2>1, OneIsFirst
  <2> QED  BY <2>1, <2>2, <2>3 DEF Unaccounted
<1>7. SendsAreCharged'
  <2> SUFFICES ASSUME NEW m \in Seqs
               PROVE  SendsAreCharged!(m)'
    BY DEF SendsAreCharged
  <2>1. cmd[m].retries \in Nat /\ sends[m] \in Nat /\ crashes \in Nat
    BY DEF IInv, TypeOK, Row
  <2>2. SendsAreCharged!(m)
    BY DEF IInv, SendsAreCharged
  <2>3. cmd' = cmd /\ crashes' = crashes
    BY DEF Send
  <2>4. CASE m = n
    <3>1. sends[n] <= cmd[n].retries + crashes
      BY <1>2, <1>6, <2>1, <2>2, <2>4
    <3>2. sends'[m] <= cmd[m].retries + crashes + 1
      BY <1>1, <2>1, <2>4, <3>1
    <3> QED  BY <1>2, <1>6, <2>3, <2>4, <3>2
  <2>5. CASE m # n
    <3>1. sends'[m] = sends[m] /\ Unaccounted(m)' = 0 /\ Unaccounted(m) = 0
      BY <1>1, <1>6, <2>5
    <3> QED  BY <2>1, <2>2, <2>3, <3>1
  <2> QED  BY <2>4, <2>5
<1> QED  BY <1>0, <1>3, <1>4, <1>5, <1>7 DEF IInv

\* client.dispatch, second half: mark_sent accounts for the transmission.
LEMMA MarkSentKeeps == ASSUME IInv, NEW n \in Seqs, MarkSent(n) PROVE IInv'
<1> USE UpsCommandsAssumption DEF Seqs, Goto
<1>1. /\ cmd' \in [Seqs -> Row] /\ cmd'[n].status = "sent"
      /\ cmd'[n].retries = cmd[n].retries /\ cmd'[n].created = cmd[n].created
      /\ \A m \in Seqs : m # n => cmd'[m] = cmd[m]
  <2> DEFINE row == [cmd[n] EXCEPT !.status = "sent"]
  <2>1. cmd \in [Seqs -> Row] /\ cmd[n] \in Row /\ cmd' = [cmd EXCEPT ![n] = row]
    BY DEF MarkSent, IInv, TypeOK
  <2>2. /\ row \in Row /\ row.status = "sent" /\ row.retries = cmd[n].retries
        /\ row.created = cmd[n].created
    BY <2>1 DEF Row, Statuses
  <2> HIDE DEF row
  <2> QED  BY <2>1, <2>2
<1>2. n \in batch /\ cmd[n].status = "pending"
  BY DEF MarkSent, IsFirst, IInv, BatchIsPending
<1>0. Stamped' /\ Rows' = Rows
  <2>1. \A m \in Seqs : /\ cmd'[m].created = cmd[m].created
                        /\ cmd'[m].status = "absent" <=> cmd[m].status = "absent"
    BY <1>1, <1>2
  <2> QED  BY <2>1, StampsKeep DEF IInv
<1>3. TypeOK' /\ ArrivedRowsExist'
  BY <1>0, <1>1, <1>2 DEF MarkSent, IInv, TypeOK, ArrivedRowsExist, Phases
<1>4. BatchIsPending' /\ BudgetMatchesStatus' /\ AckSettles'
  BY <1>1, <1>2
  DEF MarkSent, IInv, TypeOK, BatchIsPending, BudgetMatchesStatus, AckSettles,
      InFlight, With
<1>5. /\ \A m \in Seqs : Unaccounted(m)' = 0
      /\ \A m \in Seqs : m # n => Unaccounted(m) = 0
      /\ Unaccounted(n) = 1
  <2>1. pc = "marking" /\ pc' = "dispatch" /\ IsFirst(n, batch)
    BY DEF MarkSent
  <2>2. \A m \in Seqs : m # n => ~IsFirst(m, batch)
    BY <2>1, OneIsFirst
  <2> QED  BY <2>1, <2>2 DEF Unaccounted
<1>6. SendsAreCharged'
  <2> SUFFICES ASSUME NEW m \in Seqs
               PROVE  SendsAreCharged!(m)'
    BY DEF SendsAreCharged
  <2>1. cmd[m].retries \in Nat /\ sends[m] \in Nat /\ crashes \in Nat
    BY DEF IInv, TypeOK, Row
  <2>2. SendsAreCharged!(m)
    BY DEF IInv, SendsAreCharged
  <2>3. sends' = sends /\ crashes' = crashes
    BY DEF MarkSent
  <2>4. CASE m = n
    <3>1. cmd[n].retries <= MaxRetries
      BY <1>2 DEF IInv, BudgetMatchesStatus, InFlight, With
    <3> QED  BY <1>1, <1>2, <1>5, <2>1, <2>2, <2>3, <2>4, <3>1, SMTT(30)
  <2>5. CASE m # n
    BY <1>1, <1>5, <2>1, <2>2, <2>3, <2>5
  <2> QED  BY <2>4, <2>5
<1> QED  BY <1>0, <1>3, <1>4, <1>6 DEF IInv

\* handle_command_acks: the row becomes ACKED whatever it was before.
LEMMA AckKeeps == ASSUME IInv, NEW n \in Seqs, HandleCommandAck(n) PROVE IInv'
<1> USE UpsCommandsAssumption DEF Seqs, Goto
<1>1. /\ cmd' \in [Seqs -> Row] /\ cmd'[n].status = "acked"
      /\ cmd'[n].retries = cmd[n].retries /\ cmd'[n].created = cmd[n].created
      /\ \A m \in Seqs : m # n => cmd'[m] = cmd[m]
      /\ verdict' = [verdict EXCEPT ![n] = "ack"]
  <2>1. cmd \in [Seqs -> Row] /\ cmd[n] \in Row /\ "acked" \in Statuses
    BY DEF IInv, TypeOK, Statuses
  <2>2. CASE cmd[n].status = "acked"
    BY <2>1, <2>2 DEF HandleCommandAck
  <2>3. CASE cmd[n].status # "acked"
    <3> DEFINE row == [cmd[n] EXCEPT !.status = "acked"]
    <3>1. cmd' = [cmd EXCEPT ![n] = row]
      BY <2>3 DEF HandleCommandAck
    <3>2. row \in Row /\ row.status = "acked" /\ row.retries = cmd[n].retries
          /\ row.created = cmd[n].created
      BY <2>1 DEF Row
    <3>3. verdict' = [verdict EXCEPT ![n] = "ack"]
      BY DEF HandleCommandAck
    <3> HIDE DEF row
    <3> QED  BY <2>1, <3>1, <3>2, <3>3
  <2> QED  BY <2>2, <2>3
<1>2. batch = {} /\ cmd[n].status \in Statuses
  BY DEF HandleCommandAck, IInv, BatchIsPending, TypeOK, ArrivedRowsExist, Row, Rows
<1>0. Stamped' /\ Rows' = Rows
  <2>1. \A m \in Seqs : /\ cmd'[m].created = cmd[m].created
                        /\ cmd'[m].status = "absent" <=> cmd[m].status = "absent"
    BY <1>1, <1>2 DEF Statuses
  <2> QED  BY <2>1, StampsKeep DEF IInv
<1>3. TypeOK' /\ ArrivedRowsExist'
  BY <1>0, <1>1, <1>2, ZenonT(30) DEF HandleCommandAck, IInv, TypeOK, ArrivedRowsExist
<1>4. BatchIsPending' /\ BudgetMatchesStatus'
  BY <1>1, <1>2
  DEF HandleCommandAck, IInv, TypeOK, BatchIsPending, BudgetMatchesStatus, InFlight, With
<1>5. AckSettles'
  BY <1>1 DEF IInv, TypeOK, AckSettles
<1>6. \A m \in Seqs : Unaccounted(m)' = 0 /\ Unaccounted(m) = 0
  BY <1>2 DEF HandleCommandAck, Unaccounted, IsFirst
<1>7. SendsAreCharged'
  <2> SUFFICES ASSUME NEW m \in Seqs
               PROVE  SendsAreCharged!(m)'
    BY DEF SendsAreCharged
  <2>1. cmd[m].retries \in Nat /\ sends[m] \in Nat /\ crashes \in Nat
    BY DEF IInv, TypeOK, Row
  <2>2. SendsAreCharged!(m)
    BY DEF IInv, SendsAreCharged
  <2>3. sends' = sends /\ crashes' = crashes
    BY DEF HandleCommandAck
  <2>4. cmd[n].status = "pending" => cmd[n].retries <= MaxRetries
    BY DEF IInv, BudgetMatchesStatus, InFlight, With
  <2>5. CASE m = n
    BY <1>1, <1>2, <1>6, <2>1, <2>2, <2>3, <2>4, <2>5, SMTT(30) DEF Statuses
  <2>6. CASE m # n
    BY <1>1, <1>6, <2>1, <2>2, <2>3, <2>6
  <2> QED  BY <2>5, <2>6
<1> QED  BY <1>0, <1>3, <1>4, <1>5, <1>7 DEF IInv

-----------------------------------------------------------------------------

\* Every step of the web, the daemon and the world preserves the invariant.
THEOREM StepIInv == IInv /\ [Next]_vars => IInv'
<1> SUFFICES ASSUME IInv, [Next]_vars PROVE IInv'
  OBVIOUS
<1> USE UpsCommandsAssumption
<1> USE DEF Goto
<1>0. /\ cmd \in [Seqs -> Row] /\ held \in [Holders -> Held]
      /\ pc \in Phases /\ crashes \in 0..MaxCrashes
      /\ verdict \in [Seqs -> {"none", "ack", "error"}]
      /\ \A n \in Seqs : /\ cmd[n].shipment \in Shipments \cup {None}
                         /\ cmd[n].truck \in Trucks \cup {None}
      /\ {"pickup", "deliver", "query"} = Kinds
  BY DEF IInv, TypeOK, Row, Kinds
<1>q. batch # {} => pc \in {"dispatch", "marking"}
  BY DEF IInv, BatchIsPending
<1>u. pc # "marking" => \A n \in Seqs : Unaccounted(n) = 0
  BY DEF Unaccounted
<1>c. ASSUME NEW n \in Seqs
      PROVE  LET row == [cmd[n] EXCEPT !.completed = TRUE]
             IN  /\ row \in Row /\ cmd[n] \in Row /\ cmd \in [Seqs -> Row]
                 /\ row.status = cmd[n].status
                 /\ row.created = cmd[n].created
                 /\ row.retries = cmd[n].retries
  <2>1. cmd[n] \in Row
    BY <1>0
  <2> QED  BY <1>0, <2>1 DEF Row
<1>1. ASSUME NEW s \in Shipments, NEW t \in Trucks, QueuePickup(s, t)
      PROVE  IInv'
  <2>1. /\ next \in Seqs \ Rows /\ next' \in 1..(MaxSeq + 1)
        /\ next <= next' /\ next < next' /\ held' = held
        /\ \A h \in Holders : held[h] # Nothing => held[h].seq # next
    BY <1>1 DEF QueuePickup, IInv, TypeOK, Rows, Seqs
  <2> QED  BY <1>0, <1>1, <2>1, InsertKeeps DEF QueuePickup
<1>2. ASSUME NEW h \in Threads, NEW s \in Shipments, NEW t \in Trucks,
             QueueDelivery(h, s, t)
      PROVE  IInv'
  BY <1>0, <1>2, TakeKeeps DEF QueueDelivery, Holders
<1>3. ASSUME NEW n \in Seqs, EnqueueQuery(n)
      PROVE  IInv'
  BY <1>0, <1>3, TakeKeeps DEF EnqueueQuery, Holders
<1>4. ASSUME NEW n \in Seqs, EnqueueDeliver(n)
      PROVE  IInv'
  BY <1>0, <1>4, TakeKeeps DEF EnqueueDeliver, Holders
<1>i. ASSUME NEW h \in Holders, InsertRow(h)
      PROVE  IInv'
  <2>1. /\ held[h].seq \in Seqs \ Rows /\ held[h].seq < next
        /\ \A g \in Holders \ {h} : held[g].seq # held[h].seq
    BY <1>i DEF InsertRow, IInv, TypeOK
  <2>2. /\ held[h].kind \in Kinds /\ held[h].shipment \in Shipments \cup {None}
        /\ held[h].truck \in Trucks \cup {None}
    BY <1>0, <1>i DEF Held, InsertRow
  <2>3. /\ held' = [held EXCEPT ![h] = Nothing] /\ next' = next
        /\ next \in 1..(MaxSeq + 1) /\ Nothing \in Held
    BY <1>i DEF InsertRow, IInv, TypeOK, Nothing, Held
  <2>4. /\ held' \in [Holders -> Held]
        /\ \A g \in Holders : held'[g] # Nothing =>
             held'[g] = held[g] /\ held[g].seq # held[h].seq
    BY <1>0, <2>1, <2>3
  <2>5. next <= next' /\ held[h].seq < next'
    BY <2>1, <2>3
  <2> QED  BY <1>i, <2>1, <2>2, <2>3, <2>4, <2>5, InsertKeeps DEF InsertRow
<1>w. CASE WebDies
  <2>1. held' \in [Holders -> Held] /\ \A h \in Holders : held'[h] \in {held[h], Nothing}
    BY <1>0, <1>w DEF WebDies, Nothing, Held
  <2>2. Rows' = Rows
    BY <1>w DEF WebDies, Rows
  <2>3. TypeOK'
    BY <1>w, <2>1, <2>2, DropKeeps DEF WebDies, IInv, TypeOK
  <2> QED  BY <1>w, <2>3, HeldKeeps DEF WebDies
<1>5. ASSUME NEW n \in Seqs, RequeueStale(n)
      PROVE  IInv'
  BY <1>0, <1>q, <1>u, <1>5, ErrorKeeps DEF RequeueStale
<1>6. ASSUME NEW n \in Seqs, RejectLocally(n)
      PROVE  IInv'
  <2>1. cmd[n].status = "pending"
    BY <1>6 DEF RejectLocally, IsFirst, IInv, BatchIsPending
  <2> QED  BY <1>0, <1>u, <1>6, <2>1, ErrorKeeps DEF RejectLocally, Phases
<1>7. ASSUME NEW n \in Seqs, HandleError(n)
      PROVE  IInv'
  <2>1. cmd[n].status # "absent"
    BY <1>7 DEF HandleError, IInv, ArrivedRowsExist, Rows
  <2>2. verdict' # verdict \/ verdict[n] = "error"
    BY <1>0, <1>7 DEF HandleError
  <2>3. /\ batch = {} /\ UNCHANGED <<pc, batch>> /\ pc' \in Phases
        /\ Unaccounted(n) = 0
    BY <1>0, <1>q, <1>u, <1>7 DEF HandleError
  <2>4. RecordError(n) /\ UNCHANGED <<next, held, arrived, crashes, sends>>
        /\ verdict' = [verdict EXCEPT ![n] = "error"]
    BY <1>7 DEF HandleError
  <2> QED  BY <2>1, <2>2, <2>3, <2>4, ErrorKeeps
<1>8. ASSUME NEW n \in Seqs, Send(n) PROVE IInv'
  BY <1>8, SendKeeps
<1>9. ASSUME NEW n \in Seqs, MarkSent(n) PROVE IInv'
  BY <1>9, MarkSentKeeps
<1>10. ASSUME NEW n \in Seqs, HandleCommandAck(n) PROVE IInv'
  BY <1>10, AckKeeps
<1>11. ASSUME NEW n \in Seqs, HandleCompletion(n)
       PROVE  IInv'
  <2>1. cmd' = [cmd EXCEPT ![n] = [cmd[n] EXCEPT !.completed = TRUE]]
    BY <1>11 DEF HandleCompletion
  <2>2. UNCHANGED <<next, held, pc, batch, arrived, crashes, sends, verdict>>
    BY <1>11 DEF HandleCompletion
  <2> QED  BY <1>c, <2>1, <2>2, CompletionKeeps
<1>12. ASSUME NEW s \in Shipments, HandleDelivered(s)
       PROVE  IInv'
  <2>1. \A n \in Seqs : cmd'[n] \in {cmd[n], [cmd[n] EXCEPT !.completed = TRUE]}
    BY <1>12 DEF HandleDelivered
  <2>2. cmd' = [n \in Seqs |-> cmd'[n]]
    BY <1>12 DEF HandleDelivered
  <2>3. UNCHANGED <<next, held, pc, batch, arrived, crashes, sends, verdict>>
    BY <1>12 DEF HandleDelivered
  <2>4. \A n \in Seqs : /\ cmd'[n] \in Row
                        /\ cmd'[n].status = cmd[n].status
                        /\ cmd'[n].created = cmd[n].created
                        /\ cmd'[n].retries = cmd[n].retries
    BY <1>c, <2>1
  <2>5. cmd' \in [Seqs -> Row]
    BY <2>2, <2>4
  <2> QED  BY <2>3, <2>4, <2>5, CompletionKeeps
<1>13. ASSUME NEW t \in Trucks, NEW n \in Seqs, HandleTruckArrived(t, n)
       PROVE  IInv'
  <2>1. cmd' = [cmd EXCEPT ![n] = [cmd[n] EXCEPT !.completed = TRUE]]
    BY <1>13 DEF HandleTruckArrived
  <2>2. UNCHANGED <<next, held, pc, batch, arrived, crashes, sends, verdict>>
    BY <1>13 DEF HandleTruckArrived
  <2> QED  BY <1>c, <2>1, <2>2, CompletionKeeps
<1>14. ASSUME StartPoll \/ EndQueries \/ EndDelivers \/ GiveUpPoll \/ EndDispatch
              \/ EndPoll \/ Restart
       PROVE  IInv'
  <2>1. /\ UNCHANGED <<cmd, next, held, batch, arrived, crashes, sends, verdict>>
        /\ pc' \in Phases /\ pc # "marking" /\ batch = {}
    BY <1>q, <1>14
    DEF StartPoll, EndQueries, EndDelivers, GiveUpPoll, EndDispatch, EndPoll,
        Restart, Phases
  <2> QED  BY <1>0, <1>u, <2>1, QuietKeeps
<1>15. CASE LoadBatch
  <2>1. PendingBatch \subseteq With("pending")
    BY DEF PendingBatch
  <2> QED  BY <1>0, <1>u, <1>15, <2>1, QuietKeeps DEF LoadBatch, Phases
<1>16. CASE Crash
  <2>1. \A n \in Seqs : crashes + Unaccounted(n) <= crashes'
    BY <1>0, <1>16 DEF Crash, Unaccounted
  <2>2. crashes' \in 0..MaxCrashes
    BY <1>0, <1>16 DEF Crash
  <2>3. held' \in [Holders -> Held] /\ \A h \in Holders : held'[h] \in {held[h], Nothing}
    BY <1>0, <1>16 DEF Crash, Nothing, Held, Holders
  <2> QED  BY <1>16, <2>1, <2>2, <2>3, QuietKeeps DEF Crash, Phases
<1>17. CASE UNCHANGED vars
  <2>1. Rows' = Rows
    BY <1>17 DEF vars, Rows
  <2>2. TypeOK'
    BY <1>17, <2>1 DEF vars, IInv, TypeOK
  <2> QED  BY <1>17, <2>2, HeldKeeps DEF vars
<1> QED
  BY <1>1, <1>2, <1>3, <1>4, <1>i, <1>w, <1>5, <1>6, <1>7, <1>8, <1>9, <1>10,
     <1>11, <1>12, <1>13, <1>14, <1>15, <1>16, <1>17
  DEF Next, Web, Poll, World, Holders

\* The invariant holds in every reachable state.
THEOREM Inductive == Spec => []IInv
  BY InitIInv, StepIInv, PTL DEF Spec

\* Type correctness: however numbers taken and rows inserted interleave, no
\* number is a row and held, or held twice, or given again.
THEOREM TypeCorrect == Spec => []TypeOK
<1>1. IInv => TypeOK
  BY DEF IInv
<1> QED  BY <1>1, Inductive, PTL

\* For every retry budget and any number of daemon deaths, no command is
\* transmitted more than MaxRetries + 1 times plus once per death.
THEOREM ResendBudgetHolds == Spec => []ResendBudget
<1>1. IInv => ResendBudget
  <2> SUFFICES ASSUME IInv, NEW n \in Seqs
               PROVE  sends[n] <= MaxRetries + 1 + crashes
    BY DEF ResendBudget
  <2>1. /\ cmd[n].status \in Statuses \cup {"absent"} /\ cmd[n].retries \in Nat
        /\ sends[n] \in Nat /\ crashes \in Nat /\ MaxRetries \in Nat
    BY UpsCommandsAssumption DEF IInv, TypeOK, Row
  <2>2. CASE cmd[n].status = "pending"
    <3>1. cmd[n].retries <= MaxRetries
      BY <2>2 DEF IInv, BudgetMatchesStatus, InFlight, With
    <3>2. Unaccounted(n) = 0 \/ Unaccounted(n) = 1
      BY DEF Unaccounted
    <3>3. sends[n] <= cmd[n].retries + crashes + Unaccounted(n)
      BY <2>2 DEF IInv, SendsAreCharged
    <3> QED  BY <2>1, <3>1, <3>2, <3>3
  <2>3. CASE cmd[n].status = "absent"
    BY <2>1, <2>3 DEF IInv, SendsAreCharged
  <2>4. CASE cmd[n].status \in {"sent", "acked", "failed"}
    BY <2>4 DEF IInv, SendsAreCharged
  <2> QED  BY <2>1, <2>2, <2>3, <2>4 DEF Statuses
<1> QED  BY <1>1, Inductive, PTL

\* An acknowledgement is never undone by the sweep of stale rows or by the
\* dispatch of a batch loaded earlier: only a later rejection undoes it.
THEOREM AckSettlesHolds == Spec => []AckSettles
<1>1. IInv => AckSettles
  BY DEF IInv
<1> QED  BY <1>1, Inductive, PTL

\* In every reachable state a row owed to the world has budget left and a
\* FAILED row has spent all of it.
THEOREM BudgetMatchesStatusHolds == Spec => []BudgetMatchesStatus
<1>1. IInv => BudgetMatchesStatus
  BY DEF IInv
<1> QED  BY <1>1, Inductive, PTL

\* Once its budget is spent a row is never transmitted again.
THEOREM SpentStaysQuietHolds == Spec => SpentStaysQuiet
<1>1. IInv /\ [Next]_vars =>
        [\A n \in Seqs : cmd[n].retries > MaxRetries => sends'[n] = sends[n]]_vars
  <2> SUFFICES ASSUME IInv, Next, NEW n \in Seqs, cmd[n].retries > MaxRetries
               PROVE  sends'[n] = sends[n]
    OBVIOUS
  <2>1. \A m \in Seqs : Send(m) => m # n
    <3> SUFFICES ASSUME NEW m \in Seqs, Send(m) PROVE m # n
      OBVIOUS
    <3>1. cmd[m].retries <= MaxRetries
      BY DEF Send, IsFirst, IInv, BatchIsPending, BudgetMatchesStatus, InFlight, With
    <3>2. cmd[m].retries \in Nat /\ MaxRetries \in Nat
      BY UpsCommandsAssumption DEF IInv, TypeOK, Row
    <3> QED  BY <3>1, <3>2
  <2>2. CASE \E m \in Seqs : Send(m)
    BY <2>1, <2>2 DEF Send, IInv, TypeOK
  <2>3. CASE ~\E m \in Seqs : Send(m)
    <3>1. sends' = sends
      BY <2>3
      DEF Next, Web, Poll, World, QueuePickup, QueueDelivery, InsertRow, WebDies, StartPoll,
          EnqueueQuery, EndQueries, EnqueueDeliver, EndDelivers, RequeueStale,
          LoadBatch, GiveUpPoll, MarkSent, RejectLocally, EndDispatch,
          HandleCommandAck, HandleCompletion, HandleDelivered,
          HandleTruckArrived, HandleError, EndPoll, Crash, Restart
    <3> QED  BY <3>1
  <2> QED  BY <2>2, <2>3
<1> QED  BY <1>1, Inductive, PTL DEF Spec, SpentStaysQuiet

-----------------------------------------------------------------------------
(* The in-flight guards.                                                   *)

\* A step that rewrites existing rows without taking their failures back,
\* and brings no row into flight except by charging it, adds no pile-up.
LEMMA RewriteKeepsQueries ==
  ASSUME TypeOK, QueriesDoNotPileUp, TypeOK',
         \A n \in Seqs : /\ cmd'[n].kind = cmd[n].kind
                         /\ cmd'[n].truck = cmd[n].truck
                         /\ cmd'[n].retries >= cmd[n].retries
                         /\ n \in InFlight' => n \in InFlight \/ cmd'[n].retries > 0
  PROVE  QueriesDoNotPileUp'
<1> SUFFICES ASSUME NEW q \in Seqs, NEW r \in Seqs, q # r,
                    q \in InFlight', r \in InFlight',
                    cmd'[q].kind = "query", cmd'[r].kind = "query",
                    cmd'[q].truck = cmd'[r].truck
             PROVE  cmd'[q].retries > 0 \/ cmd'[r].retries > 0
  BY DEF QueriesDoNotPileUp, OfKind
<1>1. /\ cmd[q].retries \in Nat /\ cmd[r].retries \in Nat
      /\ cmd'[q].retries \in Nat /\ cmd'[r].retries \in Nat
  BY DEF TypeOK, Row
<1>2. CASE q \in InFlight /\ r \in InFlight
  <2>1. cmd[q].retries > 0 \/ cmd[r].retries > 0
    BY <1>2 DEF QueriesDoNotPileUp, OfKind
  <2> QED  BY <1>1, <2>1
<1>3. CASE q \notin InFlight \/ r \notin InFlight
  BY <1>3
<1> QED  BY <1>2, <1>3

\* A fresh row adds no pile-up if it is no query, or if its truck has no
\* query in flight.
LEMMA InsertKeepsQueries ==
  ASSUME TypeOK, QueriesDoNotPileUp,
         NEW n \in Seqs, NEW k \in Kinds, NEW s, NEW t, Insert(n, k, s, t),
         k = "query" =>
           ~\E q \in OfKind("query") \cap InFlight : cmd[q].truck = t
  PROVE  QueriesDoNotPileUp'
<1>1. /\ \A m \in Seqs : m # n => cmd'[m] = cmd[m]
      /\ cmd'[n].kind = k /\ cmd'[n].truck = t
  BY DEF Insert, TypeOK
<1> QED
  BY <1>1 DEF QueriesDoNotPileUp, OfKind, InFlight, With

\* The daemon is the only one to insert queries, and what it found when it took
\* the number still holds when it inserts the row: only the daemon changes the
\* status of rows.
QueryStillDue ==
  /\ \A h \in Threads : held[h] = Nothing \/ held[h].kind = "deliver"
  /\ held["daemon"] # Nothing =>
       /\ pc \in {"queries", "delivers"}
       /\ held["daemon"].kind = "query" =>
            ~\E q \in OfKind("query") \cap InFlight :
               cmd[q].truck = held["daemon"].truck

\* The promise stays: every step that could break it is one the daemon does
\* not take while it holds a number.
LEMMA StaysDue == Spec => []QueryStillDue
<1>1. Init => QueryStillDue
  BY DEF Init, QueryStillDue, Holders
<1>2. IInv /\ QueryStillDue /\ [Next]_vars => QueryStillDue'
  <2> SUFFICES ASSUME IInv, QueryStillDue, [Next]_vars PROVE QueryStillDue'
    OBVIOUS
  <2> USE DEF Goto
  <2>0. /\ TypeOK /\ cmd \in [Seqs -> Row] /\ held \in [Holders -> Held]
        /\ "daemon" \in Holders /\ "daemon" \notin Threads /\ Threads \subseteq Holders
        /\ \A h \in Threads : held[h] = Nothing \/ held[h].kind = "deliver"
    BY UpsCommandsAssumption DEF IInv, TypeOK, Holders, QueryStillDue
  \* No query is inserted and the daemon holds what it held.
  <2>1. ASSUME NEW n \in Seqs, NEW k \in Kinds, NEW s, NEW t, Insert(n, k, s, t),
               k # "query", pc' = pc, held'["daemon"] = held["daemon"],
               \A h \in Threads : held'[h] \in {held[h], Nothing}
        PROVE  QueryStillDue'
    <3>1. /\ \A m \in Seqs : m # n => cmd'[m] = cmd[m]
          /\ cmd'[n].kind = k
      BY <2>0, <2>1 DEF Insert
    <3> QED  BY <2>0, <2>1, <3>1 DEF QueryStillDue, OfKind, InFlight, With
  \* The rows stay, the threads take or drop deliveries.
  <2>2. ASSUME cmd' = cmd, pc' = pc, held'["daemon"] \in {held["daemon"], Nothing},
               \A h \in Threads : \/ held'[h] \in {held[h], Nothing}
                                  \/ held'[h].kind = "deliver"
        PROVE  QueryStillDue'
    BY <2>0, <2>2 DEF QueryStillDue, OfKind, InFlight, With
  \* The daemon holds nothing afterwards, the threads what they held.
  <2>3. ASSUME held'["daemon"] = Nothing,
               \A h \in Threads : held'[h] = held[h]
        PROVE  QueryStillDue'
    BY <2>0, <2>3 DEF QueryStillDue
  <2>4. ASSUME NEW s \in Shipments, NEW t \in Trucks, QueuePickup(s, t)
        PROVE  QueryStillDue'
    BY <2>1, <2>4 DEF QueuePickup, Kinds
  <2>5. ASSUME NEW h \in Threads, InsertRow(h)
        PROVE  QueryStillDue'
    <3>1. /\ held[h].seq \in Seqs /\ held[h].kind \in Kinds /\ held[h].kind # "query"
          /\ Insert(held[h].seq, held[h].kind, held[h].shipment, held[h].truck)
      BY <2>0, <2>5 DEF InsertRow, Held
    <3>2. /\ pc' = pc /\ held'["daemon"] = held["daemon"]
          /\ \A g \in Threads : held'[g] \in {held[g], Nothing}
      BY <2>0, <2>5 DEF InsertRow
    <3> QED  BY <2>1, <3>1, <3>2
  <2>6. CASE InsertRow("daemon")
    BY <2>0, <2>3, <2>6 DEF InsertRow
  <2>7. ASSUME NEW h \in Threads, NEW s \in Shipments, NEW t \in Trucks,
               QueueDelivery(h, s, t)
        PROVE  QueryStillDue'
    BY <2>0, <2>2, <2>7 DEF QueueDelivery, TakeNumber
  <2>8. CASE WebDies
    BY <2>0, <2>2, <2>8 DEF WebDies
  <2>9. ASSUME NEW n \in Seqs, EnqueueQuery(n)
        PROVE  QueryStillDue'
    <3>1. ~\E q \in OfKind("query") \cap InFlight : cmd[q].truck = cmd[n].truck
      BY <2>9 DEF EnqueueQuery, IsFirst, Unqueried
    <3>2. /\ held'["daemon"].kind = "query" /\ held'["daemon"].truck = cmd[n].truck
          /\ \A h \in Threads : held'[h] = held[h]
          /\ pc' = "queries" /\ cmd' = cmd
      BY <2>0, <2>9 DEF EnqueueQuery, TakeNumber
    <3> QED  BY <2>0, <3>1, <3>2 DEF QueryStillDue, OfKind, InFlight, With
  <2>10. ASSUME NEW n \in Seqs, EnqueueDeliver(n)
         PROVE  QueryStillDue'
    <3>1. /\ held'["daemon"].kind = "deliver"
          /\ \A h \in Threads : held'[h] = held[h]
          /\ pc' = "delivers"
      BY <2>0, <2>10 DEF EnqueueDeliver, TakeNumber
    <3> QED  BY <2>0, <3>1 DEF QueryStillDue
  <2>11. ASSUME held["daemon"] = Nothing, held' = held
         PROVE  QueryStillDue'
    BY <2>3, <2>11
  <2>12. CASE pc \notin {"queries", "delivers"} /\ held' = held
    BY <2>11, <2>12 DEF QueryStillDue
  <2>13. CASE Crash
    BY <2>0, <2>3, <2>13 DEF Crash
  <2>14. CASE Poll
    BY <2>6, <2>9, <2>10, <2>11, <2>12, <2>14
    DEF Poll, StartPoll, EndQueries, EndDelivers, LoadBatch, GiveUpPoll,
        EndDispatch, EndPoll, RequeueStale, Send, MarkSent, RejectLocally
  <2>15. CASE World
    BY <2>12, <2>15
    DEF World, HandleCommandAck, HandleCompletion, HandleDelivered,
        HandleTruckArrived, HandleError
  <2>16. CASE Web
    BY <2>4, <2>5, <2>7, <2>8, <2>16 DEF Web
  <2>17. CASE UNCHANGED vars
    BY <2>2, <2>17 DEF vars
  <2> QED
    BY <2>12, <2>13, <2>14, <2>15, <2>16, <2>17 DEF Next, Restart
<1> QED  BY <1>1, <1>2, Inductive, PTL DEF Spec

\* Polling never puts two queries for one truck in flight; a second one can
\* only be an older query that came back after a failure.
THEOREM QueriesDoNotPileUpHolds == Spec => []QueriesDoNotPileUp
<1>1. Init => QueriesDoNotPileUp
  BY DEF Init, QueriesDoNotPileUp, InFlight, With, OfKind, Absent
<1>2. IInv /\ IInv' /\ QueryStillDue /\ QueriesDoNotPileUp /\ [Next]_vars
        => QueriesDoNotPileUp'
  <2> SUFFICES ASSUME IInv, IInv', QueryStillDue, QueriesDoNotPileUp, [Next]_vars
               PROVE  QueriesDoNotPileUp'
    OBVIOUS
  <2>0. TypeOK /\ TypeOK' /\ cmd \in [Seqs -> Row]
        /\ \A n \in Seqs : cmd[n] \in Row /\ cmd[n].retries \in Nat
    BY DEF IInv, TypeOK, Row
  <2>1. ASSUME NEW s, NEW t, QueuePickup(s, t)
        PROVE  QueriesDoNotPileUp'
    BY <2>0, <2>1, InsertKeepsQueries DEF QueuePickup, Kinds
  <2>2. ASSUME NEW h \in Holders, InsertRow(h)
        PROVE  QueriesDoNotPileUp'
    <3>1. /\ held[h].seq \in Seqs /\ held[h].kind \in Kinds
          /\ Insert(held[h].seq, held[h].kind, held[h].shipment, held[h].truck)
      BY <2>2 DEF InsertRow, IInv, TypeOK, Held
    <3>2. held[h].kind = "query" =>
            ~\E q \in OfKind("query") \cap InFlight : cmd[q].truck = held[h].truck
      BY <2>2 DEF QueryStillDue, Holders, InsertRow
    <3> QED  BY <2>0, <3>1, <3>2, InsertKeepsQueries
  <2>3. ASSUME NEW n \in Seqs, RecordError(n)
        PROVE  QueriesDoNotPileUp'
    <3> DEFINE st == IF cmd[n].retries + 1 <= MaxRetries THEN "pending" ELSE "failed"
    <3>1. cmd' = [cmd EXCEPT ![n] = [cmd[n] EXCEPT !.retries = cmd[n].retries + 1,
                                                   !.status = st]]
      BY <2>0, <2>3 DEF RecordError, Row
    <3> HIDE DEF st
    <3>2. /\ \A m \in Seqs : m # n => cmd'[m] = cmd[m]
          /\ cmd'[n].kind = cmd[n].kind /\ cmd'[n].truck = cmd[n].truck
          /\ cmd'[n].retries = cmd[n].retries + 1
      BY <2>0, <3>1 DEF Row
    <3>3. \A m \in Seqs : m # n => (m \in InFlight' <=> m \in InFlight)
      BY <3>2 DEF InFlight, With
    <3> QED  BY <2>0, <3>2, <3>3, RewriteKeepsQueries
  <2>4. ASSUME NEW n \in Seqs, MarkSent(n)
        PROVE  QueriesDoNotPileUp'
    <3>1. cmd[n].status = "pending"
      BY <2>4 DEF MarkSent, IsFirst, IInv, BatchIsPending
    <3>2. \A m \in Seqs : /\ cmd'[m].kind = cmd[m].kind
                          /\ cmd'[m].truck = cmd[m].truck
                          /\ cmd'[m].retries = cmd[m].retries
                          /\ m # n => cmd'[m] = cmd[m]
      BY <2>0, <2>4 DEF MarkSent, Row
    <3>3. \A m \in Seqs : m \in InFlight' => m \in InFlight
      BY <3>1, <3>2 DEF InFlight, With
    <3> QED  BY <2>0, <3>2, <3>3, RewriteKeepsQueries
  <2>5. ASSUME NEW n \in Seqs, HandleCommandAck(n)
        PROVE  QueriesDoNotPileUp'
    <3>1. \A m \in Seqs : /\ cmd'[m].kind = cmd[m].kind
                          /\ cmd'[m].truck = cmd[m].truck
                          /\ cmd'[m].retries = cmd[m].retries
                          /\ cmd'[m].status \in {cmd[m].status, "acked"}
      <4>1. CASE cmd[n].status = "acked"
        BY <2>5, <4>1 DEF HandleCommandAck
      <4>2. CASE cmd[n].status # "acked"
        <5>1. cmd' = [cmd EXCEPT ![n] = [cmd[n] EXCEPT !.status = "acked"]]
          BY <2>5, <4>2 DEF HandleCommandAck
        <5> QED  BY <2>0, <5>1 DEF Row
      <4> QED  BY <4>1, <4>2
    <3>2. \A m \in Seqs : m \in InFlight' => m \in InFlight
      BY <3>1 DEF InFlight, With
    <3> QED  BY <2>0, <3>1, <3>2, RewriteKeepsQueries
  <2>6. ASSUME \A m \in Seqs :
                 cmd'[m] \in {cmd[m], [cmd[m] EXCEPT !.completed = TRUE]}
        PROVE  QueriesDoNotPileUp'
    <3>1. \A m \in Seqs : /\ cmd'[m].kind = cmd[m].kind
                          /\ cmd'[m].truck = cmd[m].truck
                          /\ cmd'[m].retries = cmd[m].retries
                          /\ cmd'[m].status = cmd[m].status
      BY <2>0, <2>6 DEF Row
    <3>2. \A m \in Seqs : m \in InFlight' => m \in InFlight
      BY <3>1 DEF InFlight, With
    <3> QED  BY <2>0, <3>1, <3>2, RewriteKeepsQueries
  <2>7. CASE cmd' = cmd
    BY <2>7 DEF QueriesDoNotPileUp, OfKind, InFlight, With
  <2>8. CASE Web
    BY <2>1, <2>2, <2>7, <2>8 DEF Web, QueueDelivery, WebDies, Holders
  <2>9. CASE Poll
    BY <2>2, <2>3, <2>4, <2>7, <2>9
    DEF Poll, StartPoll, EndQueries, EndDelivers, LoadBatch, GiveUpPoll,
        EndDispatch, EndPoll, EnqueueQuery, EnqueueDeliver, RequeueStale, Send,
        RejectLocally, Holders
  <2>10. CASE World
    <3>1. ASSUME NEW n \in Seqs, HandleCompletion(n)
          PROVE  QueriesDoNotPileUp'
      BY <2>0, <2>6, <3>1 DEF HandleCompletion
    <3>2. ASSUME NEW s \in Shipments, HandleDelivered(s)
          PROVE  QueriesDoNotPileUp'
      BY <2>0, <2>6, <3>2 DEF HandleDelivered
    <3>3. ASSUME NEW t \in Trucks, NEW n \in Seqs, HandleTruckArrived(t, n)
          PROVE  QueriesDoNotPileUp'
      BY <2>0, <2>6, <3>3 DEF HandleTruckArrived
    <3> QED  BY <2>3, <2>5, <2>10, <3>1, <3>2, <3>3 DEF World, HandleError
  <2> QED  BY <2>7, <2>8, <2>9, <2>10 DEF Next, Crash, Restart, vars
<1> QED  BY <1>1, <1>2, Inductive, StaysDue, PTL DEF Spec
=============================================================================
