-------------------------- MODULE DBJobQueueProofs --------------------------
(***************************************************************************)
(* Theorems about DBJobQueue, for any sets of jobs, types, tokens, results *)
(* and dequeuers, any size of the pool and any combination of faults.      *)
(***************************************************************************)
EXTENDS DBJobQueue, FiniteSetTheorems, TLAPS

-----------------------------------------------------------------------------
(***************************************************************************)
(* The inductive invariant.                                                *)
(***************************************************************************)
Polling == {d \in Dequeuers : call[d] # Idle}

\* Only so many calls and transactions are open as there are connections.
PoolIsFinite == IsFiniteSet(Polling) /\ IsFiniteSet(enqueuing)

\* The rows that an open Enqueue refers to are locked, and rows are never
\* deleted; the id it inserts is its own.
InsertsAreNew ==
    \A e \in enqueuing :
        /\ e.id \notin DOMAIN table
        /\ e.deps \subseteq DOMAIN table
        /\ \A f \in enqueuing : f.id = e.id => f = e

\* A call of Dequeue has a token from the time it has started a job.
StartedHasToken == \A d \in Dequeuers : call[d].at = "started" <=> call[d].token # Nil

\* uuid.New() does not repeat itself: a token is in one row.
TokensUnique ==
    \A j, k \in DOMAIN table : table[j].Token # Nil /\ table[j].Token = table[k].Token => j = k

IInv ==
    /\ TypeOK
    /\ PoolIsFinite
    /\ InsertsAreNew
    /\ StartedHasToken
    /\ TokensUnique
    /\ RunningIsWatched

-----------------------------------------------------------------------------
(***************************************************************************)
(* What the actions do to the pool.                                        *)
(***************************************************************************)
LEMMA PoolGrows ==
    ASSUME NEW S, NEW x, IsFiniteSet(S)
    PROVE  /\ IsFiniteSet(S \cup {x})
           /\ Cardinality(S \cup {x}) <= Cardinality(S) + 1
           /\ Cardinality(S) \in Nat /\ Cardinality(S \cup {x}) \in Nat
<1>1. IsFiniteSet(S \cup {x}) /\ Cardinality(S) \in Nat
  BY FS_AddElement, FS_CardinalityType
<1>2. Cardinality(S \cup {x}) = IF x \in S THEN Cardinality(S) ELSE Cardinality(S) + 1
  BY FS_AddElement
<1> QED BY <1>1, <1>2

LEMMA PoolShrinks ==
    ASSUME NEW S, NEW T, IsFiniteSet(S), T \subseteq S
    PROVE  /\ IsFiniteSet(T)
           /\ Cardinality(T) <= Cardinality(S)
           /\ Cardinality(S) \in Nat /\ Cardinality(T) \in Nat
  BY FS_Subset, FS_CardinalityType

\* A step that takes no connection leaves the pool in bounds.
LEMMA PoolKept ==
    ASSUME TypeOK, PoolIsFinite, Polling' \subseteq Polling, enqueuing' \subseteq enqueuing
    PROVE  PoolIsFinite' /\ (Used <= MaxConns)'
<1>1. /\ IsFiniteSet(Polling') /\ IsFiniteSet(enqueuing')
      /\ Cardinality(Polling') <= Cardinality(Polling)
      /\ Cardinality(enqueuing') <= Cardinality(enqueuing)
      /\ Cardinality(Polling) \in Nat /\ Cardinality(Polling') \in Nat
      /\ Cardinality(enqueuing) \in Nat /\ Cardinality(enqueuing') \in Nat
  BY PoolShrinks DEF PoolIsFinite
<1>2. Cardinality(Polling) + Cardinality(enqueuing) <= MaxConns
  BY DEF TypeOK, Used, Polling
<1>3. Cardinality(Polling') + Cardinality(enqueuing') <= MaxConns
  BY <1>1, <1>2, DBAssumption
<1> QED BY <1>1, <1>3 DEF PoolIsFinite, Used, Polling

\* So does one that takes a single connection, if there is one.
LEMMA PoolTaken ==
    ASSUME TypeOK, PoolIsFinite, Acquires,
           \/ enqueuing' = enqueuing /\ \E d : Polling' \subseteq Polling \cup {d}
           \/ Polling' = Polling /\ \E e : enqueuing' = enqueuing \cup {e}
    PROVE  PoolIsFinite' /\ (Used <= MaxConns)'
<1>1. Cardinality(Polling) + Cardinality(enqueuing) < MaxConns
  BY DEF Acquires, Used, Polling
<1>2. /\ Cardinality(Polling) \in Nat /\ Cardinality(enqueuing) \in Nat
      /\ IsFiniteSet(Polling) /\ IsFiniteSet(enqueuing)
  BY FS_CardinalityType DEF PoolIsFinite
<1>3. CASE enqueuing' = enqueuing /\ \E d : Polling' \subseteq Polling \cup {d}
  <2>1. PICK d : Polling' \subseteq Polling \cup {d}
    BY <1>3
  <2>2. /\ IsFiniteSet(Polling \cup {d}) /\ Cardinality(Polling \cup {d}) <= Cardinality(Polling) + 1
        /\ Cardinality(Polling \cup {d}) \in Nat
    BY <1>2, PoolGrows
  <2>3. /\ IsFiniteSet(Polling') /\ Cardinality(Polling') <= Cardinality(Polling \cup {d})
        /\ Cardinality(Polling') \in Nat
    BY <2>1, <2>2, PoolShrinks
  <2>4. Cardinality(Polling') + Cardinality(enqueuing') <= MaxConns
    BY <1>1, <1>2, <1>3, <2>2, <2>3, DBAssumption
  <2> QED BY <1>2, <1>3, <2>3, <2>4 DEF PoolIsFinite, Used, Polling
<1>4. CASE Polling' = Polling /\ \E e : enqueuing' = enqueuing \cup {e}
  <2>1. PICK e : enqueuing' = enqueuing \cup {e}
    BY <1>4
  <2>2. /\ IsFiniteSet(enqueuing') /\ Cardinality(enqueuing') <= Cardinality(enqueuing) + 1
        /\ Cardinality(enqueuing') \in Nat
    BY <1>2, <2>1, PoolGrows
  <2>3. Cardinality(Polling') + Cardinality(enqueuing') <= MaxConns
    BY <1>1, <1>2, <1>4, <2>2, DBAssumption
  <2> QED BY <1>2, <1>4, <2>2, <2>3 DEF PoolIsFinite, Used, Polling
<1> QED BY <1>3, <1>4

-----------------------------------------------------------------------------
(***************************************************************************)
(* What the actions do to the rows.                                        *)
(***************************************************************************)
LEMMA RowType ==
    ASSUME NEW type \in Types, NEW deps \in SUBSET Jobs
    PROVE  NewRow(type, deps) \in Row
  BY DEF NewRow, Row

LEMMA CommittedTable ==
    ASSUME IInv, NEW e \in enqueuing, EnqueueCommit(e)
    PROVE  /\ e.id \in Jobs /\ e.type \in Types /\ e.deps \in SUBSET Jobs
           /\ e.id \notin DOMAIN table
           /\ e.deps \subseteq DOMAIN table
           /\ DOMAIN table' = DOMAIN table \cup {e.id}
           /\ table'[e.id] = NewRow(e.type, e.deps)
           /\ \A k \in DOMAIN table : table'[k] = table[k]
           /\ \A k \in DOMAIN table' : table'[k] \in Row
           /\ table' \in [DOMAIN table' -> Row]
<1>1. /\ e.id \in Jobs /\ e.type \in Types /\ e.deps \in SUBSET Jobs
      /\ e.id \notin DOMAIN table /\ e.deps \subseteq DOMAIN table
  BY DEF IInv, TypeOK, Insert, InsertsAreNew
<1>2. table' = [j \in DOMAIN table \cup {e.id} |->
                  IF j = e.id THEN NewRow(e.type, e.deps) ELSE table[j]]
  BY DEF EnqueueCommit
<1>3. \A k \in DOMAIN table : table[k] \in Row
  BY DEF IInv, TypeOK
<1>4. NewRow(e.type, e.deps) \in Row
  BY <1>1, RowType
<1> QED BY <1>1, <1>2, <1>3, <1>4

\* The rows after a step that changes the one of job j to row.
Changes(j, row) ==
    /\ j \in DOMAIN table
    /\ row \in Row
    /\ DOMAIN table' = DOMAIN table
    /\ table'[j] = row
    /\ \A k \in DOMAIN table : k # j => table'[k] = table[k]
    /\ table' \in [DOMAIN table' -> Row]

StartedRow(row, token) == [row EXCEPT !.started_at = TRUE, !.Token = token]
FinishedRow(row, result) == [row EXCEPT !.finished_at = TRUE, !.Result = result]
CanceledRow(row) == [row EXCEPT !.canceled = TRUE]

LEMMA StartedRowFields ==
    ASSUME NEW row \in Row, NEW token \in Tokens
    PROVE  /\ StartedRow(row, token) \in Row
           /\ StartedRow(row, token).started_at
           /\ StartedRow(row, token).Token = token
           /\ StartedRow(row, token).Type = row.Type
           /\ StartedRow(row, token).Result = row.Result
           /\ StartedRow(row, token).canceled = row.canceled
           /\ StartedRow(row, token).finished_at = row.finished_at
           /\ StartedRow(row, token).Dependencies = row.Dependencies
  BY DEF StartedRow, Row

LEMMA FinishedRowFields ==
    ASSUME NEW row \in Row, NEW result \in Results
    PROVE  /\ FinishedRow(row, result) \in Row
           /\ FinishedRow(row, result).finished_at
           /\ FinishedRow(row, result).Result = result
           /\ FinishedRow(row, result).Type = row.Type
           /\ FinishedRow(row, result).started_at = row.started_at
           /\ FinishedRow(row, result).canceled = row.canceled
           /\ FinishedRow(row, result).Token = row.Token
           /\ FinishedRow(row, result).Dependencies = row.Dependencies
  BY DEF FinishedRow, Row

LEMMA CanceledRowFields ==
    ASSUME NEW row \in Row
    PROVE  /\ CanceledRow(row) \in Row
           /\ CanceledRow(row).canceled
           /\ CanceledRow(row).Type = row.Type
           /\ CanceledRow(row).Result = row.Result
           /\ CanceledRow(row).started_at = row.started_at
           /\ CanceledRow(row).finished_at = row.finished_at
           /\ CanceledRow(row).Token = row.Token
           /\ CanceledRow(row).Dependencies = row.Dependencies
  BY DEF CanceledRow, Row

LEMMA ReplaceRow ==
    ASSUME TypeOK, NEW j \in DOMAIN table, NEW row \in Row, table' = [table EXCEPT ![j] = row]
    PROVE  Changes(j, row)
  BY DEF TypeOK, Changes

LEMMA StartChanges ==
    ASSUME TypeOK, NEW d \in Dequeuers, NEW j \in Jobs, NEW token \in Tokens, DequeueStart(d, j, token)
    PROVE  /\ Changes(j, StartedRow(table[j], token))
           /\ table[j] \in Row
           /\ ~table[j].started_at /\ ~table[j].canceled /\ ~table[j].finished_at
           /\ \A x \in table[j].Dependencies : x \in DOMAIN table /\ table[x].finished_at
           /\ \A x \in DOMAIN table : table[x].Token # token
           /\ token # Nil
<1>1. /\ j \in DOMAIN table /\ ~table[j].started_at /\ ~table[j].canceled
      /\ \A x \in table[j].Dependencies : table[x].finished_at
      /\ \A x \in DOMAIN table : table[x].Token # token
  BY DEF DequeueStart, Available, ready_jobs
<1>2. /\ table[j] \in Row /\ ~table[j].finished_at
      /\ \A x \in table[j].Dependencies : x \in DOMAIN table
  BY <1>1 DEF TypeOK
<1>3. table' = [table EXCEPT ![j] = StartedRow(table[j], token)]
  BY <1>1, <1>2 DEF DequeueStart, StartedRow, TypeOK
<1>4. StartedRow(table[j], token) \in Row
  BY <1>2, StartedRowFields
<1> QED BY <1>1, <1>2, <1>3, <1>4, ReplaceRow, DBAssumption

LEMMA FinishChanges ==
    ASSUME TypeOK, NEW j \in Jobs, NEW result \in Results, FinishJob(j, result)
    PROVE  /\ Changes(j, FinishedRow(table[j], result))
           /\ table[j] \in Row
           /\ table[j].Token \in Tokens
           /\ table[j].started_at /\ ~table[j].canceled /\ ~table[j].finished_at
<1>1. /\ j \in DOMAIN table /\ table[j].Token # Nil
      /\ ~table[j].canceled /\ ~table[j].finished_at
  BY DEF FinishJob, Finishable
<1>2. table[j] \in Row /\ table[j].started_at
  BY <1>1 DEF TypeOK
<1>3. table' = [table EXCEPT ![j] = FinishedRow(table[j], result)]
  BY <1>1, <1>2 DEF FinishJob, FinishedRow, TypeOK
<1>4. FinishedRow(table[j], result) \in Row /\ table[j].Token \in Tokens
  BY <1>1, <1>2, FinishedRowFields DEF Row
<1> QED BY <1>1, <1>2, <1>3, <1>4, ReplaceRow

LEMMA CancelChanges ==
    ASSUME TypeOK, NEW j \in Jobs, CancelJob(j)
    PROVE  /\ Changes(j, CanceledRow(table[j]))
           /\ table[j] \in Row
           /\ ~table[j].finished_at
<1>1. j \in DOMAIN table /\ ~table[j].finished_at
  BY DEF CancelJob
<1>2. table[j] \in Row
  BY <1>1 DEF TypeOK
<1>3. table' = [table EXCEPT ![j] = CanceledRow(table[j])]
  BY <1>1, <1>2 DEF CancelJob, CanceledRow, TypeOK
<1>4. CanceledRow(table[j]) \in Row
  BY <1>2, CanceledRowFields
<1> QED BY <1>1, <1>2, <1>3, <1>4, ReplaceRow

-----------------------------------------------------------------------------
LEMMA Initially == Init => IInv
<1> SUFFICES ASSUME Init PROVE IInv
  OBVIOUS
<1>1. /\ DOMAIN table = {} /\ enqueuing = {} /\ Polling = {}
      /\ call = [d \in Dequeuers |-> [at |-> "idle", token |-> Nil]]
  BY DEF Init, Polling, Idle, At
<1>2. PoolIsFinite /\ Cardinality(Polling) = 0 /\ Cardinality(enqueuing) = 0
  BY <1>1, FS_EmptySet DEF PoolIsFinite
<1>3. Used <= MaxConns
  BY <1>2, DBAssumption DEF Used, Polling
<1>4. call \in [Dequeuers -> [at : {"idle", "listening", "waiting", "misled", "started"}, token : Tokens \cup {Nil}]]
  BY <1>1
<1>5. TypeOK
  BY <1>1, <1>3, <1>4 DEF Init, TypeOK
<1>6. InsertsAreNew /\ StartedHasToken /\ TokensUnique /\ RunningIsWatched
  BY <1>1 DEF InsertsAreNew, StartedHasToken, TokensUnique, RunningIsWatched
<1> QED BY <1>2, <1>5, <1>6 DEF IInv

(***************************************************************************)
(* The steps of Dequeue, other than the ones that start a job or insert    *)
(* its heartbeat.                                                          *)
(***************************************************************************)
LEMMA CallMoves ==
    ASSUME IInv, NEW d \in Dequeuers, NEW c,
           c = At("listening") \/ c = At("waiting") \/ c = At("misled") \/ c = Idle,
           call' = [call EXCEPT ![d] = c],
           table' = table, enqueuing' = enqueuing, heartbeats' = heartbeats,
           notified' \subseteq notified,
           \/ Acquires
           \/ c = Idle
           \/ call[d] # Idle,
           rolledBack' = rolledBack,
           cutOff' \subseteq Tokens,
           cutOff \subseteq cutOff',
           call[d].token # Nil => call[d].token \in cutOff'
    PROVE  IInv'
<1>1. /\ call \in [Dequeuers -> [at : {"idle", "listening", "waiting", "misled", "started"}, token : Tokens \cup {Nil}]]
      /\ c \in [at : {"idle", "listening", "waiting", "misled", "started"}, token : Tokens \cup {Nil}]
      /\ c.token = Nil /\ c.at # "started"
  BY DEF IInv, TypeOK, At, Idle
<1>2. /\ call' \in [Dequeuers -> [at : {"idle", "listening", "waiting", "misled", "started"}, token : Tokens \cup {Nil}]]
      /\ call'[d] = c
      /\ \A x \in Dequeuers : x # d => call'[x] = call[x]
  BY <1>1
<1>3. Polling' \subseteq Polling \cup {d}
  BY <1>2 DEF Polling
<1>4. call[d] # Idle \/ c = Idle => Polling' \subseteq Polling
  BY <1>2 DEF Polling
<1>5. PoolIsFinite' /\ (Used <= MaxConns)'
  <2>1. CASE Acquires
    BY <1>3, <2>1, PoolTaken DEF IInv
  <2>2. CASE c = Idle \/ call[d] # Idle
    BY <1>4, <2>2, PoolKept DEF IInv
  <2> QED BY <2>1, <2>2
<1>6. TypeOK'
  BY <1>2, <1>5 DEF IInv, TypeOK
<1>7. InsertsAreNew' /\ TokensUnique'
  BY DEF IInv, InsertsAreNew, TokensUnique
<1>8. StartedHasToken'
  BY <1>1, <1>2 DEF IInv, StartedHasToken
<1>9. RunningIsWatched'
  <2> SUFFICES ASSUME NEW j \in DOMAIN table, Running(j)
               PROVE  \/ heartbeats[table[j].Token] # "none"
                      \/ \E x \in Dequeuers : call'[x].token = table[j].Token
                      \/ table[j].Token \in cutOff'
    BY DEF RunningIsWatched, Running
  <2>1. \/ heartbeats[table[j].Token] # "none"
        \/ \E x \in Dequeuers : call[x].token = table[j].Token
        \/ table[j].Token \in cutOff
    BY DEF IInv, RunningIsWatched
  <2>2. table[j].Token # Nil
    BY DEF IInv, TypeOK, Running
  <2> QED BY <1>2, <2>1, <2>2
<1> QED BY <1>5, <1>6, <1>7, <1>8, <1>9 DEF IInv

LEMMA BeginKeeps ==
    ASSUME IInv, NEW id \in Jobs, NEW type \in Types, NEW deps \in SUBSET DOMAIN table,
           EnqueueBegin(id, type, deps)
    PROVE  IInv'
<1> DEFINE e == [id |-> id, type |-> type, deps |-> deps]
<1>1. /\ Acquires /\ id \notin DOMAIN table /\ \A f \in enqueuing : f.id # id
      /\ enqueuing' = enqueuing \cup {e}
      /\ table' = table /\ heartbeats' = heartbeats /\ call' = call /\ notified' = notified
      /\ rolledBack' = rolledBack /\ cutOff' = cutOff
  BY DEF EnqueueBegin, history
<1>2. e \in Insert /\ e.id = id /\ e.deps = deps
  BY DEF Insert, IInv, TypeOK
<1> HIDE DEF e
<1>3. PoolIsFinite' /\ (Used <= MaxConns)'
  <2>1. Polling' = Polling
    BY <1>1 DEF Polling
  <2> QED BY <1>1, <2>1, PoolTaken DEF IInv
<1>4. TypeOK'
  BY <1>1, <1>2, <1>3 DEF IInv, TypeOK
<1>5. InsertsAreNew'
  BY <1>1, <1>2 DEF IInv, InsertsAreNew
<1>6. StartedHasToken' /\ TokensUnique'
  BY <1>1 DEF IInv, StartedHasToken, TokensUnique
<1>7. RunningIsWatched'
  BY <1>1 DEF IInv, RunningIsWatched, Running
<1> QED BY <1>3, <1>4, <1>5, <1>6, <1>7 DEF IInv

LEMMA CommitKeeps ==
    ASSUME IInv, NEW e \in enqueuing, EnqueueCommit(e)
    PROVE  IInv'
<1>1. /\ enqueuing' = enqueuing \ {e}
      /\ heartbeats' = heartbeats /\ call' = call
      /\ rolledBack' = rolledBack /\ cutOff' = cutOff
      /\ notified' \subseteq notified \cup Dequeuers
  BY DEF EnqueueCommit, history, Notify
<1>2. /\ e.id \in Jobs /\ e.id \notin DOMAIN table /\ e.deps \subseteq DOMAIN table
      /\ DOMAIN table' = DOMAIN table \cup {e.id}
      /\ table'[e.id] = NewRow(e.type, e.deps)
      /\ \A k \in DOMAIN table : table'[k] = table[k]
      /\ table' \in [DOMAIN table' -> Row]
  BY CommittedTable
<1>3. /\ table'[e.id].Token = Nil /\ ~table'[e.id].started_at /\ ~table'[e.id].finished_at
      /\ table'[e.id].Dependencies = e.deps
  BY <1>2 DEF NewRow
<1>4. PoolIsFinite' /\ (Used <= MaxConns)'
  <2>1. Polling' = Polling
    BY <1>1 DEF Polling
  <2> QED BY <1>1, <2>1, PoolKept DEF IInv
<1>5. TypeOK'
  <2>1. \A j \in DOMAIN table' :
          /\ table'[j].finished_at => table'[j].started_at /\ ~table'[j].canceled
          /\ table'[j].started_at <=> table'[j].Token # Nil
          /\ table'[j].Dependencies \subseteq DOMAIN table'
    BY <1>2, <1>3 DEF IInv, TypeOK
  <2>2. DOMAIN table' \subseteq Jobs
    BY <1>2 DEF IInv, TypeOK
  <2> QED BY <1>1, <1>2, <1>4, <2>1, <2>2 DEF IInv, TypeOK
<1>6. InsertsAreNew'
  BY <1>1, <1>2 DEF IInv, InsertsAreNew
<1>7. StartedHasToken'
  BY <1>1 DEF IInv, StartedHasToken
<1>8. TokensUnique'
  BY <1>2, <1>3 DEF IInv, TokensUnique
<1>9. RunningIsWatched'
  <2> SUFFICES ASSUME NEW j \in DOMAIN table', Running(j)'
               PROVE  \/ heartbeats[table'[j].Token] # "none"
                      \/ \E x \in Dequeuers : call[x].token = table'[j].Token
                      \/ table'[j].Token \in cutOff
    BY <1>1 DEF RunningIsWatched
  <2>1. j \in DOMAIN table /\ Running(j)
    BY <1>2, <1>3 DEF Running
  <2> QED BY <1>2, <2>1 DEF IInv, RunningIsWatched
<1> QED BY <1>4, <1>5, <1>6, <1>7, <1>8, <1>9 DEF IInv

LEMMA RollbackKeeps ==
    ASSUME IInv, NEW e \in enqueuing, EnqueueRollback(e)
    PROVE  IInv'
<1>1. /\ enqueuing' = enqueuing \ {e} /\ rolledBack' \in BOOLEAN
      /\ table' = table /\ heartbeats' = heartbeats /\ call' = call /\ notified' = notified
      /\ cutOff' = cutOff
  BY DEF EnqueueRollback
<1>2. PoolIsFinite' /\ (Used <= MaxConns)'
  <2>1. Polling' = Polling
    BY <1>1 DEF Polling
  <2> QED BY <1>1, <2>1, PoolKept DEF IInv
<1>3. TypeOK'
  BY <1>1, <1>2 DEF IInv, TypeOK
<1>4. InsertsAreNew' /\ StartedHasToken' /\ TokensUnique'
  BY <1>1 DEF IInv, InsertsAreNew, StartedHasToken, TokensUnique
<1>5. RunningIsWatched'
  BY <1>1 DEF IInv, RunningIsWatched, Running
<1> QED BY <1>2, <1>3, <1>4, <1>5 DEF IInv

(***************************************************************************)
(* Starting a job and inserting its heartbeat.                             *)
(***************************************************************************)
LEMMA StartKeeps ==
    ASSUME IInv, NEW d \in Dequeuers, NEW j \in Jobs, NEW token \in Tokens, DequeueStart(d, j, token)
    PROVE  IInv'
<1>1. /\ heartbeats' = heartbeats /\ enqueuing' = enqueuing /\ notified' = notified
      /\ rolledBack' = rolledBack /\ cutOff' = cutOff
      /\ call[d] = [at |-> "listening", token |-> Nil]
      /\ call' = [call EXCEPT ![d] = [at |-> "started", token |-> token]]
  BY DEF DequeueStart, history, At
<1>2. /\ Changes(j, StartedRow(table[j], token)) /\ table[j] \in Row
      /\ ~table[j].canceled /\ ~table[j].finished_at
      /\ \A x \in DOMAIN table : table[x].Token # token
      /\ token # Nil
  BY StartChanges DEF IInv
<1>3. /\ j \in DOMAIN table /\ DOMAIN table' = DOMAIN table
      /\ table'[j].started_at /\ table'[j].Token = token
      /\ ~table'[j].canceled /\ ~table'[j].finished_at
      /\ table'[j].Dependencies = table[j].Dependencies
      /\ \A k \in DOMAIN table : k # j => table'[k] = table[k]
      /\ table' \in [DOMAIN table' -> Row]
  BY <1>2, StartedRowFields DEF Changes
<1>4. /\ call' \in [Dequeuers -> [at : {"idle", "listening", "waiting", "misled", "started"}, token : Tokens \cup {Nil}]]
      /\ call'[d].at = "started" /\ call'[d].token = token
      /\ \A x \in Dequeuers : x # d => call'[x] = call[x]
  BY <1>1 DEF IInv, TypeOK
<1>5. PoolIsFinite' /\ (Used <= MaxConns)'
  <2>1. call[d] # Idle
    BY <1>1 DEF Idle, At
  <2>2. Polling' \subseteq Polling
    BY <1>4, <2>1 DEF Polling
  <2> QED BY <1>1, <2>2, PoolKept DEF IInv
<1>6. TypeOK'
  <2>1. \A k \in DOMAIN table' :
          /\ table'[k].finished_at => table'[k].started_at /\ ~table'[k].canceled
          /\ table'[k].started_at <=> table'[k].Token # Nil
          /\ table'[k].Dependencies \subseteq DOMAIN table'
    BY <1>2, <1>3 DEF IInv, TypeOK
  <2> QED BY <1>1, <1>3, <1>4, <1>5, <2>1 DEF IInv, TypeOK
<1>7. InsertsAreNew'
  BY <1>1, <1>3 DEF IInv, InsertsAreNew
<1>8. StartedHasToken'
  BY <1>2, <1>4 DEF IInv, StartedHasToken
<1>9. TokensUnique'
  BY <1>2, <1>3 DEF IInv, TokensUnique
<1>10. RunningIsWatched'
  <2> SUFFICES ASSUME NEW k \in DOMAIN table', Running(k)'
               PROVE  \/ heartbeats[table'[k].Token] # "none"
                      \/ \E x \in Dequeuers : call'[x].token = table'[k].Token
                      \/ table'[k].Token \in cutOff
    BY <1>1 DEF RunningIsWatched
  <2>1. CASE k = j
    BY <1>3, <1>4, <2>1
  <2>2. CASE k # j
    <3>1. k \in DOMAIN table /\ table'[k] = table[k] /\ Running(k) /\ table[k].Token # Nil
      BY <1>3, <2>2 DEF Running, IInv, TypeOK
    <3>2. call[d].token # table[k].Token
      BY <1>1, <3>1
    <3> QED BY <1>4, <3>1, <3>2 DEF IInv, RunningIsWatched
  <2> QED BY <2>1, <2>2
<1> QED BY <1>5, <1>6, <1>7, <1>8, <1>9, <1>10 DEF IInv

LEMMA InsertKeeps ==
    ASSUME IInv, NEW d \in Dequeuers, InsertHeartbeat(d)
    PROVE  IInv'
<1>1. /\ call[d].at = "started"
      /\ heartbeats' = [heartbeats EXCEPT ![call[d].token] = "fresh"]
      /\ call' = [call EXCEPT ![d] = [at |-> "idle", token |-> Nil]]
      /\ table' = table /\ enqueuing' = enqueuing /\ notified' = notified
      /\ rolledBack' = rolledBack /\ cutOff' = cutOff
  BY DEF InsertHeartbeat, history, Idle, At
<1>2. /\ call[d].token \in Tokens
      /\ heartbeats' \in [Tokens -> {"none", "fresh", "old"}]
      /\ heartbeats'[call[d].token] = "fresh"
      /\ \A t \in Tokens : t # call[d].token => heartbeats'[t] = heartbeats[t]
      /\ call' \in [Dequeuers -> [at : {"idle", "listening", "waiting", "misled", "started"}, token : Tokens \cup {Nil}]]
      /\ call'[d] = [at |-> "idle", token |-> Nil]
      /\ \A x \in Dequeuers : x # d => call'[x] = call[x]
  BY <1>1 DEF IInv, TypeOK, StartedHasToken
<1>3. PoolIsFinite' /\ (Used <= MaxConns)'
  <2>1. Polling' \subseteq Polling
    BY <1>2 DEF Polling, Idle, At
  <2> QED BY <1>1, <2>1, PoolKept DEF IInv
<1>4. TypeOK'
  BY <1>1, <1>2, <1>3 DEF IInv, TypeOK
<1>5. InsertsAreNew' /\ TokensUnique'
  BY <1>1 DEF IInv, InsertsAreNew, TokensUnique
<1>6. StartedHasToken'
  BY <1>2 DEF IInv, StartedHasToken
<1>7. RunningIsWatched'
  <2> SUFFICES ASSUME NEW j \in DOMAIN table, Running(j)
               PROVE  \/ heartbeats'[table[j].Token] # "none"
                      \/ \E x \in Dequeuers : call'[x].token = table[j].Token
                      \/ table[j].Token \in cutOff
    BY <1>1 DEF RunningIsWatched, Running
  <2>1. table[j].Token \in Tokens
    BY DEF Running, IInv, TypeOK, Row
  <2> QED BY <1>2, <2>1 DEF IInv, RunningIsWatched
<1> QED BY <1>3, <1>4, <1>5, <1>6, <1>7 DEF IInv

(***************************************************************************)
(* The end of a job.                                                       *)
(***************************************************************************)
LEMMA FinishKeeps ==
    ASSUME IInv, NEW j \in Jobs, NEW result \in Results, FinishJob(j, result)
    PROVE  IInv'
<1>1. /\ enqueuing' = enqueuing /\ call' = call
      /\ rolledBack' = rolledBack /\ cutOff' = cutOff
      /\ notified' \subseteq notified \cup Dequeuers
      /\ heartbeats' = [t \in Tokens |-> IF t = table[j].Token THEN "none" ELSE heartbeats[t]]
  BY DEF FinishJob, history, Notify
<1>2. /\ Changes(j, FinishedRow(table[j], result)) /\ table[j] \in Row
      /\ table[j].Token \in Tokens
      /\ table[j].started_at /\ ~table[j].canceled
  BY FinishChanges DEF IInv
<1>3. /\ j \in DOMAIN table /\ DOMAIN table' = DOMAIN table
      /\ table'[j].started_at /\ table'[j].Token = table[j].Token
      /\ ~table'[j].canceled /\ table'[j].finished_at
      /\ table'[j].Dependencies = table[j].Dependencies
      /\ \A k \in DOMAIN table : k # j => table'[k] = table[k]
      /\ table' \in [DOMAIN table' -> Row]
  BY <1>2, FinishedRowFields DEF Changes
<1>4. PoolIsFinite' /\ (Used <= MaxConns)'
  <2>1. Polling' = Polling
    BY <1>1 DEF Polling
  <2> QED BY <1>1, <2>1, PoolKept DEF IInv
<1>5. TypeOK'
  <2>1. \A k \in DOMAIN table' :
          /\ table'[k].finished_at => table'[k].started_at /\ ~table'[k].canceled
          /\ table'[k].started_at <=> table'[k].Token # Nil
          /\ table'[k].Dependencies \subseteq DOMAIN table'
    BY <1>2, <1>3 DEF IInv, TypeOK
  <2>2. heartbeats' \in [Tokens -> {"none", "fresh", "old"}]
    BY <1>1 DEF IInv, TypeOK
  <2> QED BY <1>1, <1>3, <1>4, <2>1, <2>2 DEF IInv, TypeOK
<1>6. InsertsAreNew'
  BY <1>1, <1>3 DEF IInv, InsertsAreNew
<1>7. StartedHasToken'
  BY <1>1 DEF IInv, StartedHasToken
<1>8. TokensUnique'
  BY <1>3 DEF IInv, TokensUnique
<1>9. RunningIsWatched'
  <2> SUFFICES ASSUME NEW k \in DOMAIN table', Running(k)'
               PROVE  \/ heartbeats'[table'[k].Token] # "none"
                      \/ \E x \in Dequeuers : call[x].token = table'[k].Token
                      \/ table'[k].Token \in cutOff
    BY <1>1 DEF RunningIsWatched
  <2>1. k # j /\ k \in DOMAIN table /\ table'[k] = table[k] /\ Running(k)
    BY <1>3 DEF Running
  <2>2. table[k].Token \in Tokens
    BY <2>1 DEF Running, IInv, TypeOK, Row
  <2>3. table[k].Token # table[j].Token
    BY <1>3, <2>1, <2>2, DBAssumption DEF IInv, TokensUnique
  <2>4. heartbeats'[table[k].Token] = heartbeats[table[k].Token]
    BY <1>1, <2>2, <2>3
  <2> QED BY <2>1, <2>4 DEF IInv, RunningIsWatched
<1> QED BY <1>4, <1>5, <1>6, <1>7, <1>8, <1>9 DEF IInv

LEMMA CancelKeeps ==
    ASSUME IInv, NEW j \in Jobs, CancelJob(j)
    PROVE  IInv'
<1>1. /\ enqueuing' = enqueuing /\ call' = call /\ notified' = notified
      /\ rolledBack' = rolledBack /\ cutOff' = cutOff /\ heartbeats' = heartbeats
  BY DEF CancelJob, history
<1>2. /\ Changes(j, CanceledRow(table[j])) /\ table[j] \in Row /\ ~table[j].finished_at
  BY CancelChanges DEF IInv
<1>3. /\ j \in DOMAIN table /\ DOMAIN table' = DOMAIN table
      /\ table'[j].started_at = table[j].started_at /\ table'[j].Token = table[j].Token
      /\ table'[j].canceled /\ ~table'[j].finished_at
      /\ table'[j].Dependencies = table[j].Dependencies
      /\ \A k \in DOMAIN table : k # j => table'[k] = table[k]
      /\ table' \in [DOMAIN table' -> Row]
  BY <1>2, CanceledRowFields DEF Changes
<1>4. PoolIsFinite' /\ (Used <= MaxConns)'
  <2>1. Polling' = Polling
    BY <1>1 DEF Polling
  <2> QED BY <1>1, <2>1, PoolKept DEF IInv
<1>5. TypeOK'
  <2>1. \A k \in DOMAIN table' :
          /\ table'[k].finished_at => table'[k].started_at /\ ~table'[k].canceled
          /\ table'[k].started_at <=> table'[k].Token # Nil
          /\ table'[k].Dependencies \subseteq DOMAIN table'
    BY <1>2, <1>3 DEF IInv, TypeOK
  <2> QED BY <1>1, <1>3, <1>4, <2>1 DEF IInv, TypeOK
<1>6. InsertsAreNew'
  BY <1>1, <1>3 DEF IInv, InsertsAreNew
<1>7. StartedHasToken'
  BY <1>1 DEF IInv, StartedHasToken
<1>8. TokensUnique'
  BY <1>3 DEF IInv, TokensUnique
<1>9. RunningIsWatched'
  <2> SUFFICES ASSUME NEW k \in DOMAIN table', Running(k)'
               PROVE  \/ heartbeats[table'[k].Token] # "none"
                      \/ \E x \in Dequeuers : call[x].token = table'[k].Token
                      \/ table'[k].Token \in cutOff
    BY <1>1 DEF RunningIsWatched
  <2>1. k # j /\ k \in DOMAIN table /\ table'[k] = table[k] /\ Running(k)
    BY <1>3 DEF Running
  <2> QED BY <2>1 DEF IInv, RunningIsWatched
<1> QED BY <1>4, <1>5, <1>6, <1>7, <1>8, <1>9 DEF IInv

-----------------------------------------------------------------------------
(***************************************************************************)
(* Heartbeats that are refreshed or grow old, and a stop of composer.      *)
(***************************************************************************)
LEMMA BeatKeeps ==
    ASSUME IInv, NEW token \in Tokens, RefreshHeartbeat(token) \/ Age(token)
    PROVE  IInv'
<1>1. /\ heartbeats[token] # "none"
      /\ \/ heartbeats' = [heartbeats EXCEPT ![token] = "fresh"]
         \/ heartbeats' = [heartbeats EXCEPT ![token] = "old"]
      /\ table' = table /\ enqueuing' = enqueuing /\ call' = call /\ notified' = notified
      /\ rolledBack' = rolledBack /\ cutOff' = cutOff
  BY DEF RefreshHeartbeat, Age, history
<1>2. /\ heartbeats' \in [Tokens -> {"none", "fresh", "old"}]
      /\ \A t \in Tokens : heartbeats[t] # "none" => heartbeats'[t] # "none"
  BY <1>1 DEF IInv, TypeOK
<1>3. PoolIsFinite' /\ (Used <= MaxConns)'
  <2>1. Polling' = Polling
    BY <1>1 DEF Polling
  <2> QED BY <1>1, <2>1, PoolKept DEF IInv
<1>4. TypeOK'
  BY <1>1, <1>2, <1>3 DEF IInv, TypeOK
<1>5. InsertsAreNew' /\ StartedHasToken' /\ TokensUnique'
  BY <1>1 DEF IInv, InsertsAreNew, StartedHasToken, TokensUnique
<1>6. RunningIsWatched'
  <2> SUFFICES ASSUME NEW j \in DOMAIN table, Running(j)
               PROVE  \/ heartbeats'[table[j].Token] # "none"
                      \/ \E x \in Dequeuers : call[x].token = table[j].Token
                      \/ table[j].Token \in cutOff
    BY <1>1 DEF RunningIsWatched, Running
  <2>1. table[j].Token \in Tokens
    BY DEF Running, IInv, TypeOK, Row
  <2> QED BY <1>2, <2>1 DEF IInv, RunningIsWatched
<1> QED BY <1>3, <1>4, <1>5, <1>6 DEF IInv

LEMMA CrashKeeps ==
    ASSUME IInv, Crash
    PROVE  IInv'
<1>1. /\ enqueuing' = {} /\ notified' = {}
      /\ call' = [d \in Dequeuers |-> [at |-> "idle", token |-> Nil]]
      /\ cutOff' = cutOff \cup ({call[d].token : d \in Dequeuers} \ {Nil})
      /\ table' = table /\ heartbeats' = heartbeats /\ rolledBack' = rolledBack
  BY DEF Crash, Idle, At
<1>2. /\ call' \in [Dequeuers -> [at : {"idle", "listening", "waiting", "misled", "started"}, token : Tokens \cup {Nil}]]
      /\ cutOff' \subseteq Tokens
  BY <1>1 DEF IInv, TypeOK
<1>3. PoolIsFinite' /\ (Used <= MaxConns)'
  <2>1. Polling' \subseteq Polling
    BY <1>1 DEF Polling, Idle, At
  <2> QED BY <1>1, <2>1, PoolKept DEF IInv
<1>4. TypeOK'
  BY <1>1, <1>2, <1>3 DEF IInv, TypeOK
<1>5. InsertsAreNew' /\ StartedHasToken' /\ TokensUnique'
  BY <1>1 DEF IInv, InsertsAreNew, StartedHasToken, TokensUnique
<1>6. RunningIsWatched'
  <2> SUFFICES ASSUME NEW j \in DOMAIN table, Running(j)
               PROVE  heartbeats[table[j].Token] # "none" \/ table[j].Token \in cutOff'
    BY <1>1 DEF RunningIsWatched, Running
  <2>1. table[j].Token # Nil
    BY DEF Running, IInv, TypeOK
  <2> QED BY <1>1, <2>1 DEF IInv, RunningIsWatched
<1> QED BY <1>3, <1>4, <1>5, <1>6 DEF IInv

-----------------------------------------------------------------------------
LEMMA Step == IInv /\ [Next]_vars => IInv'
<1> SUFFICES ASSUME IInv, [Next]_vars PROVE IInv'
  OBVIOUS
<1>1. ASSUME NEW id \in Jobs, NEW type \in Types, NEW deps \in SUBSET DOMAIN table,
             EnqueueBegin(id, type, deps)
      PROVE  IInv'
  BY <1>1, BeginKeeps
<1>2. ASSUME NEW e \in enqueuing, EnqueueCommit(e) \/ EnqueueRollback(e) PROVE IInv'
  BY <1>2, CommitKeeps, RollbackKeeps
<1>3. ASSUME NEW d \in Dequeuers,
             \/ Dequeue(d) \/ DequeueNone(d) \/ DequeueFails(d)
             \/ WaitForNotification(d) \/ DequeueTimeout(d)
      PROVE  IInv'
  <2>1. call[d].token = Nil
    BY <1>3 DEF Dequeue, DequeueNone, DequeueFails, WaitForNotification, DequeueTimeout, Waits, Idle, At
  <2>2. cutOff \subseteq Tokens
    BY DEF IInv, TypeOK
  <2>3. CASE Dequeue(d)
    BY <2>1, <2>2, <2>3, CallMoves DEF Dequeue, history
  <2>4. CASE DequeueNone(d)
    <3>1. call[d] # Idle
      BY <2>4 DEF DequeueNone, Idle, At
    <3> QED BY <2>1, <2>2, <2>4, <3>1, CallMoves DEF DequeueNone, history
  <2>5. CASE WaitForNotification(d)
    <3>1. call[d] # Idle
      BY <2>5 DEF WaitForNotification, Waits, Idle, At
    <3> QED BY <2>1, <2>2, <2>5, <3>1, CallMoves DEF WaitForNotification, history
  <2>6. CASE DequeueTimeout(d)
    BY <2>1, <2>2, <2>6, CallMoves DEF DequeueTimeout, history
  <2>7. CASE DequeueFails(d)
    <3>1. call[d] # Idle
      BY <2>7 DEF DequeueFails, Idle, At
    <3> QED BY <2>1, <2>2, <2>7, <3>1, CallMoves DEF DequeueFails, history
  <2> QED BY <1>3, <2>3, <2>4, <2>5, <2>6, <2>7
<1>4. ASSUME NEW d \in Dequeuers, DequeueLost(d) PROVE IInv'
  <2>1. cutOff \subseteq Tokens /\ call[d].token \in Tokens \cup {Nil}
    BY DEF IInv, TypeOK
  <2>2. /\ cutOff' \subseteq Tokens /\ cutOff \subseteq cutOff'
        /\ call[d].token # Nil => call[d].token \in cutOff'
    BY <1>4, <2>1 DEF DequeueLost
  <2> QED BY <1>4, <2>2, CallMoves DEF DequeueLost
<1>5. ASSUME NEW d \in Dequeuers, NEW j \in Jobs, NEW token \in Tokens, DequeueStart(d, j, token)
      PROVE  IInv'
  BY <1>5, StartKeeps
<1>6. ASSUME NEW d \in Dequeuers, InsertHeartbeat(d) PROVE IInv'
  BY <1>6, InsertKeeps
<1>7. ASSUME NEW j \in Jobs, NEW result \in Results, FinishJob(j, result) PROVE IInv'
  BY <1>7, FinishKeeps
<1>8. ASSUME NEW j \in Jobs, CancelJob(j) PROVE IInv'
  BY <1>8, CancelKeeps
<1>9. ASSUME NEW token \in Tokens, RefreshHeartbeat(token) \/ Age(token) PROVE IInv'
  BY <1>9, BeatKeeps
<1>10. CASE Crash
  BY <1>10, CrashKeeps
<1>11. CASE UNCHANGED vars
  <2>1. /\ table' = table /\ heartbeats' = heartbeats /\ enqueuing' = enqueuing
        /\ call' = call /\ notified' = notified /\ rolledBack' = rolledBack /\ cutOff' = cutOff
    BY <1>11 DEF vars, history
  <2>2. PoolIsFinite' /\ (Used <= MaxConns)'
    <3>1. Polling' = Polling
      BY <2>1 DEF Polling
    <3> QED BY <2>1, <3>1, PoolKept DEF IInv
  <2>3. TypeOK'
    BY <2>1, <2>2 DEF IInv, TypeOK
  <2>4. InsertsAreNew' /\ StartedHasToken' /\ TokensUnique'
    BY <2>1 DEF IInv, InsertsAreNew, StartedHasToken, TokensUnique
  <2>5. RunningIsWatched'
    BY <2>1 DEF IInv, RunningIsWatched, Running
  <2> QED BY <2>2, <2>3, <2>4, <2>5 DEF IInv
<1> QED
  BY <1>1, <1>2, <1>3, <1>4, <1>5, <1>6, <1>7, <1>8, <1>9, <1>10, <1>11 DEF Next, Dequeuing
LEMMA Invariant == Spec => []IInv
  BY Initially, Step, PTL DEF Spec

(***************************************************************************)
(* TypeOK holds of dbjobqueue: the constraints of the table jobs are       *)
(* never violated, and the connections that Dequeue and open transactions  *)
(* keep are never more than the pool has.                                  *)
(***************************************************************************)
THEOREM TypeCorrect == Spec => []TypeOK
<1>1. IInv => TypeOK
  BY DEF IInv
<1> QED BY <1>1, Invariant, PTL

(***************************************************************************)
(* RunningIsWatched: WatchHeartbeats finds every running job, unless the   *)
(* call of Dequeue that started it was cut off before its second           *)
(* transaction.                                                            *)
(***************************************************************************)
THEOREM Watched == Spec => []RunningIsWatched
<1>1. IInv => RunningIsWatched
  BY DEF IInv
<1> QED BY <1>1, Invariant, PTL

-----------------------------------------------------------------------------
(***************************************************************************)
(* The refinement of JobQueue.                                             *)
(***************************************************************************)
AbstractJob(row) ==
    [Type |-> row.Type, Dependencies |-> row.Dependencies,
     status |-> status(row), Token |-> row.Token, Result |-> row.Result]

LEMMA AbstractInit == Init => Abstract!Init
<1> SUFFICES ASSUME Init PROVE Abstract!Init
  OBVIOUS
<1>1. DOMAIN table = {}
  BY DEF Init
<1>2. AbstractJobs \in [{} -> {j \in Abstract!Job : j.status = "running"}]
  BY <1>1 DEF AbstractJobs
<1> QED BY <1>2 DEF Abstract!Init

\* One row changes: what the change is to the abstract job.
LEMMA AbstractChange ==
    ASSUME NEW j, NEW row, Changes(j, row)
    PROVE  /\ j \in DOMAIN AbstractJobs
           /\ AbstractJobs' = [AbstractJobs EXCEPT ![j] = AbstractJob(row)]
<1>1. /\ DOMAIN AbstractJobs = DOMAIN table
      /\ \A k \in DOMAIN table : AbstractJobs[k] = AbstractJob(table[k])
      /\ AbstractJobs' = [k \in DOMAIN table' |-> AbstractJob(table'[k])]
      /\ AbstractJobs = [k \in DOMAIN table |-> AbstractJob(table[k])]
  BY DEF AbstractJobs, AbstractJob
<1> QED BY <1>1 DEF Changes

LEMMA AbstractStep == IInv /\ [Next]_vars => [Abstract!Next]_AbstractJobs
<1> SUFFICES ASSUME IInv, [Next]_vars PROVE Abstract!Next \/ AbstractJobs' = AbstractJobs
  OBVIOUS
<1>0. TypeOK
  BY DEF IInv
<1>1. /\ DOMAIN AbstractJobs = DOMAIN table
      /\ \A k \in DOMAIN table : AbstractJobs[k] = AbstractJob(table[k])
      /\ AbstractJobs' = [k \in DOMAIN table' |-> AbstractJob(table'[k])]
  BY DEF AbstractJobs, AbstractJob
<1>2. \A row : /\ AbstractJob(row).status = status(row)
              /\ AbstractJob(row).Token = row.Token
              /\ AbstractJob(row).Dependencies = row.Dependencies
  BY DEF AbstractJob
<1>3. table' = table => AbstractJobs' = AbstractJobs
  BY DEF AbstractJobs
<1>4. ASSUME NEW e \in enqueuing, EnqueueCommit(e) PROVE Abstract!Next
  <2>1. /\ e.id \in Jobs /\ e.type \in Types /\ e.deps \in SUBSET Jobs
        /\ e.id \notin DOMAIN table /\ e.deps \subseteq DOMAIN table
        /\ DOMAIN table' = DOMAIN table \cup {e.id}
        /\ table'[e.id] = NewRow(e.type, e.deps)
        /\ \A k \in DOMAIN table : table'[k] = table[k]
    BY <1>4, CommittedTable
  <2>2. AbstractJob(table'[e.id]) = [Type |-> e.type, Dependencies |-> e.deps, status |-> "queued",
                                     Token |-> Nil, Result |-> Nil]
    BY <2>1 DEF AbstractJob, NewRow, status
  <2>3. AbstractJobs' = [x \in DOMAIN AbstractJobs \cup {e.id} |->
                           IF x = e.id THEN AbstractJob(table'[e.id]) ELSE AbstractJobs[x]]
    BY <1>1, <2>1
  <2>4. Abstract!Enqueue(e.id, e.type, e.deps)
    BY <1>1, <2>1, <2>2, <2>3 DEF Abstract!Enqueue, Abstract!With
  <2> QED BY <2>1, <2>4 DEF Abstract!Next
<1>5. ASSUME NEW d \in Dequeuers, NEW j \in Jobs, NEW token \in Tokens, DequeueStart(d, j, token)
      PROVE  Abstract!Next
  <2> DEFINE new == StartedRow(table[j], token)
  <2>1. /\ Changes(j, new) /\ table[j] \in Row /\ j \in DOMAIN table
        /\ ~table[j].started_at /\ ~table[j].canceled /\ ~table[j].finished_at
        /\ \A x \in table[j].Dependencies : x \in DOMAIN table /\ table[x].finished_at
        /\ \A x \in DOMAIN table : table[x].Token # token
    BY <1>0, <1>5, StartChanges DEF Changes
  <2>2. /\ status(table[j]) = "queued" /\ status(new) = "running"
        /\ \A x \in table[j].Dependencies : status(table[x]) = "finished"
    BY <1>0, <2>1, StartedRowFields DEF status, TypeOK
  <2>3. AbstractJob(new) = [AbstractJob(table[j]) EXCEPT !.status = "running", !.Token = token]
    <3>1. AbstractJob(new) = [Type |-> table[j].Type, Dependencies |-> table[j].Dependencies,
                              status |-> "running", Token |-> token, Result |-> table[j].Result]
      BY <2>1, <2>2, StartedRowFields DEF AbstractJob
    <3>2. [AbstractJob(table[j]) EXCEPT !.status = "running"]
            = [Type |-> table[j].Type, Dependencies |-> table[j].Dependencies,
               status |-> "running", Token |-> table[j].Token, Result |-> table[j].Result]
      BY DEF AbstractJob
    <3>3. [[Type |-> table[j].Type, Dependencies |-> table[j].Dependencies,
            status |-> "running", Token |-> table[j].Token, Result |-> table[j].Result]
              EXCEPT !.Token = token]
            = [Type |-> table[j].Type, Dependencies |-> table[j].Dependencies,
               status |-> "running", Token |-> token, Result |-> table[j].Result]
      OBVIOUS
    <3>4. [AbstractJob(table[j]) EXCEPT !.status = "running", !.Token = token]
            = [[AbstractJob(table[j]) EXCEPT !.status = "running"] EXCEPT !.Token = token]
      OBVIOUS
    <3> QED BY <3>1, <3>2, <3>3, <3>4, Zenon
  <2> HIDE DEF new
  <2>4. AbstractJobs' = [AbstractJobs EXCEPT ![j] = AbstractJob(new)]
    BY <2>1, AbstractChange
  <2>5. AbstractJobs' = [AbstractJobs EXCEPT ![j].status = "running", ![j].Token = token]
    <3>1. AbstractJobs[j] = AbstractJob(table[j]) /\ j \in DOMAIN AbstractJobs
      BY <1>1, <2>1
    <3> QED BY <2>3, <2>4, <3>1 DEF AbstractJobs, AbstractJob
  <2>6. Abstract!Dequeue(j, token)
    <3>1. j \in DOMAIN AbstractJobs /\ AbstractJobs[j].status = "queued"
      BY <1>1, <1>2, <2>1, <2>2
    <3>2. \A x \in AbstractJobs[j].Dependencies : AbstractJobs[x].status = "finished"
      BY <1>1, <1>2, <2>1, <2>2
    <3>3. \A x \in DOMAIN AbstractJobs : AbstractJobs[x].Token # token
      BY <1>1, <1>2, <2>1
    <3> QED BY <2>5, <3>1, <3>2, <3>3 DEF Abstract!Dequeue
  <2> QED BY <2>6 DEF Abstract!Next
<1>6. ASSUME NEW j \in Jobs, NEW result \in Results, FinishJob(j, result) PROVE Abstract!Next
  <2> DEFINE new == FinishedRow(table[j], result)
  <2>1. /\ Changes(j, new) /\ table[j] \in Row /\ j \in DOMAIN table
        /\ table[j].started_at /\ ~table[j].canceled /\ ~table[j].finished_at
    BY <1>0, <1>6, FinishChanges DEF Changes
  <2>2. status(table[j]) = "running" /\ status(new) = "finished"
    BY <2>1, FinishedRowFields DEF status
  <2>3. AbstractJob(new) = [AbstractJob(table[j]) EXCEPT !.status = "finished", !.Result = result]
    <3>1. AbstractJob(new) = [Type |-> table[j].Type, Dependencies |-> table[j].Dependencies,
                              status |-> "finished", Token |-> table[j].Token, Result |-> result]
      BY <2>1, <2>2, FinishedRowFields DEF AbstractJob
    <3>2. [AbstractJob(table[j]) EXCEPT !.status = "finished"]
            = [Type |-> table[j].Type, Dependencies |-> table[j].Dependencies,
               status |-> "finished", Token |-> table[j].Token, Result |-> table[j].Result]
      BY DEF AbstractJob
    <3>3. [[Type |-> table[j].Type, Dependencies |-> table[j].Dependencies,
            status |-> "finished", Token |-> table[j].Token, Result |-> table[j].Result]
              EXCEPT !.Result = result]
            = [Type |-> table[j].Type, Dependencies |-> table[j].Dependencies,
               status |-> "finished", Token |-> table[j].Token, Result |-> result]
      OBVIOUS
    <3>4. [AbstractJob(table[j]) EXCEPT !.status = "finished", !.Result = result]
            = [[AbstractJob(table[j]) EXCEPT !.status = "finished"] EXCEPT !.Result = result]
      OBVIOUS
    <3> QED BY <3>1, <3>2, <3>3, <3>4, Zenon
  <2> HIDE DEF new
  <2>4. AbstractJobs' = [AbstractJobs EXCEPT ![j] = AbstractJob(new)]
    BY <2>1, AbstractChange
  <2>5. AbstractJobs' = [AbstractJobs EXCEPT ![j].status = "finished", ![j].Result = result]
    <3>1. AbstractJobs[j] = AbstractJob(table[j]) /\ j \in DOMAIN AbstractJobs
      BY <1>1, <2>1
    <3> QED BY <2>3, <2>4, <3>1 DEF AbstractJobs, AbstractJob
  <2>6. Abstract!FinishJob(j, result)
    BY <1>1, <1>2, <2>1, <2>2, <2>5 DEF Abstract!FinishJob
  <2> QED BY <2>6 DEF Abstract!Next
<1>7. ASSUME NEW j \in Jobs, CancelJob(j) PROVE Abstract!Next \/ AbstractJobs' = AbstractJobs
  <2> DEFINE new == CanceledRow(table[j])
  <2>1. Changes(j, new) /\ table[j] \in Row /\ j \in DOMAIN table /\ ~table[j].finished_at
    BY <1>0, <1>7, CancelChanges DEF Changes
  <2>2. /\ status(new) = "canceled"
        /\ status(table[j]) \in {"queued", "running", "canceled"}
    BY <2>1, CanceledRowFields DEF status
  <2>3. AbstractJob(new) = [AbstractJob(table[j]) EXCEPT !.status = "canceled"]
    <3>1. AbstractJob(new) = [Type |-> table[j].Type, Dependencies |-> table[j].Dependencies,
                              status |-> "canceled", Token |-> table[j].Token, Result |-> table[j].Result]
      BY <2>1, <2>2, CanceledRowFields DEF AbstractJob
    <3> QED BY <3>1 DEF AbstractJob
  <2> HIDE DEF new
  <2>4. AbstractJobs' = [AbstractJobs EXCEPT ![j] = AbstractJob(new)]
    BY <2>1, AbstractChange
  <2>5. AbstractJobs' = [AbstractJobs EXCEPT ![j].status = "canceled"]
    <3>1. AbstractJobs[j] = AbstractJob(table[j]) /\ j \in DOMAIN AbstractJobs
      BY <1>1, <2>1
    <3> QED BY <2>3, <2>4, <3>1 DEF AbstractJobs, AbstractJob
  <2>6. CASE status(table[j]) = "canceled"
    <3>1. AbstractJob(new) = AbstractJob(table[j])
      BY <2>1, <2>2, <2>6, CanceledRowFields DEF AbstractJob, new
    <3>2. AbstractJobs[j] = AbstractJob(table[j])
      BY <1>1, <2>1
    <3> QED BY <2>4, <3>1, <3>2 DEF AbstractJobs
  <2>7. CASE status(table[j]) # "canceled"
    <3>1. Abstract!CancelJob(j)
      BY <1>1, <1>2, <2>1, <2>2, <2>5, <2>7 DEF Abstract!CancelJob
    <3> QED BY <3>1 DEF Abstract!Next
  <2> QED BY <2>6, <2>7
<1>8. \/ \E e \in enqueuing : EnqueueCommit(e)
      \/ \E d \in Dequeuers, j \in Jobs, token \in Tokens : DequeueStart(d, j, token)
      \/ \E j \in Jobs, result \in Results : FinishJob(j, result)
      \/ \E j \in Jobs : CancelJob(j)
      \/ table' = table
  BY DEF Next, Dequeuing, vars, EnqueueBegin, EnqueueRollback, Dequeue, DequeueNone,
         DequeueFails, WaitForNotification, InsertHeartbeat, DequeueTimeout, DequeueLost,
         RefreshHeartbeat, Age, Crash
<1> QED BY <1>3, <1>4, <1>5, <1>6, <1>7, <1>8

(***************************************************************************)
(* ImplementsJobQueue: every transaction of dbjobqueue is one operation of *)
(* the interface JobQueue, or none, whatever else is open, waiting or cut  *)
(* off at the time; although FinishJob's own checks of canceled and        *)
(* finished jobs see nothing.                                              *)
(***************************************************************************)
THEOREM Refinement == Spec => ImplementsJobQueue
  BY AbstractInit, AbstractStep, Invariant, PTL DEF Spec, ImplementsJobQueue, Abstract!Spec
=============================================================================
