------------------------------- MODULE Namespace -------------------------------
(***************************************************************************)
(* Concurrent directory moves: move_directory (db/stored-procedures.sql),  *)
(* called by DatabaseClient.MoveDirectory in a READ COMMITTED transaction. *)
(* Every statement of the procedure has its own snapshot; the remap is one *)
(* UPDATE that locks the rows its snapshot matched one by one, waits for a *)
(* row another transaction holds and looks at its newest version then.     *)
(* All nodes are live directories of one tenant, with distinct names.      *)
(***************************************************************************)
EXTENDS Naturals, SequencesExt

CONSTANTS Movers,   \* transactions
          Nodes,    \* node ids, ordered as numbers
          Root,     \* the tenant's root
          Tree,     \* the parents at the start
          MaxMoves, \* bound on the moves
          None

VARIABLES parent, \* parent_id, committed
          path,   \* lineage_path, committed
          lock,   \* lock[n]: the transaction that holds the row
          mv,     \* mv[t]: the move t makes
          moves

nsVars == <<parent, path, lock, mv, moves>>

\* lineage_path as nodes_lineage_guard computes it on insertion.
RECURSIVE Lineage(_)
Lineage(n) == IF n = Root THEN <<Root>> ELSE Append(Lineage(Tree[n]), n)

\* src, dst: v_src_path and v_dst_path; todo: rows the UPDATE has still to
\* visit; new: lineage paths it has written
NoMove == [pc |-> "idle", node |-> None, to |-> None, src |-> << >>, dst |-> << >>,
           todo |-> {}, new |-> << >>]

NamespaceInit ==
    /\ parent = Tree
    /\ path = [n \in Nodes |-> Lineage(n)]
    /\ lock = [n \in Nodes |-> None]
    /\ mv = [t \in Movers |-> NoMove]
    /\ moves = 0

Low(t) == IF mv[t].node < mv[t].to THEN mv[t].node ELSE mv[t].to
High(t) == IF mv[t].node < mv[t].to THEN mv[t].to ELSE mv[t].node

Free(t, n) == lock[n] \in {None, t}

Unlocked(t) == [n \in Nodes |-> IF lock[n] = t THEN None ELSE lock[n]]

End(t) == mv' = [mv EXCEPT ![t] = NoMove] /\ lock' = Unlocked(t)

MoveDirectory(t, n, to) ==
    /\ mv[t].pc = "idle" /\ n # to
    /\ moves < MaxMoves
    /\ moves' = moves + 1
    /\ mv' = [mv EXCEPT ![t] = [NoMove EXCEPT !.pc = "low", !.node = n, !.to = to]]
    /\ UNCHANGED <<parent, path, lock>>

\* SELECT ... ORDER BY node_id FOR UPDATE: the lower id, then the higher.
LockLow(t) ==
    /\ mv[t].pc = "low" /\ Free(t, Low(t))
    /\ lock' = [lock EXCEPT ![Low(t)] = t]
    /\ mv' = [mv EXCEPT ![t].pc = "high"]
    /\ UNCHANGED <<parent, path, moves>>

LockHigh(t) ==
    /\ mv[t].pc = "high" /\ Free(t, High(t))
    /\ lock' = [lock EXCEPT ![High(t)] = t]
    /\ mv' = [mv EXCEPT ![t].pc = "check"]
    /\ UNCHANGED <<parent, path, moves>>

\* The root does not move, and a target below the source is refused.
Check(t) ==
    /\ mv[t].pc = "check"
    /\ IF mv[t].node = Root \/ IsPrefix(path[mv[t].node], path[mv[t].to])
       THEN End(t)
       ELSE /\ mv' = [mv EXCEPT ![t].pc = "scan", ![t].src = path[mv[t].node],
                                ![t].dst = path[mv[t].to]]
            /\ UNCHANGED lock
    /\ UNCHANGED <<parent, path, moves>>

\* The WHERE clause of the UPDATE.
Matches(t, n) == n = mv[t].node \/ IsPrefix(mv[t].src, path[n])

\* The UPDATE's snapshot.
Scan(t) ==
    /\ mv[t].pc = "scan"
    /\ mv' = [mv EXCEPT ![t].pc = "remap", ![t].todo = {n \in Nodes : Matches(t, n)}]
    /\ UNCHANGED <<parent, path, lock, moves>>

\* dst_path || src_segment || suffix below the source.  nodes_lineage_guard sets
\* the source's own path from its new parent, whose row is locked: the same.
Remapped(t, n) ==
    LET moved == Append(mv[t].dst, mv[t].node)
    IN  IF n = mv[t].node THEN moved
        ELSE moved \o SubSeq(path[n], Len(mv[t].src) + 1, Len(path[n]))

\* One row: locked when it is free, and checked again as it is then.
RemapRow(t, n) ==
    /\ mv[t].pc = "remap" /\ n \in mv[t].todo /\ Free(t, n)
    /\ lock' = [lock EXCEPT ![n] = t]
    /\ mv' = [mv EXCEPT ![t].todo = @ \ {n},
                        ![t].new = IF Matches(t, n) THEN (n :> Remapped(t, n)) @@ @ ELSE @]
    /\ UNCHANGED <<parent, path, moves>>

Commit(t) ==
    /\ mv[t].pc = "remap" /\ mv[t].todo = {}
    /\ path' = mv[t].new @@ path
    /\ parent' = [parent EXCEPT ![mv[t].node] = mv[t].to]
    /\ End(t)
    /\ UNCHANGED moves

\* The rows a transaction may be waiting for.
Wanted(t) == CASE mv[t].pc = "low" -> {Low(t)}
               [] mv[t].pc = "high" -> {High(t)}
               [] mv[t].pc = "remap" -> mv[t].todo
               [] OTHER -> {}

WaitsFor(t, u) == t # u /\ \E n \in Wanted(t) : lock[n] = u

\* PostgreSQL ends a deadlock by aborting one of the waiters.
Deadlock(t) ==
    /\ \E u \in Movers : WaitsFor(t, u) /\ WaitsFor(u, t)
    /\ End(t)
    /\ UNCHANGED <<parent, path, moves>>

MoveStep(t) == \/ LockLow(t) \/ LockHigh(t) \/ Check(t) \/ Scan(t)
               \/ \E n \in Nodes : RemapRow(t, n)
               \/ Commit(t) \/ Deadlock(t)

NamespaceNext ==
    \E t \in Movers : \/ MoveStep(t)
                      \/ \E n, to \in Nodes : MoveDirectory(t, n, to)

NamespaceSpec == NamespaceInit /\ [][NamespaceNext]_nsVars

-----------------------------------------------------------------------------
(* Properties *)

\* "INVARIANT: After this procedure, the namespace graph remains acyclic": no
\* set of directories has all its parents in itself.
Acyclic ==
    \A S \in SUBSET (Nodes \ {Root}) :
        S # {} => \E n \in S : parent[n] \notin S

=============================================================================
