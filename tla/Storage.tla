------------------------------- MODULE Storage -------------------------------
(***************************************************************************)
(* The storage of a logged-in session.  storage_target picks the backend   *)
(* once, from the platform, and the file or database name from the user.   *)
(***************************************************************************)
EXTENDS SqliteStorage, IndexedDbStorage

VARIABLE target

vars == <<target, sqliteVars, idbVars>>

StorageTarget(platform, dataDir) ==
    CASE platform \in {"Web", "MiniWeb"} -> "IndexedDb"
      [] OTHER -> IF dataDir THEN "Sqlite" ELSE "Unconfigured"

Init ==
    /\ target \in { StorageTarget(p, d) : p \in {"Web", "MacOS"}, d \in BOOLEAN } \ {"Unconfigured"}
    /\ SqliteInit /\ IdbInit
    /\ target = "Sqlite" => store = "messages"   \* not used

Next ==
    \/ target = "Sqlite" /\ SqliteNext /\ UNCHANGED <<target, idbVars>>
    \/ target = "IndexedDb" /\ IdbNext /\ UNCHANGED <<target, sqliteVars>>

Spec == Init /\ [][Next]_vars

\* Both stores hold what their columns and keys allow.
TypeOK == SqliteTypeOK /\ IdbTypeOK

\* A conversation pages the same way wherever it is read from: the sqlite ORDER BY with LIMIT
\* and OFFSET, the in-memory service's reversed message order, its search with a query that
\* every message matches, and the sort and skip/take of the IndexedDB store.
HistoriesAgree ==
    LET saved == { i \in MsgIds : acked.messages[i] # None }
        vector == [i \in saved |-> acked.messages[i]]
    IN  \A size \in 1..2, page \in 0..2 :
            LET rows == LoadHistory(page, size)
            IN  /\ rows = MemoryHistory(acked.messages, page, size)
                /\ rows = MemorySearch(acked.messages, MsgIds, page, size)
                /\ rows = IdbHistory(vector, page, size)

=============================================================================
