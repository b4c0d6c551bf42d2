-------------------------------- MODULE KeyStore --------------------------------
(***************************************************************************)
(* One provider's stored keys (KeyPoolManager of key_pool.py): the table   *)
(* api_key_pool, and the pools that the worker processes of main.py fill   *)
(* from it when they start.  What the pools do with their entries is       *)
(* module KeyPool's.                                                       *)
(*                                                                         *)
(* Workers start, crash and serve the admin independently; they share the  *)
(* table and the environment.  A step is what one database transaction     *)
(* reads or commits, with the code up to the next await.                   *)
(***************************************************************************)
EXTENDS Integers, FiniteSets

CONSTANTS Workers, Keys,
          EnvKeys,      \* the provider's keys in the environment
          Ids,          \* ids of rows, never used twice
          LastSecret    \* bound: KEY_ENCRYPTION_SECRET takes values up to this

ASSUME KeyStoreAssumption ==
    /\ EnvKeys \subseteq Keys
    /\ LastSecret \in Nat \ {0}
    /\ IsFiniteSet(Workers)

VARIABLES
    rows,     \* the rows by id, NoRow where there is none
    spent,    \* the ids that have been given out
    secret,   \* KEY_ENCRYPTION_SECRET, NoSecret if empty; the previous one is secret - 1
    pc,       \* where each worker is in its lifespan
    copies,   \* how many entries of its pool each worker has of each row
    garbled,  \* the rows whose ciphertext it has taken for the key
    task,     \* what its admin endpoint or its startup does across an await
    settled,  \* history: a worker has served under the present secret
    seeds,    \* history: the rows that came from the environment
    removed   \* history: the rows whose removal has been answered

process == <<pc, copies, garbled, task>>
tableVars == <<rows, spent, secret, process, settled, seeds, removed>>

NoSecret == 0
Row == [key : Keys, by : 0 .. LastSecret]    \* by: the secret it is encrypted with
NoRow == [key |-> "none", by |-> NoSecret]
Nothing == [does |-> "nothing", ids |-> {}]

Stored == {i \in Ids : rows[i] # NoRow}
None == [i \in Ids |-> 0]

TableInit ==
    /\ rows = [i \in Ids |-> NoRow]
    /\ spent = {}
    /\ secret \in {NoSecret, 1}
    /\ pc = [w \in Workers |-> "down"]
    /\ copies = [w \in Workers |-> None]
    /\ garbled = [w \in Workers |-> {}]
    /\ task = [w \in Workers |-> Nothing]
    /\ settled = FALSE
    /\ seeds = {}
    /\ removed = {}

At(w, l) == pc[w] = l
Goes(w, l) == pc' = [pc EXCEPT ![w] = l]
Does(w, what, ids) == task' = [task EXCEPT ![w] = [does |-> what, ids |-> ids]]
Rests(w) == task' = [task EXCEPT ![w] = Nothing]

OpensWithPresent(row) == row.by = NoSecret \/ row.by = secret   \* mutant

\* _decrypt_key: does the text of a row come out as the key?  The present
\* secret is tried, then the previous one, then the text is taken as it is.
Opens(row) == row.by = NoSecret \/ row.by = secret \/ (secret > 1 /\ row.by = secret - 1)

--------------------------------------------------------------------------------
(* lifespan, as far as it is about keys.                                     *)

\* config.py: more than one worker needs a secret.
Start(w) ==
    /\ At(w, "down")
    /\ secret = NoSecret => \A v \in Workers : At(v, "down")
    /\ Goes(w, "count")
    /\ UNCHANGED <<rows, spent, secret, copies, garbled, task, settled, seeds, removed>>

\* Mutant of CountRows: seeds at every start.
CountRowsOfNothing(w) ==
    /\ At(w, "count")
    /\ Goes(w, IF EnvKeys # {} THEN "seed" ELSE "load")
    /\ UNCHANGED <<rows, spent, secret, copies, garbled, task, settled, seeds, removed>>

\* seed_from_config counts the rows ...
CountRows(w) ==
    /\ At(w, "count")
    /\ Goes(w, IF Stored = {} /\ EnvKeys # {} THEN "seed" ELSE "load")
    /\ UNCHANGED <<rows, spent, secret, copies, garbled, task, settled, seeds, removed>>

\* ... and adds the environment's keys where there were none.
Seed(w) ==
    /\ At(w, "seed")
    /\ \E new \in [EnvKeys -> Ids \ spent] :
          /\ \A j, k \in EnvKeys : new[j] = new[k] => j = k
          /\ rows' = [i \in Ids |-> IF \E k \in EnvKeys : new[k] = i
                                    THEN [key |-> CHOOSE k \in EnvKeys : new[k] = i,
                                          by |-> secret]
                                    ELSE rows[i]]
          /\ spent' = spent \cup {new[k] : k \in EnvKeys}
          /\ seeds' = seeds \cup {new[k] : k \in EnvKeys}
    /\ Goes(w, "load")
    /\ UNCHANGED <<secret, copies, garbled, task, settled, removed>>

\* Mutant of Load: the pools are refreshed while serving, and not emptied first.
LoadAnyTime(w) ==
    /\ pc[w] \in {"load", "load again", "serving"}
    /\ copies' = [copies EXCEPT ![w] = [i \in Ids |-> IF i \in Stored THEN @[i] + 1 ELSE @[i]]]
    /\ Goes(w, IF At(w, "load") THEN "load again" ELSE "re-encrypt")
    /\ UNCHANGED <<rows, spent, secret, garbled, task, settled, seeds, removed>>

\* load_from_db, once at the end of seed_from_config and once after it.
Load(w) ==
    /\ pc[w] \in {"load", "load again"}
    /\ copies' = [copies EXCEPT ![w] = [i \in Ids |-> IF i \in Stored THEN @[i] + 1 ELSE @[i]]]
    /\ garbled' = [garbled EXCEPT ![w] = @ \cup {i \in Stored : ~Opens(rows[i])}]
    /\ Goes(w, IF At(w, "load") THEN "load again" ELSE "re-encrypt")
    /\ UNCHANGED <<rows, spent, secret, task, settled, seeds, removed>>

--------------------------------------------------------------------------------
(* re_encrypt_stale_keys, at startup and by rotate_now.                      *)

Stale == {i \in Stored : rows[i].by # NoSecret /\ rows[i].by = secret - 1}

FindStale(w) ==
    /\ pc[w] \in {"re-encrypt", "serving"}
    /\ task[w] = Nothing
    /\ Does(w, "re-encrypt", Stale)
    /\ UNCHANGED <<rows, spent, secret, pc, copies, garbled, settled, seeds, removed>>

\* Mutant of Recrypt: rows are written as they were found, gone or not.
RecryptUpserts(w) ==
    /\ task[w].does = "re-encrypt"
    /\ rows' = [i \in Ids |-> IF i \in task[w].ids THEN [rows[i] EXCEPT !.by = secret]
                              ELSE rows[i]]
    /\ Rests(w)
    /\ Goes(w, "serving")
    /\ settled' = TRUE
    /\ UNCHANGED <<spent, secret, copies, garbled, seeds, removed>>

\* The commit updates every row that was found, or none.
Recrypt(w) ==
    /\ task[w].does = "re-encrypt"
    /\ task[w].ids \subseteq Stored
    /\ rows' = [i \in Ids |-> IF i \in task[w].ids THEN [rows[i] EXCEPT !.by = secret]
                              ELSE rows[i]]
    /\ Rests(w)
    /\ Goes(w, "serving")
    /\ settled' = TRUE
    /\ UNCHANGED <<spent, secret, copies, garbled, seeds, removed>>

\* Mutant of RecryptFails: a startup carries on.
RecryptFailsQuietly(w) ==
    /\ task[w].does = "re-encrypt"
    /\ secret > 1
    /\ Rests(w)
    /\ Goes(w, "serving")
    /\ UNCHANGED <<rows, spent, secret, copies, garbled, settled, seeds, removed>>

\* A row is gone, or the database refuses: rollback.  A startup ends with that.
RecryptFails(w) ==
    /\ task[w].does = "re-encrypt"
    /\ secret > 1
    /\ IF At(w, "serving")
       THEN Rests(w) /\ UNCHANGED <<pc, copies, garbled>>
       ELSE /\ Rests(w)
            /\ Goes(w, "down")
            /\ copies' = [copies EXCEPT ![w] = None]
            /\ garbled' = [garbled EXCEPT ![w] = {}]
    /\ UNCHANGED <<rows, spent, secret, settled, seeds, removed>>

--------------------------------------------------------------------------------
(* The admin's endpoints, one at a time in each worker.                      *)

Free(w) == At(w, "serving") /\ task[w] = Nothing

\* add_key_to_db: the row is committed, and then the entry added.
AddRow(w, k) ==
    /\ Free(w)
    /\ \E i \in Ids \ spent :
          /\ rows' = [rows EXCEPT ![i] = [key |-> k, by |-> secret]]
          /\ spent' = spent \cup {i}
          /\ Does(w, "add", {i})
    /\ UNCHANGED <<secret, pc, copies, garbled, settled, seeds, removed>>

AddEntry(w) ==
    /\ task[w].does = "add"
    /\ copies' = [copies EXCEPT ![w] = [i \in Ids |-> IF i \in task[w].ids THEN @[i] + 1
                                                      ELSE @[i]]]
    /\ Rests(w)
    /\ UNCHANGED <<rows, spent, secret, pc, garbled, settled, seeds, removed>>

\* remove_key_from_db: an entry is popped, by its index, and then its row deleted.
PopEntry(w, i) ==
    /\ Free(w)
    /\ copies[w][i] > 0
    /\ copies' = [copies EXCEPT ![w][i] = @ - 1]
    /\ Does(w, "remove", {i})
    /\ UNCHANGED <<rows, spent, secret, pc, garbled, settled, seeds, removed>>

DeleteRow(w) ==
    /\ task[w].does = "remove"
    /\ rows' = [i \in Ids |-> IF i \in task[w].ids THEN NoRow ELSE rows[i]]
    /\ removed' = removed \cup task[w].ids
    /\ Rests(w)
    /\ UNCHANGED <<spent, secret, pc, copies, garbled, settled, seeds>>

--------------------------------------------------------------------------------
(* Crashes, and the operator.                                                *)

Crash(w) ==
    /\ ~At(w, "down")
    /\ Goes(w, "down")
    /\ copies' = [copies EXCEPT ![w] = None]
    /\ garbled' = [garbled EXCEPT ![w] = {}]
    /\ Rests(w)
    /\ UNCHANGED <<rows, spent, secret, settled, seeds, removed>>

\* The operator moves on to the next secret, as admin-guide.md tells: with the
\* server stopped, and after it has been up under the present one.
Rotate ==
    /\ \A w \in Workers : At(w, "down")
    /\ settled
    /\ secret < LastSecret
    /\ secret' = secret + 1
    /\ settled' = FALSE
    /\ UNCHANGED <<rows, spent, process, seeds, removed>>

Startup(w) == Start(w) \/ CountRows(w) \/ Seed(w) \/ Load(w)
Rotation(w) == FindStale(w) \/ Recrypt(w) \/ RecryptFails(w)
Admin(w) == (\E k \in Keys : AddRow(w, k)) \/ AddEntry(w)
            \/ (\E i \in Ids : PopEntry(w, i)) \/ DeleteRow(w)

TableNext == Rotate \/ \E w \in Workers : Startup(w) \/ Rotation(w) \/ Admin(w) \/ Crash(w)

TableSpec == TableInit /\ [][TableNext]_tableVars

--------------------------------------------------------------------------------
Lifespan == {"down", "count", "seed", "load", "load again", "re-encrypt", "serving"}

\* Every variable has its type, and a worker has at most two entries of a row:
\* those of the two loads of its startup (main.py:113, 114), or the one of its
\* own add_key_to_db; a row that is being added has none in its worker.
TableTypeOK ==
    /\ rows \in [Ids -> Row \cup {NoRow}]
    /\ spent \in SUBSET Ids
    /\ secret \in 0 .. LastSecret
    /\ pc \in [Workers -> Lifespan]
    /\ copies \in [Workers -> [Ids -> 0 .. 2]]
    /\ garbled \in [Workers -> SUBSET Ids]
    /\ task \in [Workers -> [does : {"nothing", "re-encrypt", "add", "remove"},
                             ids : SUBSET Ids]]
    /\ settled \in BOOLEAN
    /\ seeds \in SUBSET spent
    /\ removed \in SUBSET spent

\* A text that neither secret opens is handed out as if it were the key
\* (key_pool.py:429).  It does not come to that through any interleaving of
\* starts, crashes, additions and re-encryptions, if the operator changes the
\* secret only after the server has been up under the last one.
KeysReadable == \A w \in Workers : \A i \in garbled[w] : copies[w][i] = 0

\* What the operator relies on when the previous secret is dropped: as soon as
\* one worker serves, its startup has re-encrypted every row of the previous
\* secret (main.py:117), also those that other workers have added, and later
\* rotations and additions leave none.  Rows from before there was a secret
\* stay as they are.
RotatedBeforeServing ==
    \A w \in Workers : At(w, "serving") => \A i \in Stored : rows[i].by \in {NoSecret, secret}

\* A row whose removal has been answered stays away: no re-encryption that had
\* found it brings it back, and no worker that starts later loads it
\* (key_pool.py:286, 321).  Only an add_key_to_db that has yet to add its entry
\* can still add one for a row removed through another worker.
RemovedStaysRemoved ==
    [][/\ removed \cap {i \in Ids : rows'[i] # NoRow} = {}
       /\ \A w \in Workers, i \in removed :
             copies'[w][i] > copies[w][i] => task[w] = [does |-> "add", ids |-> {i}]]_tableVars

\* seed_from_config counts first and inserts later (key_pool.py:229-252), and
\* nothing in the table is unique: workers that start together each insert the
\* environment's keys, but never more often than there are workers, whatever
\* crashes and removals come in between.
SeedsAreFew ==
    \A k \in EnvKeys :
        Cardinality({i \in Stored \cap seeds : rows[i].key = k}) =< Cardinality(Workers)
================================================================================
