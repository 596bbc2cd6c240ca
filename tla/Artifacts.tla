----------------------------- MODULE Artifacts -----------------------------
(***************************************************************************)
(* The screenshot store of mcp/screenshot_artifacts.go: images handed out  *)
(* by URL until they expire.  An image is two files, <id>.bin and the      *)
(* record <id>.json, and an item in the memory of the processes that saved *)
(* or served it.  The HTTP server and MCP stdio processes may run on one   *)
(* data directory: each has a mutex of its own, any of them may be killed  *)
(* between two operations on files, and every one of these may fail.       *)
(*                                                                         *)
(* A process is in at most one call that holds its mutex; one that waits   *)
(* for it has read the clock already, which now stands for.                *)
(***************************************************************************)
EXTENDS Naturals

CONSTANTS Ids, Procs, NoId

ASSUME ArtifactsAssumption == NoId \notin Ids

VARIABLES
  data, record,  \* the IDs with a .bin file and with a .json file
  items,         \* screenshotArtifactStore.items of each process
  expired,       \* the IDs whose expiresAt has passed
  pc,            \* what each process does under its mutex
  cur,           \* the ID its call is about
  now,           \* the IDs that are expired for its call
  todo,          \* the records it has listed and not looked at
  victim,        \* the ID of which it has removed the data and not the record
  used,          \* the IDs that randomHex has returned
  announced,     \* the IDs whose URL was returned to a client
  unread,        \* the IDs whose record was there, but could not be read by a clean-up
  dataLeft,      \* the IDs whose data a kill during save, or a failed removal, has left
  recordLeft     \* the IDs whose record a kill during a removal, or a failed one, has left

fileVars == <<data, record>>
callVars == <<pc, cur, now, todo, victim>>
leftVars == <<dataLeft, recordLeft>>
histVars == <<used, announced, unread, leftVars>>
vars     == <<fileVars, items, expired, callVars, histVars>>

TypeOK ==
  /\ data \in SUBSET Ids /\ record \in SUBSET Ids
  /\ items \in [Procs -> SUBSET Ids]
  /\ expired \in SUBSET Ids
  /\ pc \in [Procs -> {"down", "idle", "forget", "scan", "data", "record", "read", "gone"}]
  /\ cur \in [Procs -> Ids \cup {NoId}]
  /\ now \in [Procs -> SUBSET Ids]
  /\ todo \in [Procs -> SUBSET Ids]
  /\ victim \in [Procs -> Ids \cup {NoId}]
  /\ used \in SUBSET Ids /\ announced \in SUBSET Ids /\ unread \in SUBSET Ids
  /\ dataLeft \in SUBSET Ids /\ recordLeft \in SUBSET Ids
  /\ \A p \in Procs : pc[p] \in {"forget", "scan", "data", "record", "read"} => cur[p] \in Ids

Init ==
  /\ data = {} /\ record = {}
  /\ items = [p \in Procs |-> {}]
  /\ expired = {}
  /\ pc = [p \in Procs |-> "down"]
  /\ cur = [p \in Procs |-> NoId]
  /\ now = [p \in Procs |-> {}]
  /\ todo = [p \in Procs |-> {}]
  /\ victim = [p \in Procs |-> NoId]
  /\ used = {} /\ announced = {} /\ unread = {} /\ dataLeft = {} /\ recordLeft = {}

-----------------------------------------------------------------------------
Goto(p, l) == pc' = [pc EXCEPT ![p] = l]

Return(p) ==
  /\ pc' = [pc EXCEPT ![p] = "idle"]
  /\ cur' = [cur EXCEPT ![p] = NoId]
  /\ now' = [now EXCEPT ![p] = {}]
  /\ todo' = [todo EXCEPT ![p] = {}]

\* os.Remove of the data of i, whose error nobody looks at.
DeleteData(i) ==
  \/ data' = data \ {i} /\ UNCHANGED dataLeft
  \/ i \in data /\ UNCHANGED data /\ dataLeft' = dataLeft \cup {i}

\* removeDiskArtifactLocked: first the data, then the record.
RemoveData(p, i) ==
  /\ DeleteData(i)
  /\ victim' = [victim EXCEPT ![p] = i]
  /\ UNCHANGED recordLeft

\* save: a fresh ID, and a reading of the clock from before the mutex was free.
Save(p, i, n) ==
  /\ pc[p] = "idle"
  /\ i \notin used
  /\ n \subseteq expired
  /\ used' = used \cup {i}
  /\ cur' = [cur EXCEPT ![p] = i]
  /\ now' = [now EXCEPT ![p] = n]
  /\ Goto(p, "forget")
  /\ UNCHANGED <<fileVars, items, expired, todo, victim, announced, unread, leftVars>>

\* cleanupExpiredLocked, its loop over the items.
ForgetExpired(p, i) ==
  /\ pc[p] = "forget" /\ victim[p] = NoId
  /\ i \in items[p] \cap now[p]
  /\ items' = [items EXCEPT ![p] = @ \ {i}]
  /\ RemoveData(p, i)
  /\ UNCHANGED <<record, expired, pc, cur, now, todo, used, announced, unread>>

\* Mutant: the data files are listed instead of their records.
ListRecords_Data(p) ==
  /\ pc[p] = "forget" /\ victim[p] = NoId
  /\ items[p] \cap now[p] = {}
  /\ \/ todo' = [todo EXCEPT ![p] = data] /\ Goto(p, "scan")
     \/ Goto(p, "data") /\ UNCHANGED todo
  /\ UNCHANGED <<fileVars, items, expired, cur, now, victim, histVars>>

\* ... and its loop over the directory, which may be unreadable.
ListRecords(p) ==
  /\ pc[p] = "forget" /\ victim[p] = NoId
  /\ items[p] \cap now[p] = {}
  /\ \/ todo' = [todo EXCEPT ![p] = record] /\ Goto(p, "scan")
     \/ Goto(p, "data") /\ UNCHANGED todo
  /\ UNCHANGED <<fileVars, items, expired, cur, now, victim, histVars>>

KeepRecord(p, i) ==
  /\ pc[p] = "scan" /\ victim[p] = NoId
  /\ i \in todo[p] /\ i \in record \ now[p]
  /\ todo' = [todo EXCEPT ![p] = @ \ {i}]
  /\ UNCHANGED <<fileVars, items, expired, pc, cur, now, victim, histVars>>

\* The record is expired, or another process has removed it.
DropRecord(p, i) ==
  /\ pc[p] = "scan" /\ victim[p] = NoId
  /\ i \in todo[p] /\ i \notin record \ now[p]
  /\ todo' = [todo EXCEPT ![p] = @ \ {i}]
  /\ RemoveData(p, i)
  /\ UNCHANGED <<record, items, expired, pc, cur, now, used, announced, unread>>

\* The record is there and cannot be read or decoded: it goes like an expired one.
DropUnread(p, i) ==
  /\ pc[p] = "scan" /\ victim[p] = NoId
  /\ i \in todo[p] /\ i \in record \ now[p]
  /\ todo' = [todo EXCEPT ![p] = @ \ {i}]
  /\ RemoveData(p, i)
  /\ unread' = unread \cup {i}
  /\ UNCHANGED <<record, items, expired, pc, cur, now, used, announced>>

CleanedUp(p) ==
  /\ pc[p] = "scan" /\ victim[p] = NoId
  /\ todo[p] = {}
  /\ Goto(p, "data")
  /\ UNCHANGED <<fileVars, items, expired, cur, now, todo, victim, histVars>>

RemoveRecord(p) ==
  /\ victim[p] # NoId
  /\ \/ record' = record \ {victim[p]} /\ UNCHANGED recordLeft
     \/ victim[p] \in record /\ UNCHANGED record /\ recordLeft' = recordLeft \cup {victim[p]}
  /\ victim' = [victim EXCEPT ![p] = NoId]
  /\ IF pc[p] = "gone" THEN Return(p) ELSE UNCHANGED <<pc, cur, now, todo>>
  /\ UNCHANGED <<data, items, expired, used, announced, unread, dataLeft>>

\* writeDiskArtifactLocked: both files are written aside and renamed.
WriteData(p) ==
  /\ pc[p] = "data"
  /\ data' = data \cup {cur[p]}
  /\ Goto(p, "record")
  /\ UNCHANGED <<record, items, expired, cur, now, todo, victim, histVars>>

WriteDataFails(p) ==
  /\ pc[p] = "data"
  /\ Return(p)
  /\ UNCHANGED <<fileVars, items, expired, victim, histVars>>

WriteRecord(p) ==
  /\ pc[p] = "record"
  /\ record' = record \cup {cur[p]}
  /\ items' = [items EXCEPT ![p] = @ \cup {cur[p]}]
  /\ announced' = announced \cup {cur[p]}
  /\ Return(p)
  /\ UNCHANGED <<data, expired, victim, used, unread, leftVars>>

\* Mutant: the data stays when its record cannot be written.
WriteRecordFails_KeepsData(p) ==
  /\ pc[p] = "record"
  /\ Return(p)
  /\ UNCHANGED <<fileVars, items, expired, victim, histVars>>

\* Mutant: save answers with the URL although its record could not be written.
WriteRecordFails_Ignored(p) ==
  /\ pc[p] = "record"
  /\ announced' = announced \cup {cur[p]}
  /\ Return(p)
  /\ UNCHANGED <<fileVars, items, expired, victim, used, unread, leftVars>>

WriteRecordFails(p) ==
  /\ pc[p] = "record"
  /\ DeleteData(cur[p])
  /\ Return(p)
  /\ UNCHANGED <<record, items, expired, victim, used, announced, unread, recordLeft>>

\* get: from memory, or from the files of whichever process saved it.
ServeExpired(p, i, n) ==
  /\ pc[p] = "idle"
  /\ n \subseteq expired /\ i \in n
  /\ i \in items[p] \cup record
  /\ items' = [items EXCEPT ![p] = @ \ {i}]
  /\ RemoveData(p, i)
  /\ Goto(p, "gone")
  /\ UNCHANGED <<record, expired, cur, now, todo, used, announced, unread>>

ServeFromDisk(p, i, n) ==
  /\ pc[p] = "idle"
  /\ n \subseteq expired
  /\ i \in (record \ n) \ items[p]
  /\ cur' = [cur EXCEPT ![p] = i]
  /\ Goto(p, "read")
  /\ UNCHANGED <<fileVars, items, expired, now, todo, victim, histVars>>

\* Data that is gone, or cannot be read, is not found.
ReadData(p) ==
  /\ pc[p] = "read"
  /\ \/ cur[p] \in data /\ items' = [items EXCEPT ![p] = @ \cup {cur[p]}]
     \/ UNCHANGED items
  /\ Return(p)
  /\ UNCHANGED <<fileVars, expired, victim, histVars>>

Expire(i) ==
  /\ i \in used \ expired
  /\ expired' = expired \cup {i}
  /\ UNCHANGED <<fileVars, items, callVars, histVars>>

\* The server or an MCP stdio process starts with an empty map.
Begin(p) ==
  /\ pc[p] = "down"
  /\ Goto(p, "idle")
  /\ UNCHANGED <<fileVars, items, expired, cur, now, todo, victim, histVars>>

Kill(p) ==
  /\ pc[p] # "down"
  /\ pc' = [pc EXCEPT ![p] = "down"]
  /\ cur' = [cur EXCEPT ![p] = NoId]
  /\ now' = [now EXCEPT ![p] = {}]
  /\ todo' = [todo EXCEPT ![p] = {}]
  /\ victim' = [victim EXCEPT ![p] = NoId]
  /\ items' = [items EXCEPT ![p] = {}]
  /\ dataLeft' = dataLeft \cup {i \in {cur[p]} : pc[p] = "record"}
  /\ recordLeft' = recordLeft \cup ({victim[p]} \cap record)
  /\ UNCHANGED <<fileVars, expired, used, announced, unread>>

Next ==
  \/ \E p \in Procs, i \in Ids, n \in SUBSET Ids :
       Save(p, i, n) \/ ServeExpired(p, i, n) \/ ServeFromDisk(p, i, n)
  \/ \E p \in Procs, i \in Ids : 
       ForgetExpired(p, i) \/ KeepRecord(p, i) \/ DropRecord(p, i) \/ DropUnread(p, i)
  \/ \E p \in Procs :
       \/ ListRecords(p) \/ CleanedUp(p) \/ RemoveRecord(p)
       \/ WriteData(p) \/ WriteDataFails(p) \/ WriteRecord(p) \/ WriteRecordFails(p)
       \/ ReadData(p) \/ Begin(p) \/ Kill(p)
  \/ \E i \in Ids : Expire(i)

Spec == Init /\ [][Next]_vars

-----------------------------------------------------------------------------
\* A screenshot whose URL was returned stays available until it expires, from any
\* process and after any restart, unless a clean-up could not read its record: none
\* takes what another one writes, and no failed write or removal does.
AvailableUntilExpiry == announced \ (expired \cup unread) \subseteq data \cap record

\* A process that is between the two files of i.
Busy(i) == \E p \in Procs : victim[p] = i \/ (cur[p] = i /\ pc[p] = "record")

\* Data without a record, which no clean-up looks for, comes only from a save that was
\* killed between its files and from removals of data that failed; a record without data
\* only from a removal that was killed or failed.
OrphansHaveCause ==
  \A i \in Ids : ~Busy(i) =>
    /\ i \in data \ record => i \in dataLeft
    /\ i \in record \ data => i \in recordLeft

\* Files of several processes, failures and kills between them implement a store whose
\* entries expire.
Store == INSTANCE ExpiringStore WITH
  available <- data \cap record,
  spent     <- announced
ImplementsExpiringStore == Store!Spec
=============================================================================
