-------------------------- MODULE ArtifactsProofs --------------------------
(***************************************************************************)
(* The invariants of the screenshot store, for any number of processes on  *)
(* one data directory and any set of IDs.                                  *)
(***************************************************************************)
EXTENDS Artifacts, TLAPS

\* The process is saving a screenshot.
Saves(p) == pc[p] \in {"forget", "scan", "data", "record"}

\* What a call has in its hands, and what has an ID from randomHex; a record is written
\* when its URL is about to be returned.
UsedInv ==
  /\ data \cup announced \subseteq used /\ record \subseteq announced
  /\ \A p \in Procs :
       /\ items[p] \cup todo[p] \cup ({victim[p]} \ {NoId}) \subseteq used
       /\ Saves(p) \/ pc[p] = "read" => cur[p] \in used

\* Nobody else knows the ID that a process is saving under.
PrivateInv ==
  \A p \in Procs : Saves(p) =>
    /\ cur[p] \notin record \cup announced
    /\ cur[p] \in data <=> pc[p] = "record"
    /\ \A q \in Procs :
         /\ cur[p] \notin items[q] \cup todo[q] \cup {victim[q]}
         /\ q # p /\ (Saves(q) \/ pc[q] = "read") => cur[q] # cur[p]

\* What is or will be removed: it has expired or could not be read.
Doomed == expired \cup unread

\* Clocks only show what has expired; what is being removed is doomed, and its data is
\* gone unless the removal of the data failed; a listed record is there or doomed.
ExpiryInv ==
  \A p \in Procs :
    /\ now[p] \subseteq expired
    /\ victim[p] # NoId => pc[p] \in {"forget", "scan", "gone"} /\ victim[p] \in Doomed \ (data \ dataLeft)
    /\ todo[p] \subseteq record \cup Doomed

LEMMA TypeInit == Init => TypeOK
  BY ArtifactsAssumption DEF ArtifactsAssumption, Init, TypeOK

LEMMA InvInit == Init => UsedInv /\ PrivateInv /\ ExpiryInv /\ AvailableUntilExpiry /\ OrphansHaveCause
  BY ArtifactsAssumption DEF ArtifactsAssumption, Init, UsedInv, PrivateInv, ExpiryInv, AvailableUntilExpiry, OrphansHaveCause, Saves

-----------------------------------------------------------------------------
\* The variables keep their types.
LEMMA TypeStep == TypeOK /\ [Next]_vars => TypeOK'
  <1> SUFFICES ASSUME TypeOK, [Next]_vars PROVE TypeOK'
    OBVIOUS
  <1>1. ASSUME NEW p \in Procs, NEW i \in Ids, NEW n \in SUBSET Ids, Save(p, i, n) PROVE TypeOK'
    BY <1>1 DEF Save, Goto, leftVars, fileVars, TypeOK
  <1>2. ASSUME NEW p \in Procs, NEW i \in Ids, NEW n \in SUBSET Ids, ServeExpired(p, i, n) PROVE TypeOK'
    BY <1>2 DEF ServeExpired, RemoveData, DeleteData, Goto, TypeOK
  <1>3. ASSUME NEW p \in Procs, NEW i \in Ids, NEW n \in SUBSET Ids, ServeFromDisk(p, i, n) PROVE TypeOK'
    BY <1>3 DEF ServeFromDisk, Goto, fileVars, histVars, leftVars, TypeOK
  <1>4. ASSUME NEW p \in Procs, NEW i \in Ids, ForgetExpired(p, i) PROVE TypeOK'
    BY <1>4 DEF ForgetExpired, RemoveData, DeleteData, TypeOK
  <1>5. ASSUME NEW p \in Procs, NEW i \in Ids, KeepRecord(p, i) PROVE TypeOK'
    BY <1>5 DEF KeepRecord, fileVars, histVars, leftVars, TypeOK
  <1>6. ASSUME NEW p \in Procs, NEW i \in Ids, DropRecord(p, i) PROVE TypeOK'
    BY <1>6 DEF DropRecord, RemoveData, DeleteData, TypeOK
  <1>7. ASSUME NEW p \in Procs, NEW i \in Ids, DropUnread(p, i) PROVE TypeOK'
    BY <1>7 DEF DropUnread, RemoveData, DeleteData, TypeOK
  <1>8. ASSUME NEW p \in Procs, ListRecords(p) PROVE TypeOK'
    BY <1>8 DEF ListRecords, Goto, fileVars, histVars, leftVars, TypeOK
  <1>9. ASSUME NEW p \in Procs, CleanedUp(p) PROVE TypeOK'
    BY <1>9 DEF CleanedUp, Goto, fileVars, histVars, leftVars, TypeOK
  <1>10. ASSUME NEW p \in Procs, RemoveRecord(p) PROVE TypeOK'
    BY <1>10 DEF RemoveRecord, Return, TypeOK
  <1>11. ASSUME NEW p \in Procs, WriteData(p) PROVE TypeOK'
    BY <1>11 DEF WriteData, Goto, histVars, leftVars, TypeOK
  <1>12. ASSUME NEW p \in Procs, WriteDataFails(p) PROVE TypeOK'
    BY <1>12 DEF WriteDataFails, Return, fileVars, histVars, leftVars, TypeOK
  <1>13. ASSUME NEW p \in Procs, WriteRecord(p) PROVE TypeOK'
    BY <1>13 DEF WriteRecord, Return, leftVars, TypeOK
  <1>14. ASSUME NEW p \in Procs, WriteRecordFails(p) PROVE TypeOK'
    BY <1>14 DEF WriteRecordFails, DeleteData, Return, TypeOK
  <1>15. ASSUME NEW p \in Procs, ReadData(p) PROVE TypeOK'
    BY <1>15 DEF ReadData, Return, fileVars, histVars, leftVars, TypeOK
  <1>16. ASSUME NEW p \in Procs, Begin(p) PROVE TypeOK'
    BY <1>16 DEF Begin, Goto, fileVars, histVars, leftVars, TypeOK
  <1>17. ASSUME NEW p \in Procs, Kill(p) PROVE TypeOK'
    BY <1>17 DEF Kill, fileVars, TypeOK
  <1>18. ASSUME NEW i \in Ids, Expire(i) PROVE TypeOK'
    BY <1>18 DEF Expire, fileVars, callVars, histVars, leftVars, TypeOK
  <1>19. CASE UNCHANGED vars
    BY <1>19 DEF vars, fileVars, callVars, histVars, leftVars, TypeOK
  <1>20. QED
    BY <1>1, <1>2, <1>3, <1>4, <1>5, <1>6, <1>7, <1>8, <1>9, <1>10, <1>11, <1>12, <1>13, <1>14, <1>15, <1>16, <1>17, <1>18, <1>19 DEF Next

\* An ID is used before anything has it.
LEMMA UsedStep == TypeOK /\ UsedInv /\ [Next]_vars => UsedInv'
  <1> SUFFICES ASSUME TypeOK /\ UsedInv, [Next]_vars PROVE UsedInv'
    OBVIOUS
  <1>1. ASSUME NEW p \in Procs, NEW i \in Ids, NEW n \in SUBSET Ids, Save(p, i, n) PROVE UsedInv'
    BY <1>1, ArtifactsAssumption DEF ArtifactsAssumption, Save, Goto, leftVars, fileVars, TypeOK, UsedInv, Saves
  <1>2. ASSUME NEW p \in Procs, NEW i \in Ids, NEW n \in SUBSET Ids, ServeExpired(p, i, n) PROVE UsedInv'
    BY <1>2, ArtifactsAssumption DEF ArtifactsAssumption, ServeExpired, RemoveData, DeleteData, Goto, TypeOK, UsedInv, Saves
  <1>3. ASSUME NEW p \in Procs, NEW i \in Ids, NEW n \in SUBSET Ids, ServeFromDisk(p, i, n) PROVE UsedInv'
    BY <1>3, ArtifactsAssumption DEF ArtifactsAssumption, ServeFromDisk, Goto, fileVars, histVars, leftVars, TypeOK, UsedInv, Saves
  <1>4. ASSUME NEW p \in Procs, NEW i \in Ids, ForgetExpired(p, i) PROVE UsedInv'
    BY <1>4, ArtifactsAssumption DEF ArtifactsAssumption, ForgetExpired, RemoveData, DeleteData, TypeOK, UsedInv, Saves
  <1>5. ASSUME NEW p \in Procs, NEW i \in Ids, KeepRecord(p, i) PROVE UsedInv'
    BY <1>5, ArtifactsAssumption DEF ArtifactsAssumption, KeepRecord, fileVars, histVars, leftVars, TypeOK, UsedInv, Saves
  <1>6. ASSUME NEW p \in Procs, NEW i \in Ids, DropRecord(p, i) PROVE UsedInv'
    BY <1>6, ArtifactsAssumption DEF ArtifactsAssumption, DropRecord, RemoveData, DeleteData, TypeOK, UsedInv, Saves
  <1>7. ASSUME NEW p \in Procs, NEW i \in Ids, DropUnread(p, i) PROVE UsedInv'
    BY <1>7, ArtifactsAssumption DEF ArtifactsAssumption, DropUnread, RemoveData, DeleteData, TypeOK, UsedInv, Saves
  <1>8. ASSUME NEW p \in Procs, ListRecords(p) PROVE UsedInv'
    BY <1>8, ArtifactsAssumption DEF ArtifactsAssumption, ListRecords, Goto, fileVars, histVars, leftVars, TypeOK, UsedInv, Saves
  <1>9. ASSUME NEW p \in Procs, CleanedUp(p) PROVE UsedInv'
    BY <1>9, ArtifactsAssumption DEF ArtifactsAssumption, CleanedUp, Goto, fileVars, histVars, leftVars, TypeOK, UsedInv, Saves
  <1>10. ASSUME NEW p \in Procs, RemoveRecord(p) PROVE UsedInv'
    BY <1>10, ArtifactsAssumption DEF ArtifactsAssumption, RemoveRecord, Return, TypeOK, UsedInv, Saves
  <1>11. ASSUME NEW p \in Procs, WriteData(p) PROVE UsedInv'
    BY <1>11, ArtifactsAssumption DEF ArtifactsAssumption, WriteData, Goto, histVars, leftVars, TypeOK, UsedInv, Saves
  <1>12. ASSUME NEW p \in Procs, WriteDataFails(p) PROVE UsedInv'
    BY <1>12, ArtifactsAssumption DEF ArtifactsAssumption, WriteDataFails, Return, fileVars, histVars, leftVars, TypeOK, UsedInv, Saves
  <1>13. ASSUME NEW p \in Procs, WriteRecord(p) PROVE UsedInv'
    BY <1>13, ArtifactsAssumption DEF ArtifactsAssumption, WriteRecord, Return, leftVars, TypeOK, UsedInv, Saves
  <1>14. ASSUME NEW p \in Procs, WriteRecordFails(p) PROVE UsedInv'
    BY <1>14, ArtifactsAssumption DEF ArtifactsAssumption, WriteRecordFails, DeleteData, Return, TypeOK, UsedInv, Saves
  <1>15. ASSUME NEW p \in Procs, ReadData(p) PROVE UsedInv'
    BY <1>15, ArtifactsAssumption DEF ArtifactsAssumption, ReadData, Return, fileVars, histVars, leftVars, TypeOK, UsedInv, Saves
  <1>16. ASSUME NEW p \in Procs, Begin(p) PROVE UsedInv'
    BY <1>16, ArtifactsAssumption DEF ArtifactsAssumption, Begin, Goto, fileVars, histVars, leftVars, TypeOK, UsedInv, Saves
  <1>17. ASSUME NEW p \in Procs, Kill(p) PROVE UsedInv'
    BY <1>17, ArtifactsAssumption DEF ArtifactsAssumption, Kill, fileVars, TypeOK, UsedInv, Saves
  <1>18. ASSUME NEW i \in Ids, Expire(i) PROVE UsedInv'
    BY <1>18, ArtifactsAssumption DEF ArtifactsAssumption, Expire, fileVars, callVars, histVars, leftVars, TypeOK, UsedInv, Saves
  <1>19. CASE UNCHANGED vars
    BY <1>19 DEF vars, fileVars, callVars, histVars, leftVars, TypeOK, UsedInv, Saves
  <1>20. QED
    BY <1>1, <1>2, <1>3, <1>4, <1>5, <1>6, <1>7, <1>8, <1>9, <1>10, <1>11, <1>12, <1>13, <1>14, <1>15, <1>16, <1>17, <1>18, <1>19 DEF Next

\* The ID of a screenshot stays its writer's own until the record is written.
LEMMA PrivateStep == TypeOK /\ UsedInv /\ PrivateInv /\ [Next]_vars => PrivateInv'
  <1> SUFFICES ASSUME TypeOK /\ UsedInv /\ PrivateInv, [Next]_vars PROVE PrivateInv'
    OBVIOUS
  <1>1. ASSUME NEW p \in Procs, NEW i \in Ids, NEW n \in SUBSET Ids, Save(p, i, n) PROVE PrivateInv'
    BY <1>1, ArtifactsAssumption DEF ArtifactsAssumption, Save, Goto, leftVars, fileVars, TypeOK, UsedInv, PrivateInv, Saves
  <1>2. ASSUME NEW p \in Procs, NEW i \in Ids, NEW n \in SUBSET Ids, ServeExpired(p, i, n) PROVE PrivateInv'
    BY <1>2, ArtifactsAssumption DEF ArtifactsAssumption, ServeExpired, RemoveData, DeleteData, Goto, TypeOK, UsedInv, PrivateInv, Saves
  <1>3. ASSUME NEW p \in Procs, NEW i \in Ids, NEW n \in SUBSET Ids, ServeFromDisk(p, i, n) PROVE PrivateInv'
    BY <1>3, ArtifactsAssumption DEF ArtifactsAssumption, ServeFromDisk, Goto, fileVars, histVars, leftVars, TypeOK, UsedInv, PrivateInv, Saves
  <1>4. ASSUME NEW p \in Procs, NEW i \in Ids, ForgetExpired(p, i) PROVE PrivateInv'
    BY <1>4, ArtifactsAssumption DEF ArtifactsAssumption, ForgetExpired, RemoveData, DeleteData, TypeOK, UsedInv, PrivateInv, Saves
  <1>5. ASSUME NEW p \in Procs, NEW i \in Ids, KeepRecord(p, i) PROVE PrivateInv'
    BY <1>5, ArtifactsAssumption DEF ArtifactsAssumption, KeepRecord, fileVars, histVars, leftVars, TypeOK, UsedInv, PrivateInv, Saves
  <1>6. ASSUME NEW p \in Procs, NEW i \in Ids, DropRecord(p, i) PROVE PrivateInv'
    BY <1>6, ArtifactsAssumption DEF ArtifactsAssumption, DropRecord, RemoveData, DeleteData, TypeOK, UsedInv, PrivateInv, Saves
  <1>7. ASSUME NEW p \in Procs, NEW i \in Ids, DropUnread(p, i) PROVE PrivateInv'
    BY <1>7, ArtifactsAssumption DEF ArtifactsAssumption, DropUnread, RemoveData, DeleteData, TypeOK, UsedInv, PrivateInv, Saves
  <1>8. ASSUME NEW p \in Procs, ListRecords(p) PROVE PrivateInv'
    BY <1>8, ArtifactsAssumption DEF ArtifactsAssumption, ListRecords, Goto, fileVars, histVars, leftVars, TypeOK, UsedInv, PrivateInv, Saves
  <1>9. ASSUME NEW p \in Procs, CleanedUp(p) PROVE PrivateInv'
    BY <1>9, ArtifactsAssumption DEF ArtifactsAssumption, CleanedUp, Goto, fileVars, histVars, leftVars, TypeOK, UsedInv, PrivateInv, Saves
  <1>10. ASSUME NEW p \in Procs, RemoveRecord(p) PROVE PrivateInv'
    BY <1>10, ArtifactsAssumption DEF ArtifactsAssumption, RemoveRecord, Return, TypeOK, UsedInv, PrivateInv, Saves
  <1>11. ASSUME NEW p \in Procs, WriteData(p) PROVE PrivateInv'
    BY <1>11, ArtifactsAssumption DEF ArtifactsAssumption, WriteData, Goto, histVars, leftVars, TypeOK, UsedInv, PrivateInv, Saves
  <1>12. ASSUME NEW p \in Procs, WriteDataFails(p) PROVE PrivateInv'
    BY <1>12, ArtifactsAssumption DEF ArtifactsAssumption, WriteDataFails, Return, fileVars, histVars, leftVars, TypeOK, UsedInv, PrivateInv, Saves
  <1>13. ASSUME NEW p \in Procs, WriteRecord(p) PROVE PrivateInv'
    BY <1>13, ArtifactsAssumption DEF ArtifactsAssumption, WriteRecord, Return, leftVars, TypeOK, UsedInv, PrivateInv, Saves
  <1>14. ASSUME NEW p \in Procs, WriteRecordFails(p) PROVE PrivateInv'
    BY <1>14, ArtifactsAssumption DEF ArtifactsAssumption, WriteRecordFails, DeleteData, Return, TypeOK, UsedInv, PrivateInv, Saves
  <1>15. ASSUME NEW p \in Procs, ReadData(p) PROVE PrivateInv'
    BY <1>15, ArtifactsAssumption DEF ArtifactsAssumption, ReadData, Return, fileVars, histVars, leftVars, TypeOK, UsedInv, PrivateInv, Saves
  <1>16. ASSUME NEW p \in Procs, Begin(p) PROVE PrivateInv'
    BY <1>16, ArtifactsAssumption DEF ArtifactsAssumption, Begin, Goto, fileVars, histVars, leftVars, TypeOK, UsedInv, PrivateInv, Saves
  <1>17. ASSUME NEW p \in Procs, Kill(p) PROVE PrivateInv'
    BY <1>17, ArtifactsAssumption DEF ArtifactsAssumption, Kill, fileVars, TypeOK, UsedInv, PrivateInv, Saves
  <1>18. ASSUME NEW i \in Ids, Expire(i) PROVE PrivateInv'
    BY <1>18, ArtifactsAssumption DEF ArtifactsAssumption, Expire, fileVars, callVars, histVars, leftVars, TypeOK, UsedInv, PrivateInv, Saves
  <1>19. CASE UNCHANGED vars
    BY <1>19 DEF vars, fileVars, callVars, histVars, leftVars, TypeOK, UsedInv, PrivateInv, Saves
  <1>20. QED
    BY <1>1, <1>2, <1>3, <1>4, <1>5, <1>6, <1>7, <1>8, <1>9, <1>10, <1>11, <1>12, <1>13, <1>14, <1>15, <1>16, <1>17, <1>18, <1>19 DEF Next

\* Only what is doomed is removed.
LEMMA ExpiryStep == TypeOK /\ PrivateInv /\ ExpiryInv /\ [Next]_vars => ExpiryInv'
  <1> SUFFICES ASSUME TypeOK /\ PrivateInv /\ ExpiryInv, [Next]_vars PROVE ExpiryInv'
    OBVIOUS
  <1>1. ASSUME NEW p \in Procs, NEW i \in Ids, NEW n \in SUBSET Ids, Save(p, i, n) PROVE ExpiryInv'
    BY <1>1, ArtifactsAssumption DEF ArtifactsAssumption, Save, Goto, leftVars, fileVars, TypeOK, PrivateInv, ExpiryInv, Doomed, Saves
  <1>2. ASSUME NEW p \in Procs, NEW i \in Ids, NEW n \in SUBSET Ids, ServeExpired(p, i, n) PROVE ExpiryInv'
    BY <1>2, ArtifactsAssumption DEF ArtifactsAssumption, ServeExpired, RemoveData, DeleteData, Goto, TypeOK, PrivateInv, ExpiryInv, Doomed, Saves
  <1>3. ASSUME NEW p \in Procs, NEW i \in Ids, NEW n \in SUBSET Ids, ServeFromDisk(p, i, n) PROVE ExpiryInv'
    BY <1>3, ArtifactsAssumption DEF ArtifactsAssumption, ServeFromDisk, Goto, fileVars, histVars, leftVars, TypeOK, PrivateInv, ExpiryInv, Doomed, Saves
  <1>4. ASSUME NEW p \in Procs, NEW i \in Ids, ForgetExpired(p, i) PROVE ExpiryInv'
    BY <1>4, ArtifactsAssumption DEF ArtifactsAssumption, ForgetExpired, RemoveData, DeleteData, TypeOK, PrivateInv, ExpiryInv, Doomed, Saves
  <1>5. ASSUME NEW p \in Procs, NEW i \in Ids, KeepRecord(p, i) PROVE ExpiryInv'
    BY <1>5, ArtifactsAssumption DEF ArtifactsAssumption, KeepRecord, fileVars, histVars, leftVars, TypeOK, PrivateInv, ExpiryInv, Doomed, Saves
  <1>6. ASSUME NEW p \in Procs, NEW i \in Ids, DropRecord(p, i) PROVE ExpiryInv'
    BY <1>6, ArtifactsAssumption DEF ArtifactsAssumption, DropRecord, RemoveData, DeleteData, TypeOK, PrivateInv, ExpiryInv, Doomed, Saves
  <1>7. ASSUME NEW p \in Procs, NEW i \in Ids, DropUnread(p, i) PROVE ExpiryInv'
    BY <1>7, ArtifactsAssumption DEF ArtifactsAssumption, DropUnread, RemoveData, DeleteData, TypeOK, PrivateInv, ExpiryInv, Doomed, Saves
  <1>8. ASSUME NEW p \in Procs, ListRecords(p) PROVE ExpiryInv'
    BY <1>8, ArtifactsAssumption DEF ArtifactsAssumption, ListRecords, Goto, fileVars, histVars, leftVars, TypeOK, PrivateInv, ExpiryInv, Doomed, Saves
  <1>9. ASSUME NEW p \in Procs, CleanedUp(p) PROVE ExpiryInv'
    BY <1>9, ArtifactsAssumption DEF ArtifactsAssumption, CleanedUp, Goto, fileVars, histVars, leftVars, TypeOK, PrivateInv, ExpiryInv, Doomed, Saves
  <1>10. ASSUME NEW p \in Procs, RemoveRecord(p) PROVE ExpiryInv'
    BY <1>10, ArtifactsAssumption DEF ArtifactsAssumption, RemoveRecord, Return, TypeOK, PrivateInv, ExpiryInv, Doomed, Saves
  <1>11. ASSUME NEW p \in Procs, WriteData(p) PROVE ExpiryInv'
    BY <1>11, ArtifactsAssumption DEF ArtifactsAssumption, WriteData, Goto, histVars, leftVars, TypeOK, PrivateInv, ExpiryInv, Doomed, Saves
  <1>12. ASSUME NEW p \in Procs, WriteDataFails(p) PROVE ExpiryInv'
    BY <1>12, ArtifactsAssumption DEF ArtifactsAssumption, WriteDataFails, Return, fileVars, histVars, leftVars, TypeOK, PrivateInv, ExpiryInv, Doomed, Saves
  <1>13. ASSUME NEW p \in Procs, WriteRecord(p) PROVE ExpiryInv'
    BY <1>13, ArtifactsAssumption DEF ArtifactsAssumption, WriteRecord, Return, leftVars, TypeOK, PrivateInv, ExpiryInv, Doomed, Saves
  <1>14. ASSUME NEW p \in Procs, WriteRecordFails(p) PROVE ExpiryInv'
    BY <1>14, ArtifactsAssumption DEF ArtifactsAssumption, WriteRecordFails, DeleteData, Return, TypeOK, PrivateInv, ExpiryInv, Doomed, Saves
  <1>15. ASSUME NEW p \in Procs, ReadData(p) PROVE ExpiryInv'
    BY <1>15, ArtifactsAssumption DEF ArtifactsAssumption, ReadData, Return, fileVars, histVars, leftVars, TypeOK, PrivateInv, ExpiryInv, Doomed, Saves
  <1>16. ASSUME NEW p \in Procs, Begin(p) PROVE ExpiryInv'
    BY <1>16, ArtifactsAssumption DEF ArtifactsAssumption, Begin, Goto, fileVars, histVars, leftVars, TypeOK, PrivateInv, ExpiryInv, Doomed, Saves
  <1>17. ASSUME NEW p \in Procs, Kill(p) PROVE ExpiryInv'
    BY <1>17, ArtifactsAssumption DEF ArtifactsAssumption, Kill, fileVars, TypeOK, PrivateInv, ExpiryInv, Doomed, Saves
  <1>18. ASSUME NEW i \in Ids, Expire(i) PROVE ExpiryInv'
    BY <1>18, ArtifactsAssumption DEF ArtifactsAssumption, Expire, fileVars, callVars, histVars, leftVars, TypeOK, PrivateInv, ExpiryInv, Doomed, Saves
  <1>19. CASE UNCHANGED vars
    BY <1>19 DEF vars, fileVars, callVars, histVars, leftVars, TypeOK, PrivateInv, ExpiryInv, Doomed, Saves
  <1>20. QED
    BY <1>1, <1>2, <1>3, <1>4, <1>5, <1>6, <1>7, <1>8, <1>9, <1>10, <1>11, <1>12, <1>13, <1>14, <1>15, <1>16, <1>17, <1>18, <1>19 DEF Next

\* What was announced stays until it expires.
LEMMA AvailableStep == TypeOK /\ PrivateInv /\ ExpiryInv /\ AvailableUntilExpiry /\ [Next]_vars => AvailableUntilExpiry'
  <1> SUFFICES ASSUME TypeOK /\ PrivateInv /\ ExpiryInv /\ AvailableUntilExpiry, [Next]_vars PROVE AvailableUntilExpiry'
    OBVIOUS
  <1>1. ASSUME NEW p \in Procs, NEW i \in Ids, NEW n \in SUBSET Ids, Save(p, i, n) PROVE AvailableUntilExpiry'
    BY <1>1, ArtifactsAssumption DEF ArtifactsAssumption, Save, Goto, leftVars, fileVars, TypeOK, PrivateInv, ExpiryInv, Doomed, Saves, AvailableUntilExpiry
  <1>2. ASSUME NEW p \in Procs, NEW i \in Ids, NEW n \in SUBSET Ids, ServeExpired(p, i, n) PROVE AvailableUntilExpiry'
    BY <1>2, ArtifactsAssumption DEF ArtifactsAssumption, ServeExpired, RemoveData, DeleteData, Goto, TypeOK, PrivateInv, ExpiryInv, Doomed, Saves, AvailableUntilExpiry
  <1>3. ASSUME NEW p \in Procs, NEW i \in Ids, NEW n \in SUBSET Ids, ServeFromDisk(p, i, n) PROVE AvailableUntilExpiry'
    BY <1>3, ArtifactsAssumption DEF ArtifactsAssumption, ServeFromDisk, Goto, fileVars, histVars, leftVars, TypeOK, PrivateInv, ExpiryInv, Doomed, Saves, AvailableUntilExpiry
  <1>4. ASSUME NEW p \in Procs, NEW i \in Ids, ForgetExpired(p, i) PROVE AvailableUntilExpiry'
    BY <1>4, ArtifactsAssumption DEF ArtifactsAssumption, ForgetExpired, RemoveData, DeleteData, TypeOK, PrivateInv, ExpiryInv, Doomed, Saves, AvailableUntilExpiry
  <1>5. ASSUME NEW p \in Procs, NEW i \in Ids, KeepRecord(p, i) PROVE AvailableUntilExpiry'
    BY <1>5, ArtifactsAssumption DEF ArtifactsAssumption, KeepRecord, fileVars, histVars, leftVars, TypeOK, PrivateInv, ExpiryInv, Doomed, Saves, AvailableUntilExpiry
  <1>6. ASSUME NEW p \in Procs, NEW i \in Ids, DropRecord(p, i) PROVE AvailableUntilExpiry'
    BY <1>6, ArtifactsAssumption DEF ArtifactsAssumption, DropRecord, RemoveData, DeleteData, TypeOK, PrivateInv, ExpiryInv, Doomed, Saves, AvailableUntilExpiry
  <1>7. ASSUME NEW p \in Procs, NEW i \in Ids, DropUnread(p, i) PROVE AvailableUntilExpiry'
    BY <1>7, ArtifactsAssumption DEF ArtifactsAssumption, DropUnread, RemoveData, DeleteData, TypeOK, PrivateInv, ExpiryInv, Doomed, Saves, AvailableUntilExpiry
  <1>8. ASSUME NEW p \in Procs, ListRecords(p) PROVE AvailableUntilExpiry'
    BY <1>8, ArtifactsAssumption DEF ArtifactsAssumption, ListRecords, Goto, fileVars, histVars, leftVars, TypeOK, PrivateInv, ExpiryInv, Doomed, Saves, AvailableUntilExpiry
  <1>9. ASSUME NEW p \in Procs, CleanedUp(p) PROVE AvailableUntilExpiry'
    BY <1>9, ArtifactsAssumption DEF ArtifactsAssumption, CleanedUp, Goto, fileVars, histVars, leftVars, TypeOK, PrivateInv, ExpiryInv, Doomed, Saves, AvailableUntilExpiry
  <1>10. ASSUME NEW p \in Procs, RemoveRecord(p) PROVE AvailableUntilExpiry'
    BY <1>10, ArtifactsAssumption DEF ArtifactsAssumption, RemoveRecord, Return, TypeOK, PrivateInv, ExpiryInv, Doomed, Saves, AvailableUntilExpiry
  <1>11. ASSUME NEW p \in Procs, WriteData(p) PROVE AvailableUntilExpiry'
    BY <1>11, ArtifactsAssumption DEF ArtifactsAssumption, WriteData, Goto, histVars, leftVars, TypeOK, PrivateInv, ExpiryInv, Doomed, Saves, AvailableUntilExpiry
  <1>12. ASSUME NEW p \in Procs, WriteDataFails(p) PROVE AvailableUntilExpiry'
    BY <1>12, ArtifactsAssumption DEF ArtifactsAssumption, WriteDataFails, Return, fileVars, histVars, leftVars, TypeOK, PrivateInv, ExpiryInv, Doomed, Saves, AvailableUntilExpiry
  <1>13. ASSUME NEW p \in Procs, WriteRecord(p) PROVE AvailableUntilExpiry'
    BY <1>13, ArtifactsAssumption DEF ArtifactsAssumption, WriteRecord, Return, leftVars, TypeOK, PrivateInv, ExpiryInv, Doomed, Saves, AvailableUntilExpiry
  <1>14. ASSUME NEW p \in Procs, WriteRecordFails(p) PROVE AvailableUntilExpiry'
    BY <1>14, ArtifactsAssumption DEF ArtifactsAssumption, WriteRecordFails, DeleteData, Return, TypeOK, PrivateInv, ExpiryInv, Doomed, Saves, AvailableUntilExpiry
  <1>15. ASSUME NEW p \in Procs, ReadData(p) PROVE AvailableUntilExpiry'
    BY <1>15, ArtifactsAssumption DEF ArtifactsAssumption, ReadData, Return, fileVars, histVars, leftVars, TypeOK, PrivateInv, ExpiryInv, Doomed, Saves, AvailableUntilExpiry
  <1>16. ASSUME NEW p \in Procs, Begin(p) PROVE AvailableUntilExpiry'
    BY <1>16, ArtifactsAssumption DEF ArtifactsAssumption, Begin, Goto, fileVars, histVars, leftVars, TypeOK, PrivateInv, ExpiryInv, Doomed, Saves, AvailableUntilExpiry
  <1>17. ASSUME NEW p \in Procs, Kill(p) PROVE AvailableUntilExpiry'
    BY <1>17, ArtifactsAssumption DEF ArtifactsAssumption, Kill, fileVars, TypeOK, PrivateInv, ExpiryInv, Doomed, Saves, AvailableUntilExpiry
  <1>18. ASSUME NEW i \in Ids, Expire(i) PROVE AvailableUntilExpiry'
    BY <1>18, ArtifactsAssumption DEF ArtifactsAssumption, Expire, fileVars, callVars, histVars, leftVars, TypeOK, PrivateInv, ExpiryInv, Doomed, Saves, AvailableUntilExpiry
  <1>19. CASE UNCHANGED vars
    BY <1>19 DEF vars, fileVars, callVars, histVars, leftVars, TypeOK, PrivateInv, ExpiryInv, Doomed, Saves, AvailableUntilExpiry
  <1>20. QED
    BY <1>1, <1>2, <1>3, <1>4, <1>5, <1>6, <1>7, <1>8, <1>9, <1>10, <1>11, <1>12, <1>13, <1>14, <1>15, <1>16, <1>17, <1>18, <1>19 DEF Next

\* One file without the other belongs to a step in progress, to a kill or to a failed removal.
LEMMA OrphanStep == TypeOK /\ PrivateInv /\ ExpiryInv /\ OrphansHaveCause /\ [Next]_vars => OrphansHaveCause'
  <1> SUFFICES ASSUME TypeOK /\ PrivateInv /\ ExpiryInv /\ OrphansHaveCause, [Next]_vars PROVE OrphansHaveCause'
    OBVIOUS
  <1>1. ASSUME NEW p \in Procs, NEW i \in Ids, NEW n \in SUBSET Ids, Save(p, i, n) PROVE OrphansHaveCause'
    BY <1>1, ArtifactsAssumption DEF ArtifactsAssumption, Save, Goto, leftVars, fileVars, TypeOK, PrivateInv, ExpiryInv, Doomed, Saves, OrphansHaveCause, Busy
  <1>2. ASSUME NEW p \in Procs, NEW i \in Ids, NEW n \in SUBSET Ids, ServeExpired(p, i, n) PROVE OrphansHaveCause'
    BY <1>2, ArtifactsAssumption DEF ArtifactsAssumption, ServeExpired, RemoveData, DeleteData, Goto, TypeOK, PrivateInv, ExpiryInv, Doomed, Saves, OrphansHaveCause, Busy
  <1>3. ASSUME NEW p \in Procs, NEW i \in Ids, NEW n \in SUBSET Ids, ServeFromDisk(p, i, n) PROVE OrphansHaveCause'
    BY <1>3, ArtifactsAssumption DEF ArtifactsAssumption, ServeFromDisk, Goto, fileVars, histVars, leftVars, TypeOK, PrivateInv, ExpiryInv, Doomed, Saves, OrphansHaveCause, Busy
  <1>4. ASSUME NEW p \in Procs, NEW i \in Ids, ForgetExpired(p, i) PROVE OrphansHaveCause'
    BY <1>4, ArtifactsAssumption DEF ArtifactsAssumption, ForgetExpired, RemoveData, DeleteData, TypeOK, PrivateInv, ExpiryInv, Doomed, Saves, OrphansHaveCause, Busy
  <1>5. ASSUME NEW p \in Procs, NEW i \in Ids, KeepRecord(p, i) PROVE OrphansHaveCause'
    BY <1>5, ArtifactsAssumption DEF ArtifactsAssumption, KeepRecord, fileVars, histVars, leftVars, TypeOK, PrivateInv, ExpiryInv, Doomed, Saves, OrphansHaveCause, Busy
  <1>6. ASSUME NEW p \in Procs, NEW i \in Ids, DropRecord(p, i) PROVE OrphansHaveCause'
    BY <1>6, ArtifactsAssumption DEF ArtifactsAssumption, DropRecord, RemoveData, DeleteData, TypeOK, PrivateInv, ExpiryInv, Doomed, Saves, OrphansHaveCause, Busy
  <1>7. ASSUME NEW p \in Procs, NEW i \in Ids, DropUnread(p, i) PROVE OrphansHaveCause'
    BY <1>7, ArtifactsAssumption DEF ArtifactsAssumption, DropUnread, RemoveData, DeleteData, TypeOK, PrivateInv, ExpiryInv, Doomed, Saves, OrphansHaveCause, Busy
  <1>8. ASSUME NEW p \in Procs, ListRecords(p) PROVE OrphansHaveCause'
    BY <1>8, ArtifactsAssumption DEF ArtifactsAssumption, ListRecords, Goto, fileVars, histVars, leftVars, TypeOK, PrivateInv, ExpiryInv, Doomed, Saves, OrphansHaveCause, Busy
  <1>9. ASSUME NEW p \in Procs, CleanedUp(p) PROVE OrphansHaveCause'
    BY <1>9, ArtifactsAssumption DEF ArtifactsAssumption, CleanedUp, Goto, fileVars, histVars, leftVars, TypeOK, PrivateInv, ExpiryInv, Doomed, Saves, OrphansHaveCause, Busy
  <1>10. ASSUME NEW p \in Procs, RemoveRecord(p) PROVE OrphansHaveCause'
    BY <1>10, ArtifactsAssumption DEF ArtifactsAssumption, RemoveRecord, Return, TypeOK, PrivateInv, ExpiryInv, Doomed, Saves, OrphansHaveCause, Busy
  <1>11. ASSUME NEW p \in Procs, WriteData(p) PROVE OrphansHaveCause'
    BY <1>11, ArtifactsAssumption DEF ArtifactsAssumption, WriteData, Goto, histVars, leftVars, TypeOK, PrivateInv, ExpiryInv, Doomed, Saves, OrphansHaveCause, Busy
  <1>12. ASSUME NEW p \in Procs, WriteDataFails(p) PROVE OrphansHaveCause'
    BY <1>12, ArtifactsAssumption DEF ArtifactsAssumption, WriteDataFails, Return, fileVars, histVars, leftVars, TypeOK, PrivateInv, ExpiryInv, Doomed, Saves, OrphansHaveCause, Busy
  <1>13. ASSUME NEW p \in Procs, WriteRecord(p) PROVE OrphansHaveCause'
    BY <1>13, ArtifactsAssumption DEF ArtifactsAssumption, WriteRecord, Return, leftVars, TypeOK, PrivateInv, ExpiryInv, Doomed, Saves, OrphansHaveCause, Busy
  <1>14. ASSUME NEW p \in Procs, WriteRecordFails(p) PROVE OrphansHaveCause'
    BY <1>14, ArtifactsAssumption DEF ArtifactsAssumption, WriteRecordFails, DeleteData, Return, TypeOK, PrivateInv, ExpiryInv, Doomed, Saves, OrphansHaveCause, Busy
  <1>15. ASSUME NEW p \in Procs, ReadData(p) PROVE OrphansHaveCause'
    BY <1>15, ArtifactsAssumption DEF ArtifactsAssumption, ReadData, Return, fileVars, histVars, leftVars, TypeOK, PrivateInv, ExpiryInv, Doomed, Saves, OrphansHaveCause, Busy
  <1>16. ASSUME NEW p \in Procs, Begin(p) PROVE OrphansHaveCause'
    BY <1>16, ArtifactsAssumption DEF ArtifactsAssumption, Begin, Goto, fileVars, histVars, leftVars, TypeOK, PrivateInv, ExpiryInv, Doomed, Saves, OrphansHaveCause, Busy
  <1>17. ASSUME NEW p \in Procs, Kill(p) PROVE OrphansHaveCause'
    BY <1>17, ArtifactsAssumption DEF ArtifactsAssumption, Kill, fileVars, TypeOK, PrivateInv, ExpiryInv, Doomed, Saves, OrphansHaveCause, Busy
  <1>18. ASSUME NEW i \in Ids, Expire(i) PROVE OrphansHaveCause'
    BY <1>18, ArtifactsAssumption DEF ArtifactsAssumption, Expire, fileVars, callVars, histVars, leftVars, TypeOK, PrivateInv, ExpiryInv, Doomed, Saves, OrphansHaveCause, Busy
  <1>19. CASE UNCHANGED vars
    BY <1>19 DEF vars, fileVars, callVars, histVars, leftVars, TypeOK, PrivateInv, ExpiryInv, Doomed, Saves, OrphansHaveCause, Busy
  <1>20. QED
    BY <1>1, <1>2, <1>3, <1>4, <1>5, <1>6, <1>7, <1>8, <1>9, <1>10, <1>11, <1>12, <1>13, <1>14, <1>15, <1>16, <1>17, <1>18, <1>19 DEF Next
-----------------------------------------------------------------------------
IInv == TypeOK /\ UsedInv /\ PrivateInv /\ ExpiryInv

LEMMA Invariance == Spec => [](IInv /\ AvailableUntilExpiry /\ OrphansHaveCause)
  <1>1. Init => IInv /\ AvailableUntilExpiry /\ OrphansHaveCause
    BY TypeInit, InvInit DEF IInv
  <1>2. IInv /\ AvailableUntilExpiry /\ OrphansHaveCause /\ [Next]_vars
          => IInv' /\ AvailableUntilExpiry' /\ OrphansHaveCause'
    BY TypeStep, UsedStep, PrivateStep, ExpiryStep, AvailableStep, OrphanStep DEF IInv
  <1>3. QED
    BY <1>1, <1>2, PTL DEF Spec

\* Whatever is in the store's memory and files is well typed, and a call that is
\* saving or reading has an ID.
THEOREM TypeCorrect == Spec => []TypeOK
  BY Invariance, PTL DEF IInv

\* A screenshot whose URL a client has got stays available until it expires, unless a
\* clean-up cannot read its record, however many processes save, serve, clean up, fail to
\* write or to remove files and are killed on its directory.
THEOREM StaysAvailable == Spec => []AvailableUntilExpiry
  BY Invariance, PTL

\* A file without its counterpart comes from a kill in the middle of a save or a removal,
\* or from a removal of this very file that failed; failed writes leave none.
THEOREM OrphansHaveCauses == Spec => []OrphansHaveCause
  BY Invariance, PTL

-----------------------------------------------------------------------------
Available == data \cap record

LEMMA StoreStutters ==
  ASSUME Available' = Available, UNCHANGED <<announced, expired, unread>>
  PROVE  UNCHANGED Store!vars
  BY DEF Store!vars, Available

\* The first file of what is doomed to go makes it unavailable, if it can be removed.
LEMMA StoreRemoves ==
  ASSUME NEW p \in Procs, NEW i \in Ids, RemoveData(p, i), i \in record => i \in Doomed,
         UNCHANGED <<record, announced, expired, unread>>
  PROVE  Store!Next \/ UNCHANGED Store!vars
  <1>1. CASE i \in record /\ data' = data \ {i}
    BY <1>1 DEF Doomed, Store!Remove, Store!Next
  <1>2. CASE i \notin record \/ UNCHANGED data
    BY <1>2, StoreStutters DEF RemoveData, DeleteData, Available
  <1>3. QED
    BY <1>1, <1>2 DEF RemoveData, DeleteData

LEMMA StoreInit == Init => Store!Init
  BY DEF Init, Store!Init

\* Every operation on files, and every kill, is a step of the abstract store, or none.
LEMMA StoreStep == IInv /\ [Next]_vars => Store!Next \/ UNCHANGED Store!vars
  <1> DEFINE Implements == Store!Next \/ UNCHANGED Store!vars
  <1> SUFFICES ASSUME IInv, [Next]_vars PROVE Implements
    OBVIOUS
  <1> USE DEF IInv
  <1>1. ASSUME NEW p \in Procs, NEW i \in Ids, NEW n \in SUBSET Ids, Save(p, i, n) PROVE Implements
    BY <1>1, StoreStutters DEF Save, Goto, leftVars, fileVars, Available
  <1>2. ASSUME NEW p \in Procs, NEW i \in Ids, NEW n \in SUBSET Ids, ServeExpired(p, i, n) PROVE Implements
    <2>1. RemoveData(p, i) /\ UNCHANGED <<record, announced, expired, unread>>
      BY <1>2 DEF ServeExpired
    <2>2. i \in record => i \in Doomed
      BY <1>2 DEF ServeExpired, ExpiryInv, Doomed
    <2>3. QED
      BY <2>1, <2>2, StoreRemoves
  <1>3. ASSUME NEW p \in Procs, NEW i \in Ids, NEW n \in SUBSET Ids, ServeFromDisk(p, i, n) PROVE Implements
    BY <1>3, StoreStutters DEF ServeFromDisk, fileVars, histVars, leftVars, Available
  <1>4. ASSUME NEW p \in Procs, NEW i \in Ids, ForgetExpired(p, i) PROVE Implements
    <2>1. RemoveData(p, i) /\ UNCHANGED <<record, announced, expired, unread>>
      BY <1>4 DEF ForgetExpired
    <2>2. i \in record => i \in Doomed
      BY <1>4 DEF ForgetExpired, ExpiryInv, Doomed
    <2>3. QED
      BY <2>1, <2>2, StoreRemoves
  <1>5. ASSUME NEW p \in Procs, NEW i \in Ids, KeepRecord(p, i) PROVE Implements
    BY <1>5, StoreStutters DEF KeepRecord, fileVars, histVars, leftVars, Available
  <1>6. ASSUME NEW p \in Procs, NEW i \in Ids, DropRecord(p, i) PROVE Implements
    <2>1. RemoveData(p, i) /\ UNCHANGED <<record, announced, expired, unread>>
      BY <1>6 DEF DropRecord
    <2>2. i \in record => i \in Doomed
      BY <1>6 DEF DropRecord, ExpiryInv, Doomed
    <2>3. QED
      BY <2>1, <2>2, StoreRemoves
  <1>7. ASSUME NEW p \in Procs, NEW i \in Ids, DropUnread(p, i) PROVE Implements
    <2>1. PICK d \in {data, data \ {i}} : data' = d
      BY <1>7 DEF DropUnread, RemoveData, DeleteData
    <2>2. i \in announced
      BY <1>7 DEF DropUnread, UsedInv
    <2>3. Store!Misread(i)
      BY <1>7, <2>1, <2>2 DEF DropUnread, Store!Misread
    <2>4. QED
      BY <2>3 DEF Store!Next
  <1>8. ASSUME NEW p \in Procs, ListRecords(p) PROVE Implements
    BY <1>8, StoreStutters DEF ListRecords, fileVars, histVars, leftVars, Available
  <1>9. ASSUME NEW p \in Procs, CleanedUp(p) PROVE Implements
    BY <1>9, StoreStutters DEF CleanedUp, fileVars, histVars, leftVars, Available
  <1>10. ASSUME NEW p \in Procs, RemoveRecord(p) PROVE Implements
    <2>1. PICK i \in Ids : i = victim[p]
      BY <1>10 DEF RemoveRecord, TypeOK
    <2>2. i \in expired \cup unread
      BY <1>10, <2>1 DEF RemoveRecord, ExpiryInv, Doomed
    <2>3. CASE record' = record \ {i}
      <3>1. Store!Remove(i)
        BY <1>10, <2>2, <2>3 DEF RemoveRecord, Store!Remove
      <3>2. QED
        BY <3>1 DEF Store!Next
    <2>4. CASE UNCHANGED record
      BY <1>10, <2>4, StoreStutters DEF RemoveRecord, Available
    <2>5. QED
      BY <1>10, <2>1, <2>3, <2>4 DEF RemoveRecord
  <1>11. ASSUME NEW p \in Procs, WriteData(p) PROVE Implements
    BY <1>11, StoreStutters DEF WriteData, histVars, leftVars, PrivateInv, Saves, Available
  <1>12. ASSUME NEW p \in Procs, WriteDataFails(p) PROVE Implements
    BY <1>12, StoreStutters DEF WriteDataFails, fileVars, histVars, leftVars, Available
  <1>13. ASSUME NEW p \in Procs, WriteRecord(p) PROVE Implements
    <2>1. PICK i \in Ids : i = cur[p]
      BY <1>13 DEF WriteRecord, TypeOK
    <2>2. i \in data /\ i \notin announced
      BY <1>13, <2>1 DEF WriteRecord, PrivateInv, Saves
    <2>3. Store!Add(i)
      BY <1>13, <2>1, <2>2 DEF WriteRecord, Store!Add
    <2>4. QED
      BY <2>3 DEF Store!Next
  <1>14. ASSUME NEW p \in Procs, WriteRecordFails(p) PROVE Implements
    BY <1>14, StoreStutters DEF WriteRecordFails, DeleteData, PrivateInv, Saves, Available
  <1>15. ASSUME NEW p \in Procs, ReadData(p) PROVE Implements
    BY <1>15, StoreStutters DEF ReadData, fileVars, histVars, leftVars, Available
  <1>16. ASSUME NEW p \in Procs, Begin(p) PROVE Implements
    BY <1>16, StoreStutters DEF Begin, fileVars, histVars, leftVars, Available
  <1>17. ASSUME NEW p \in Procs, Kill(p) PROVE Implements
    BY <1>17, StoreStutters DEF Kill, fileVars, Available
  <1>18. ASSUME NEW i \in Ids, Expire(i) PROVE Implements
    BY <1>18 DEF Expire, fileVars, histVars, leftVars, Store!Expire, Store!Next
  <1>19. CASE UNCHANGED vars
    BY <1>19, StoreStutters DEF vars, fileVars, histVars, leftVars, Available
  <1>20. QED
    BY <1>1, <1>2, <1>3, <1>4, <1>5, <1>6, <1>7, <1>8, <1>9, <1>10, <1>11, <1>12, <1>13, <1>14,
       <1>15, <1>16, <1>17, <1>18, <1>19 DEF Next

\* Saves, requests, clean-ups and kills of any number of processes on one data directory
\* implement a store in which nothing is lost before it expires or turns out to be
\* unreadable, and nothing comes back.
THEOREM StoreIsImplemented == Spec => ImplementsExpiringStore
  BY StoreInit, StoreStep, Invariance, PTL DEF Spec, ImplementsExpiringStore, Store!Spec
=============================================================================
