------------------------ MODULE RuntimeInstallProofs ------------------------
(***************************************************************************)
(* What the installer guarantees, for any number of runtime versions, any  *)
(* archive and any set of runtimes.                                        *)
(***************************************************************************)
EXTENDS RuntimeInstall, TLAPS

\* The config that a server has started from can be decoded.
ConfigInv == pc # "idle" /\ mode # "install" => config # Broken

\* An executable has been found, or is being extracted or moved to where it will be.
FindInv ==
  /\ pc \in {"extract", "write"} /\ Binary \notin todo => files[Target][Binary] # 0
  /\ pc = "write" => at \in todo
  /\ pc = "write" => files[Target][at] # 0
  /\ pc = "flatten" => \A f \in todo : files[at][f] # 0
  /\ pc \in {"flatten", "find"} => FindBinary # {}

\* The binary that a server has decided to use was there.
PathInv ==
  pc \in {"configure", "serving"} /\ mode = "serve" /\ Enabled /\ ~disturbed
    => path \in Places /\ files[path][Binary] # 0

Installing == pc \in {"download", "extract", "write", "flatten", "find"}
Serves == pc \in {"configure", "serving"} /\ mode = "serve" /\ Enabled

TargetOf(v) == IF runtime \in Wrapped THEN v ELSE Top

\* With one version, the marker promises a complete executable, and an unfinished one
\* is only where the next extraction writes over it.
OneVersion(v) ==
  /\ marker \in {0, v}
  /\ Installing => marker = 0
  /\ marker # 0 => FindBinary # {}
  /\ pc \in {"extract", "write"} /\ Binary \notin todo => files[TargetOf(v)][Binary] = v
  /\ \A q \in Places :
       \/ files[q][Binary] \in {0, v}
       \/ /\ files[q][Binary] = -v /\ q = TargetOf(v) /\ marker = 0
          /\ pc \notin {"flatten", "find"} /\ ~Serves
          /\ pc \in {"extract", "write"} => Binary \in todo

BinaryInv == \A v \in Versions : ~disturbed /\ seen \subseteq {v} => OneVersion(v)

\* Nobody has gone back: the present version is the newest, and the marker one of those seen.
VersionInv ==
  /\ ~disturbed /\ pc # "idle" => \A u \in seen : u <= expected
  /\ marker \in seen \cup {0}

\* Whether every part of version v is in the directory itself.
Whole(v) == \A f \in Parts : files[Top][f] = v

\* An archive without a folder leaves everything in the directory itself, ...
FlatInv ==
  runtime \notin Wrapped =>
    /\ \A v \in Versions : files[v][Binary] = 0
    /\ config \in {Top, NoPath, Broken}
    /\ path \in {Top, NoPath}
    /\ pc # "flatten"

\* ... where the newest marker is only found with everything it promises.
WholeInv ==
  runtime \notin Wrapped =>
    /\ pc \in {"extract", "write"} => \A f \in Parts \ todo : files[Top][f] = expected
    /\ pc = "find" => Whole(expected)
    /\ ~disturbed =>
         /\ marker # 0 /\ (\A u \in seen : u <= marker) => Whole(marker)
         /\ pc \in {"download", "extract", "write"} => marker # expected
         /\ Serves => path = Top /\ Whole(expected)

Contents == [Parts -> -MaxVersion..MaxVersion]

LEMMA FilesChange ==
  ASSUME files \in [Places -> Contents], NEW q \in Places, NEW f \in Parts, NEW n \in -MaxVersion..MaxVersion
  PROVE  [files EXCEPT ![q][f] = n] \in [Places -> Contents]
  BY DEF Contents

LEMMA InvInit ==
  Init => TypeOK /\ ConfigInv /\ FindInv /\ PathInv /\ BinaryInv /\ VersionInv /\ FlatInv /\ WholeInv
  <1> SUFFICES ASSUME Init
               PROVE  TypeOK /\ ConfigInv /\ FindInv /\ PathInv /\ BinaryInv /\ VersionInv /\ FlatInv /\ WholeInv
    OBVIOUS
  <1>1. files = [q \in Places |-> [f \in Parts |-> 0]] /\ 0 \in -MaxVersion..MaxVersion
    BY InstallAssumption DEF InstallAssumption, Init, Empty
  <1>2. TypeOK
    <2> DEFINE nothing == [f \in Parts |-> 0]
    <2>0. nothing \in [Parts -> -MaxVersion..MaxVersion]
      BY <1>1
    <2> HIDE DEF nothing
    <2>1. files \in [Places -> [Parts -> -MaxVersion..MaxVersion]]
      <3>1. files = [q \in Places |-> nothing]
        BY <1>1, Zenon DEF nothing
      <3>2. QED
        BY <2>0, <3>1
    <2>2. 0 \in Places
      BY InstallAssumption DEF InstallAssumption, Places
    <2>3. QED
      BY <2>1, <2>2 DEF Init, TypeOK
  <1>3. ConfigInv /\ FindInv /\ PathInv
    BY DEF Init, ConfigInv, FindInv, PathInv
  <1>4. \A q \in Places : files[q][Binary] = 0
    BY <1>1, InstallAssumption DEF InstallAssumption
  <1>5. BinaryInv
    BY <1>4 DEF Init, BinaryInv, OneVersion, Installing
  <1>6. VersionInv /\ FlatInv /\ WholeInv
    BY <1>4, InstallAssumption DEF InstallAssumption, Init, VersionInv, FlatInv, WholeInv, Serves, Versions, Places
  <1>7. QED
    BY <1>2, <1>3, <1>5, <1>6

-----------------------------------------------------------------------------
\* The variables keep their types.
LEMMA TypeStep == TypeOK /\ ConfigInv /\ [Next]_vars => TypeOK'
  <1> SUFFICES ASSUME TypeOK /\ ConfigInv, [Next]_vars PROVE TypeOK'
    OBVIOUS
  <1>1. ASSUME NEW m \in {"serve", "pinned", "install"}, NEW v \in Versions, Start(m, v) PROVE TypeOK'
    BY <1>1, InstallAssumption DEF InstallAssumption, Start, diskVars, confVars, TypeOK, Places, Versions, Top, NoPath, Broken, ConfigInv
  <1>2. ASSUME Disabled PROVE TypeOK'
    BY <1>2, InstallAssumption DEF InstallAssumption, Disabled, diskVars, confVars, TypeOK, Places, Versions, Top, NoPath, Broken, ConfigInv
  <1>3. ASSUME UseInstalled PROVE TypeOK'
    BY <1>3, InstallAssumption DEF InstallAssumption, UseInstalled, diskVars, confVars, TypeOK, Places, Versions, Top, NoPath, Broken, ConfigInv, Existing, FindBinary
  <1>4. ASSUME PinnedWithoutBinary PROVE TypeOK'
    BY <1>4, InstallAssumption DEF InstallAssumption, PinnedWithoutBinary, Exit, diskVars, confVars, TypeOK, Places, Versions, Top, NoPath, Broken, ConfigInv
  <1>5. ASSUME AlreadyInstalled PROVE TypeOK'
    BY <1>5, InstallAssumption DEF InstallAssumption, AlreadyInstalled, Exit, diskVars, confVars, TypeOK, Places, Versions, Top, NoPath, Broken, ConfigInv
  <1>6. ASSUME Download PROVE TypeOK'
    BY <1>6, InstallAssumption DEF InstallAssumption, Download, diskVars, confVars, TypeOK, Places, Versions, Top, NoPath, Broken, ConfigInv
  <1>7. ASSUME Downloaded PROVE TypeOK'
    BY <1>7, InstallAssumption DEF InstallAssumption, Downloaded, diskVars, confVars, TypeOK, Places, Versions, Top, NoPath, Broken, ConfigInv
  <1>8. ASSUME NEW f \in Parts, ExtractPart(f) PROVE TypeOK'
    <2>1. Target \in Places /\ -expected \in -MaxVersion..MaxVersion
      BY <1>8, InstallAssumption DEF InstallAssumption, ExtractPart, TypeOK, Target, Places, Versions, Top
    <2>2. files' \in [Places -> Contents]
      BY <1>8, <2>1, FilesChange DEF ExtractPart, TypeOK, Contents
    <2>3. QED
      BY <1>8, <2>2 DEF ExtractPart, confVars, TypeOK, Contents
  <1>9. ASSUME PartExtracted PROVE TypeOK'
    <2>1. Target \in Places /\ at \in Parts /\ expected \in -MaxVersion..MaxVersion
      BY <1>9, InstallAssumption DEF InstallAssumption, PartExtracted, TypeOK, Target, Places, Versions, Top
    <2>2. files' \in [Places -> Contents]
      BY <1>9, <2>1, FilesChange DEF PartExtracted, TypeOK, Contents
    <2>3. QED
      BY <1>9, <2>2 DEF PartExtracted, confVars, TypeOK, Contents
  <1>10. ASSUME NothingToFlatten PROVE TypeOK'
    BY <1>10, InstallAssumption DEF InstallAssumption, NothingToFlatten, diskVars, confVars, TypeOK, Places, Versions, Top, NoPath, Broken, ConfigInv
  <1>11. ASSUME NEW v \in Versions, FlattenFolder(v) PROVE TypeOK'
    BY <1>11, InstallAssumption DEF InstallAssumption, FlattenFolder, diskVars, confVars, TypeOK, Places, Versions, Top, NoPath, Broken, ConfigInv
  <1>12. ASSUME NEW f \in Parts, MoveUp(f) PROVE TypeOK'
    <2>1. at \in Versions /\ at \in Places /\ Top \in Places /\ 0 \in -MaxVersion..MaxVersion
      BY <1>12, InstallAssumption DEF InstallAssumption, MoveUp, TypeOK, Places, Versions, Top
    <2>2. files[at][f] \in -MaxVersion..MaxVersion
      BY <2>1 DEF TypeOK
    <2> DEFINE up == [files EXCEPT ![Top][f] = files[at][f]]
    <2>3. up \in [Places -> Contents]
      BY <2>1, <2>2, FilesChange DEF TypeOK, Contents
    <2>4. files' = [up EXCEPT ![at][f] = 0]
      BY <1>12, Zenon DEF MoveUp
    <2> HIDE DEF up
    <2>5. files' \in [Places -> Contents]
      BY <2>1, <2>3, <2>4 DEF Contents
    <2>6. QED
      BY <1>12, <2>1, <2>5 DEF MoveUp, confVars, TypeOK, Contents
  <1>13. ASSUME Flattened PROVE TypeOK'
    BY <1>13, InstallAssumption DEF InstallAssumption, Flattened, diskVars, confVars, TypeOK, Places, Versions, Top, NoPath, Broken, ConfigInv
  <1>14. ASSUME Install PROVE TypeOK'
    BY <1>14, InstallAssumption, SMTT(60) DEF InstallAssumption, Install, Exit, confVars, TypeOK, Places, Versions, Top, NoPath, Broken, ConfigInv, FindBinary
  <1>15. ASSUME WriteConfig PROVE TypeOK'
    BY <1>15, InstallAssumption DEF InstallAssumption, WriteConfig, diskVars, TypeOK, Places, Versions, Top, NoPath, Broken, ConfigInv
  <1>16. ASSUME WriteConfigBreaks PROVE TypeOK'
    BY <1>16, InstallAssumption DEF InstallAssumption, WriteConfigBreaks, Exit, diskVars, TypeOK, Places, Versions, Top, NoPath, Broken, ConfigInv
  <1>17. ASSUME Stop PROVE TypeOK'
    BY <1>17, InstallAssumption DEF InstallAssumption, Stop, Exit, diskVars, confVars, TypeOK, Places, Versions, Top, NoPath, Broken, ConfigInv
  <1>18. ASSUME WriteDefaultConfig PROVE TypeOK'
    BY <1>18, InstallAssumption DEF InstallAssumption, WriteDefaultConfig, callVars, diskVars, TypeOK, Places, Versions, Top, NoPath, Broken, ConfigInv, FindBinary
  <1>19. ASSUME BinaryRemoved PROVE TypeOK'
    BY <1>19, InstallAssumption DEF InstallAssumption, BinaryRemoved, callVars, confVars, TypeOK, Places, Versions, Top, NoPath, Broken, ConfigInv, FindBinary
  <1>20. CASE UNCHANGED vars
    BY <1>20 DEF vars, diskVars, confVars, callVars, TypeOK, Places, Versions, Top, NoPath, Broken, ConfigInv
  <1>21. QED
    BY <1>1, <1>2, <1>3, <1>4, <1>5, <1>6, <1>7, <1>8, <1>9, <1>10, <1>11, <1>12, <1>13, <1>14, <1>15, <1>16, <1>17, <1>18, <1>19, <1>20 DEF Next

\* Nothing but the last step of a start rewrites the config under a server.
LEMMA ConfigStep == TypeOK /\ ConfigInv /\ [Next]_vars => ConfigInv'
  <1> SUFFICES ASSUME TypeOK /\ ConfigInv, [Next]_vars PROVE ConfigInv'
    OBVIOUS
  <1>1. ASSUME NEW m \in {"serve", "pinned", "install"}, NEW v \in Versions, Start(m, v) PROVE ConfigInv'
    BY <1>1, InstallAssumption DEF InstallAssumption, Start, diskVars, confVars, TypeOK, ConfigInv, Places, NoPath, Broken
  <1>2. ASSUME Disabled PROVE ConfigInv'
    BY <1>2, InstallAssumption DEF InstallAssumption, Disabled, diskVars, confVars, TypeOK, ConfigInv, Places, NoPath, Broken
  <1>3. ASSUME UseInstalled PROVE ConfigInv'
    BY <1>3, InstallAssumption DEF InstallAssumption, UseInstalled, diskVars, confVars, TypeOK, ConfigInv, Places, NoPath, Broken
  <1>4. ASSUME PinnedWithoutBinary PROVE ConfigInv'
    BY <1>4, InstallAssumption DEF InstallAssumption, PinnedWithoutBinary, Exit, diskVars, confVars, TypeOK, ConfigInv, Places, NoPath, Broken
  <1>5. ASSUME AlreadyInstalled PROVE ConfigInv'
    BY <1>5, InstallAssumption DEF InstallAssumption, AlreadyInstalled, Exit, diskVars, confVars, TypeOK, ConfigInv, Places, NoPath, Broken
  <1>6. ASSUME Download PROVE ConfigInv'
    BY <1>6, InstallAssumption DEF InstallAssumption, Download, diskVars, confVars, TypeOK, ConfigInv, Places, NoPath, Broken
  <1>7. ASSUME Downloaded PROVE ConfigInv'
    BY <1>7, InstallAssumption DEF InstallAssumption, Downloaded, diskVars, confVars, TypeOK, ConfigInv, Places, NoPath, Broken
  <1>8. ASSUME NEW f \in Parts, ExtractPart(f) PROVE ConfigInv'
    BY <1>8, InstallAssumption DEF InstallAssumption, ExtractPart, confVars, TypeOK, ConfigInv, Places, NoPath, Broken
  <1>9. ASSUME PartExtracted PROVE ConfigInv'
    BY <1>9, InstallAssumption DEF InstallAssumption, PartExtracted, confVars, TypeOK, ConfigInv, Places, NoPath, Broken
  <1>10. ASSUME NothingToFlatten PROVE ConfigInv'
    BY <1>10, InstallAssumption DEF InstallAssumption, NothingToFlatten, diskVars, confVars, TypeOK, ConfigInv, Places, NoPath, Broken
  <1>11. ASSUME NEW v \in Versions, FlattenFolder(v) PROVE ConfigInv'
    BY <1>11, InstallAssumption DEF InstallAssumption, FlattenFolder, diskVars, confVars, TypeOK, ConfigInv, Places, NoPath, Broken
  <1>12. ASSUME NEW f \in Parts, MoveUp(f) PROVE ConfigInv'
    BY <1>12, InstallAssumption DEF InstallAssumption, MoveUp, confVars, TypeOK, ConfigInv, Places, NoPath, Broken
  <1>13. ASSUME Flattened PROVE ConfigInv'
    BY <1>13, InstallAssumption DEF InstallAssumption, Flattened, diskVars, confVars, TypeOK, ConfigInv, Places, NoPath, Broken
  <1>14. ASSUME Install PROVE ConfigInv'
    BY <1>14, InstallAssumption DEF InstallAssumption, Install, Exit, confVars, TypeOK, ConfigInv, Places, NoPath, Broken
  <1>15. ASSUME WriteConfig PROVE ConfigInv'
    BY <1>15, InstallAssumption DEF InstallAssumption, WriteConfig, diskVars, TypeOK, ConfigInv, Places, NoPath, Broken
  <1>16. ASSUME WriteConfigBreaks PROVE ConfigInv'
    BY <1>16, InstallAssumption DEF InstallAssumption, WriteConfigBreaks, Exit, diskVars, TypeOK, ConfigInv, Places, NoPath, Broken
  <1>17. ASSUME Stop PROVE ConfigInv'
    BY <1>17, InstallAssumption DEF InstallAssumption, Stop, Exit, diskVars, confVars, TypeOK, ConfigInv, Places, NoPath, Broken
  <1>18. ASSUME WriteDefaultConfig PROVE ConfigInv'
    BY <1>18, InstallAssumption DEF InstallAssumption, WriteDefaultConfig, callVars, diskVars, TypeOK, ConfigInv, Places, NoPath, Broken
  <1>19. ASSUME BinaryRemoved PROVE ConfigInv'
    BY <1>19, InstallAssumption DEF InstallAssumption, BinaryRemoved, callVars, confVars, TypeOK, ConfigInv, Places, NoPath, Broken
  <1>20. CASE UNCHANGED vars
    BY <1>20 DEF vars, diskVars, confVars, callVars, TypeOK, ConfigInv, Places, NoPath, Broken
  <1>21. QED
    BY <1>1, <1>2, <1>3, <1>4, <1>5, <1>6, <1>7, <1>8, <1>9, <1>10, <1>11, <1>12, <1>13, <1>14, <1>15, <1>16, <1>17, <1>18, <1>19, <1>20 DEF Next

\* An archive brings its executable, wherever it is extracted and moved to.
LEMMA FindStep == TypeOK /\ FindInv /\ [Next]_vars => FindInv'
  <1> SUFFICES ASSUME TypeOK /\ FindInv, [Next]_vars PROVE FindInv'
    OBVIOUS
  <1>1. ASSUME NEW m \in {"serve", "pinned", "install"}, NEW v \in Versions, Start(m, v) PROVE FindInv'
    BY <1>1, InstallAssumption DEF InstallAssumption, Start, diskVars, confVars, TypeOK, FindInv, Places, Versions, Top, Target, FindBinary
  <1>2. ASSUME Disabled PROVE FindInv'
    BY <1>2, InstallAssumption DEF InstallAssumption, Disabled, diskVars, confVars, TypeOK, FindInv, Places, Versions, Top, Target, FindBinary
  <1>3. ASSUME UseInstalled PROVE FindInv'
    BY <1>3, InstallAssumption DEF InstallAssumption, UseInstalled, diskVars, confVars, TypeOK, FindInv, Places, Versions, Top, Target, FindBinary
  <1>4. ASSUME PinnedWithoutBinary PROVE FindInv'
    BY <1>4, InstallAssumption DEF InstallAssumption, PinnedWithoutBinary, Exit, diskVars, confVars, TypeOK, FindInv, Places, Versions, Top, Target, FindBinary
  <1>5. ASSUME AlreadyInstalled PROVE FindInv'
    BY <1>5, InstallAssumption DEF InstallAssumption, AlreadyInstalled, Exit, diskVars, confVars, TypeOK, FindInv, Places, Versions, Top, Target, FindBinary
  <1>6. ASSUME Download PROVE FindInv'
    BY <1>6, InstallAssumption DEF InstallAssumption, Download, diskVars, confVars, TypeOK, FindInv, Places, Versions, Top, Target, FindBinary
  <1>7. ASSUME Downloaded PROVE FindInv'
    BY <1>7, InstallAssumption DEF InstallAssumption, Downloaded, diskVars, confVars, TypeOK, FindInv, Places, Versions, Top, Target, FindBinary
  <1>8. ASSUME NEW f \in Parts, ExtractPart(f) PROVE FindInv'
    BY <1>8, InstallAssumption DEF InstallAssumption, ExtractPart, confVars, TypeOK, FindInv, Places, Versions, Top, Target, FindBinary
  <1>9. ASSUME PartExtracted PROVE FindInv'
    BY <1>9, InstallAssumption DEF InstallAssumption, PartExtracted, confVars, TypeOK, FindInv, Places, Versions, Top, Target, FindBinary
  <1>10. ASSUME NothingToFlatten PROVE FindInv'
    BY <1>10, InstallAssumption DEF InstallAssumption, NothingToFlatten, diskVars, confVars, TypeOK, FindInv, Places, Versions, Top, Target, FindBinary
  <1>11. ASSUME NEW v \in Versions, FlattenFolder(v) PROVE FindInv'
    BY <1>11, InstallAssumption DEF InstallAssumption, FlattenFolder, diskVars, confVars, TypeOK, FindInv, Places, Versions, Top, Target, FindBinary
  <1>12. ASSUME NEW f \in Parts, MoveUp(f) PROVE FindInv'
    BY <1>12, InstallAssumption, SMTT(60) DEF InstallAssumption, MoveUp, confVars, TypeOK, FindInv, Places, Versions, Top, Target, FindBinary
  <1>13. ASSUME Flattened PROVE FindInv'
    BY <1>13, InstallAssumption DEF InstallAssumption, Flattened, diskVars, confVars, TypeOK, FindInv, Places, Versions, Top, Target, FindBinary
  <1>14. ASSUME Install PROVE FindInv'
    BY <1>14, InstallAssumption DEF InstallAssumption, Install, Exit, confVars, TypeOK, FindInv, Places, Versions, Top, Target, FindBinary
  <1>15. ASSUME WriteConfig PROVE FindInv'
    BY <1>15, InstallAssumption DEF InstallAssumption, WriteConfig, diskVars, TypeOK, FindInv, Places, Versions, Top, Target, FindBinary
  <1>16. ASSUME WriteConfigBreaks PROVE FindInv'
    BY <1>16, InstallAssumption DEF InstallAssumption, WriteConfigBreaks, Exit, diskVars, TypeOK, FindInv, Places, Versions, Top, Target, FindBinary
  <1>17. ASSUME Stop PROVE FindInv'
    BY <1>17, InstallAssumption DEF InstallAssumption, Stop, Exit, diskVars, confVars, TypeOK, FindInv, Places, Versions, Top, Target, FindBinary
  <1>18. ASSUME WriteDefaultConfig PROVE FindInv'
    BY <1>18, InstallAssumption DEF InstallAssumption, WriteDefaultConfig, callVars, diskVars, TypeOK, FindInv, Places, Versions, Top, Target, FindBinary
  <1>19. ASSUME BinaryRemoved PROVE FindInv'
    BY <1>19, InstallAssumption DEF InstallAssumption, BinaryRemoved, callVars, confVars, TypeOK, FindInv, Places, Versions, Top, Target, FindBinary
  <1>20. CASE UNCHANGED vars
    BY <1>20 DEF vars, diskVars, confVars, callVars, TypeOK, FindInv, Places, Versions, Top, Target, FindBinary
  <1>21. QED
    BY <1>1, <1>2, <1>3, <1>4, <1>5, <1>6, <1>7, <1>8, <1>9, <1>10, <1>11, <1>12, <1>13, <1>14, <1>15, <1>16, <1>17, <1>18, <1>19, <1>20 DEF Next

\* Both ways to a binary look whether it is there.
LEMMA PathStep == TypeOK /\ PathInv /\ [Next]_vars => PathInv'
  <1> SUFFICES ASSUME TypeOK /\ PathInv, [Next]_vars PROVE PathInv'
    OBVIOUS
  <1>1. ASSUME NEW m \in {"serve", "pinned", "install"}, NEW v \in Versions, Start(m, v) PROVE PathInv'
    BY <1>1, InstallAssumption DEF InstallAssumption, Start, diskVars, confVars, TypeOK, PathInv, Places, Versions, Top, Enabled, Existing, FindBinary
  <1>2. ASSUME Disabled PROVE PathInv'
    BY <1>2, InstallAssumption DEF InstallAssumption, Disabled, diskVars, confVars, TypeOK, PathInv, Places, Versions, Top, Enabled, Existing, FindBinary
  <1>3. ASSUME UseInstalled PROVE PathInv'
    BY <1>3, InstallAssumption DEF InstallAssumption, UseInstalled, diskVars, confVars, TypeOK, PathInv, Places, Versions, Top, Enabled, Existing, FindBinary
  <1>4. ASSUME PinnedWithoutBinary PROVE PathInv'
    BY <1>4, InstallAssumption DEF InstallAssumption, PinnedWithoutBinary, Exit, diskVars, confVars, TypeOK, PathInv, Places, Versions, Top, Enabled, Existing, FindBinary
  <1>5. ASSUME AlreadyInstalled PROVE PathInv'
    BY <1>5, InstallAssumption DEF InstallAssumption, AlreadyInstalled, Exit, diskVars, confVars, TypeOK, PathInv, Places, Versions, Top, Enabled, Existing, FindBinary
  <1>6. ASSUME Download PROVE PathInv'
    BY <1>6, InstallAssumption DEF InstallAssumption, Download, diskVars, confVars, TypeOK, PathInv, Places, Versions, Top, Enabled, Existing, FindBinary
  <1>7. ASSUME Downloaded PROVE PathInv'
    BY <1>7, InstallAssumption DEF InstallAssumption, Downloaded, diskVars, confVars, TypeOK, PathInv, Places, Versions, Top, Enabled, Existing, FindBinary
  <1>8. ASSUME NEW f \in Parts, ExtractPart(f) PROVE PathInv'
    BY <1>8, InstallAssumption DEF InstallAssumption, ExtractPart, confVars, TypeOK, PathInv, Places, Versions, Top, Enabled, Existing, FindBinary
  <1>9. ASSUME PartExtracted PROVE PathInv'
    BY <1>9, InstallAssumption DEF InstallAssumption, PartExtracted, confVars, TypeOK, PathInv, Places, Versions, Top, Enabled, Existing, FindBinary
  <1>10. ASSUME NothingToFlatten PROVE PathInv'
    BY <1>10, InstallAssumption DEF InstallAssumption, NothingToFlatten, diskVars, confVars, TypeOK, PathInv, Places, Versions, Top, Enabled, Existing, FindBinary
  <1>11. ASSUME NEW v \in Versions, FlattenFolder(v) PROVE PathInv'
    BY <1>11, InstallAssumption DEF InstallAssumption, FlattenFolder, diskVars, confVars, TypeOK, PathInv, Places, Versions, Top, Enabled, Existing, FindBinary
  <1>12. ASSUME NEW f \in Parts, MoveUp(f) PROVE PathInv'
    BY <1>12, InstallAssumption DEF InstallAssumption, MoveUp, confVars, TypeOK, PathInv, Places, Versions, Top, Enabled, Existing, FindBinary
  <1>13. ASSUME Flattened PROVE PathInv'
    BY <1>13, InstallAssumption DEF InstallAssumption, Flattened, diskVars, confVars, TypeOK, PathInv, Places, Versions, Top, Enabled, Existing, FindBinary
  <1>14. ASSUME Install PROVE PathInv'
    BY <1>14, InstallAssumption DEF InstallAssumption, Install, Exit, confVars, TypeOK, PathInv, Places, Versions, Top, Enabled, Existing, FindBinary
  <1>15. ASSUME WriteConfig PROVE PathInv'
    BY <1>15, InstallAssumption DEF InstallAssumption, WriteConfig, diskVars, TypeOK, PathInv, Places, Versions, Top, Enabled, Existing, FindBinary
  <1>16. ASSUME WriteConfigBreaks PROVE PathInv'
    BY <1>16, InstallAssumption DEF InstallAssumption, WriteConfigBreaks, Exit, diskVars, TypeOK, PathInv, Places, Versions, Top, Enabled, Existing, FindBinary
  <1>17. ASSUME Stop PROVE PathInv'
    BY <1>17, InstallAssumption DEF InstallAssumption, Stop, Exit, diskVars, confVars, TypeOK, PathInv, Places, Versions, Top, Enabled, Existing, FindBinary
  <1>18. ASSUME WriteDefaultConfig PROVE PathInv'
    BY <1>18, InstallAssumption DEF InstallAssumption, WriteDefaultConfig, callVars, diskVars, TypeOK, PathInv, Places, Versions, Top, Enabled, Existing, FindBinary
  <1>19. ASSUME BinaryRemoved PROVE PathInv'
    BY <1>19, InstallAssumption DEF InstallAssumption, BinaryRemoved, callVars, confVars, TypeOK, PathInv, Places, Versions, Top, Enabled, Existing, FindBinary
  <1>20. CASE UNCHANGED vars
    BY <1>20 DEF vars, diskVars, confVars, callVars, TypeOK, PathInv, Places, Versions, Top, Enabled, Existing, FindBinary
  <1>21. QED
    BY <1>1, <1>2, <1>3, <1>4, <1>5, <1>6, <1>7, <1>8, <1>9, <1>10, <1>11, <1>12, <1>13, <1>14, <1>15, <1>16, <1>17, <1>18, <1>19, <1>20 DEF Next

\* With one version, what is marked is complete.
LEMMA BinaryStep == TypeOK /\ FindInv /\ BinaryInv /\ [Next]_vars => BinaryInv'
  <1> SUFFICES ASSUME TypeOK /\ FindInv /\ BinaryInv, [Next]_vars PROVE BinaryInv'
    OBVIOUS
  <1>1. ASSUME NEW m \in {"serve", "pinned", "install"}, NEW v \in Versions, Start(m, v) PROVE BinaryInv'
    BY <1>1, InstallAssumption DEF InstallAssumption, Start, diskVars, confVars, TypeOK, FindInv, BinaryInv, OneVersion, Installing, Serves, TargetOf, Target, Places, Versions, Top, Enabled, Existing, FindBinary
  <1>2. ASSUME Disabled PROVE BinaryInv'
    BY <1>2, InstallAssumption DEF InstallAssumption, Disabled, diskVars, confVars, TypeOK, FindInv, BinaryInv, OneVersion, Installing, Serves, TargetOf, Target, Places, Versions, Top, Enabled, Existing, FindBinary
  <1>3. ASSUME UseInstalled PROVE BinaryInv'
    <2> SUFFICES ASSUME NEW v \in Versions, ~disturbed', seen' \subseteq {v} PROVE OneVersion(v)'
      BY DEF BinaryInv
    <2>1. OneVersion(v) /\ expected = v /\ v \in 1..MaxVersion
      BY <1>3 DEF UseInstalled, BinaryInv, TypeOK, Versions
    <2>2. mode = "serve" => marker # 0
      BY <1>3, <2>1, InstallAssumption DEF InstallAssumption, UseInstalled
    <2>3. pc' = "configure" /\ UNCHANGED <<files, marker, runtime, mode, config, enabled>>
      BY <1>3 DEF UseInstalled, diskVars, confVars
    <2>4. UNCHANGED <<FindBinary, TargetOf(v)>>
      BY <2>3 DEF FindBinary, TargetOf
    <2>5. QED
      BY <2>1, <2>2, <2>3, <2>4 DEF OneVersion, Installing, Serves
  <1>4. ASSUME PinnedWithoutBinary PROVE BinaryInv'
    BY <1>4, InstallAssumption DEF InstallAssumption, PinnedWithoutBinary, Exit, diskVars, confVars, TypeOK, FindInv, BinaryInv, OneVersion, Installing, Serves, TargetOf, Target, Places, Versions, Top, Enabled, Existing, FindBinary
  <1>5. ASSUME AlreadyInstalled PROVE BinaryInv'
    BY <1>5, InstallAssumption DEF InstallAssumption, AlreadyInstalled, Exit, diskVars, confVars, TypeOK, FindInv, BinaryInv, OneVersion, Installing, Serves, TargetOf, Target, Places, Versions, Top, Enabled, Existing, FindBinary
  <1>6. ASSUME Download PROVE BinaryInv'
    BY <1>6, InstallAssumption DEF InstallAssumption, Download, diskVars, confVars, TypeOK, FindInv, BinaryInv, OneVersion, Installing, Serves, TargetOf, Target, Places, Versions, Top, Enabled, Existing, FindBinary
  <1>7. ASSUME Downloaded PROVE BinaryInv'
    BY <1>7, InstallAssumption DEF InstallAssumption, Downloaded, diskVars, confVars, TypeOK, FindInv, BinaryInv, OneVersion, Installing, Serves, TargetOf, Target, Places, Versions, Top, Enabled, Existing, FindBinary
  <1>8. ASSUME NEW f \in Parts, ExtractPart(f) PROVE BinaryInv'
    BY <1>8, InstallAssumption, SMTT(60) DEF InstallAssumption, ExtractPart, confVars, TypeOK, FindInv, BinaryInv, OneVersion, Installing, Serves, TargetOf, Target, Places, Versions, Top, Enabled, Existing, FindBinary
  <1>9. ASSUME PartExtracted PROVE BinaryInv'
    <2> SUFFICES ASSUME NEW v \in Versions, ~disturbed', seen' \subseteq {v} PROVE OneVersion(v)'
      BY DEF BinaryInv
    <2>1. OneVersion(v) /\ expected = v /\ v \in 1..MaxVersion
      BY <1>9 DEF PartExtracted, BinaryInv, TypeOK, Versions
    <2>2. pc = "write" /\ pc' = "extract" /\ at \in todo /\ at \in Parts /\ todo' = todo \ {at} /\ UNCHANGED <<marker, runtime>>
      BY <1>9 DEF PartExtracted, FindInv, TypeOK
    <2>3. Target = TargetOf(v) /\ TargetOf(v)' = TargetOf(v) /\ TargetOf(v) \in Places
      BY <2>1, <2>2, InstallAssumption DEF InstallAssumption, Target, TargetOf, Places, Top
    <2>4. files' = [files EXCEPT ![TargetOf(v)][at] = v]
      BY <1>9, <2>1, <2>3 DEF PartExtracted
    <2>5. \A q \in Places : files'[q][Binary] = IF q = TargetOf(v) /\ at = Binary THEN v ELSE files[q][Binary]
      BY <2>2, <2>3, <2>4, InstallAssumption DEF InstallAssumption, TypeOK
    <2>6. marker = 0
      BY <2>1, <2>2 DEF OneVersion, Installing
    <2>7. QED
      BY <2>1, <2>2, <2>3, <2>5, <2>6 DEF OneVersion, Installing, Serves
  <1>10. ASSUME NothingToFlatten PROVE BinaryInv'
    BY <1>10, InstallAssumption DEF InstallAssumption, NothingToFlatten, diskVars, confVars, TypeOK, FindInv, BinaryInv, OneVersion, Installing, Serves, TargetOf, Target, Places, Versions, Top, Enabled, Existing, FindBinary
  <1>11. ASSUME NEW v \in Versions, FlattenFolder(v) PROVE BinaryInv'
    BY <1>11, InstallAssumption DEF InstallAssumption, FlattenFolder, diskVars, confVars, TypeOK, FindInv, BinaryInv, OneVersion, Installing, Serves, TargetOf, Target, Places, Versions, Top, Enabled, Existing, FindBinary
  <1>12. ASSUME NEW f \in Parts, MoveUp(f) PROVE BinaryInv'
    <2> SUFFICES ASSUME NEW v \in Versions, ~disturbed', seen' \subseteq {v} PROVE OneVersion(v)'
      BY DEF BinaryInv
    <2>1. OneVersion(v) /\ expected = v /\ v \in 1..MaxVersion
      BY <1>12 DEF MoveUp, BinaryInv, TypeOK, Versions
    <2>2. pc = "flatten" /\ pc' = "flatten" /\ at \in Places /\ Top \in Places /\ UNCHANGED <<marker, runtime>>
      BY <1>12, <2>1, InstallAssumption DEF InstallAssumption, MoveUp, TypeOK, Places, Versions, Top
    <2>3. marker = 0 /\ \A q \in Places : files[q][Binary] \in {0, v}
      BY <2>1, <2>2 DEF OneVersion, Installing
    <2>4. \A q \in Places : files'[q][Binary] \in {files[q][Binary], files[at][Binary], 0}
      BY <1>12, <2>2, InstallAssumption DEF InstallAssumption, MoveUp, TypeOK
    <2>5. QED
      BY <2>1, <2>2, <2>3, <2>4 DEF OneVersion, Installing
  <1>13. ASSUME Flattened PROVE BinaryInv'
    BY <1>13, InstallAssumption DEF InstallAssumption, Flattened, diskVars, confVars, TypeOK, FindInv, BinaryInv, OneVersion, Installing, Serves, TargetOf, Target, Places, Versions, Top, Enabled, Existing, FindBinary
  <1>14. ASSUME Install PROVE BinaryInv'
    BY <1>14, InstallAssumption DEF InstallAssumption, Install, Exit, confVars, TypeOK, FindInv, BinaryInv, OneVersion, Installing, Serves, TargetOf, Target, Places, Versions, Top, Enabled, Existing, FindBinary
  <1>15. ASSUME WriteConfig PROVE BinaryInv'
    BY <1>15, InstallAssumption DEF InstallAssumption, WriteConfig, diskVars, TypeOK, FindInv, BinaryInv, OneVersion, Installing, Serves, TargetOf, Target, Places, Versions, Top, Enabled, Existing, FindBinary
  <1>16. ASSUME WriteConfigBreaks PROVE BinaryInv'
    BY <1>16, InstallAssumption DEF InstallAssumption, WriteConfigBreaks, Exit, diskVars, TypeOK, FindInv, BinaryInv, OneVersion, Installing, Serves, TargetOf, Target, Places, Versions, Top, Enabled, Existing, FindBinary
  <1>17. ASSUME Stop PROVE BinaryInv'
    BY <1>17, InstallAssumption DEF InstallAssumption, Stop, Exit, diskVars, confVars, TypeOK, FindInv, BinaryInv, OneVersion, Installing, Serves, TargetOf, Target, Places, Versions, Top, Enabled, Existing, FindBinary
  <1>18. ASSUME WriteDefaultConfig PROVE BinaryInv'
    BY <1>18, InstallAssumption DEF InstallAssumption, WriteDefaultConfig, callVars, diskVars, TypeOK, FindInv, BinaryInv, OneVersion, Installing, Serves, TargetOf, Target, Places, Versions, Top, Enabled, Existing, FindBinary
  <1>19. ASSUME BinaryRemoved PROVE BinaryInv'
    BY <1>19, InstallAssumption DEF InstallAssumption, BinaryRemoved, callVars, confVars, TypeOK, FindInv, BinaryInv, OneVersion, Installing, Serves, TargetOf, Target, Places, Versions, Top, Enabled, Existing, FindBinary
  <1>20. CASE UNCHANGED vars
    BY <1>20 DEF vars, diskVars, confVars, callVars, TypeOK, FindInv, BinaryInv, OneVersion, Installing, Serves, TargetOf, Target, Places, Versions, Top, Enabled, Existing, FindBinary
  <1>21. QED
    BY <1>1, <1>2, <1>3, <1>4, <1>5, <1>6, <1>7, <1>8, <1>9, <1>10, <1>11, <1>12, <1>13, <1>14, <1>15, <1>16, <1>17, <1>18, <1>19, <1>20 DEF Next

\* The marker and the present version are among those seen.
LEMMA VersionStep == TypeOK /\ VersionInv /\ [Next]_vars => VersionInv'
  <1> SUFFICES ASSUME TypeOK /\ VersionInv, [Next]_vars PROVE VersionInv'
    OBVIOUS
  <1>1. ASSUME NEW m \in {"serve", "pinned", "install"}, NEW v \in Versions, Start(m, v) PROVE VersionInv'
    <2>1. ASSUME ~disturbed', NEW u \in seen' PROVE u <= expected'
      <3>1. ~\E w \in seen : v < w
        BY <1>1, <2>1, Zenon DEF Start
      <3>2. u = v \/ u \in seen
        BY <1>1 DEF Start
      <3>3. QED
        BY <1>1, <3>1, <3>2 DEF Start, TypeOK, Versions
    <2>2. marker' \in seen' \cup {0}
      BY <1>1 DEF Start, diskVars, VersionInv
    <2>3. QED
      BY <2>1, <2>2 DEF VersionInv
  <1>2. ASSUME Disabled PROVE VersionInv'
    BY <1>2, InstallAssumption DEF InstallAssumption, Disabled, diskVars, confVars, TypeOK, VersionInv, Places, Versions
  <1>3. ASSUME UseInstalled PROVE VersionInv'
    BY <1>3, InstallAssumption DEF InstallAssumption, UseInstalled, diskVars, confVars, TypeOK, VersionInv, Places, Versions
  <1>4. ASSUME PinnedWithoutBinary PROVE VersionInv'
    BY <1>4, InstallAssumption DEF InstallAssumption, PinnedWithoutBinary, Exit, diskVars, confVars, TypeOK, VersionInv, Places, Versions
  <1>5. ASSUME AlreadyInstalled PROVE VersionInv'
    BY <1>5, InstallAssumption DEF InstallAssumption, AlreadyInstalled, Exit, diskVars, confVars, TypeOK, VersionInv, Places, Versions
  <1>6. ASSUME Download PROVE VersionInv'
    BY <1>6, InstallAssumption DEF InstallAssumption, Download, diskVars, confVars, TypeOK, VersionInv, Places, Versions
  <1>7. ASSUME Downloaded PROVE VersionInv'
    BY <1>7, InstallAssumption DEF InstallAssumption, Downloaded, diskVars, confVars, TypeOK, VersionInv, Places, Versions
  <1>8. ASSUME NEW f \in Parts, ExtractPart(f) PROVE VersionInv'
    BY <1>8, InstallAssumption DEF InstallAssumption, ExtractPart, confVars, TypeOK, VersionInv, Places, Versions
  <1>9. ASSUME PartExtracted PROVE VersionInv'
    BY <1>9, InstallAssumption DEF InstallAssumption, PartExtracted, confVars, TypeOK, VersionInv, Places, Versions
  <1>10. ASSUME NothingToFlatten PROVE VersionInv'
    BY <1>10, InstallAssumption DEF InstallAssumption, NothingToFlatten, diskVars, confVars, TypeOK, VersionInv, Places, Versions
  <1>11. ASSUME NEW v \in Versions, FlattenFolder(v) PROVE VersionInv'
    BY <1>11, InstallAssumption DEF InstallAssumption, FlattenFolder, diskVars, confVars, TypeOK, VersionInv, Places, Versions
  <1>12. ASSUME NEW f \in Parts, MoveUp(f) PROVE VersionInv'
    BY <1>12, InstallAssumption DEF InstallAssumption, MoveUp, confVars, TypeOK, VersionInv, Places, Versions
  <1>13. ASSUME Flattened PROVE VersionInv'
    BY <1>13, InstallAssumption DEF InstallAssumption, Flattened, diskVars, confVars, TypeOK, VersionInv, Places, Versions
  <1>14. ASSUME Install PROVE VersionInv'
    BY <1>14, InstallAssumption DEF InstallAssumption, Install, Exit, confVars, TypeOK, VersionInv, Places, Versions
  <1>15. ASSUME WriteConfig PROVE VersionInv'
    BY <1>15, InstallAssumption DEF InstallAssumption, WriteConfig, diskVars, TypeOK, VersionInv, Places, Versions
  <1>16. ASSUME WriteConfigBreaks PROVE VersionInv'
    BY <1>16, InstallAssumption DEF InstallAssumption, WriteConfigBreaks, Exit, diskVars, TypeOK, VersionInv, Places, Versions
  <1>17. ASSUME Stop PROVE VersionInv'
    BY <1>17, InstallAssumption DEF InstallAssumption, Stop, Exit, diskVars, confVars, TypeOK, VersionInv, Places, Versions
  <1>18. ASSUME WriteDefaultConfig PROVE VersionInv'
    BY <1>18, InstallAssumption DEF InstallAssumption, WriteDefaultConfig, callVars, diskVars, TypeOK, VersionInv, Places, Versions
  <1>19. ASSUME BinaryRemoved PROVE VersionInv'
    BY <1>19, InstallAssumption DEF InstallAssumption, BinaryRemoved, callVars, confVars, TypeOK, VersionInv, Places, Versions
  <1>20. CASE UNCHANGED vars
    BY <1>20 DEF vars, diskVars, confVars, callVars, TypeOK, VersionInv, Places, Versions
  <1>21. QED
    BY <1>1, <1>2, <1>3, <1>4, <1>5, <1>6, <1>7, <1>8, <1>9, <1>10, <1>11, <1>12, <1>13, <1>14, <1>15, <1>16, <1>17, <1>18, <1>19, <1>20 DEF Next

\* Without a folder in the archive there is none in the directory.
LEMMA FlatStep == TypeOK /\ ConfigInv /\ FlatInv /\ [Next]_vars => FlatInv'
  <1> SUFFICES ASSUME TypeOK /\ ConfigInv /\ FlatInv, [Next]_vars PROVE FlatInv'
    OBVIOUS
  <1>1. ASSUME NEW m \in {"serve", "pinned", "install"}, NEW v \in Versions, Start(m, v) PROVE FlatInv'
    BY <1>1, InstallAssumption DEF InstallAssumption, Start, diskVars, confVars, TypeOK, ConfigInv, FlatInv, Places, Versions, Top, NoPath, Broken, Target, Existing, FindBinary
  <1>2. ASSUME Disabled PROVE FlatInv'
    BY <1>2, InstallAssumption DEF InstallAssumption, Disabled, diskVars, confVars, TypeOK, ConfigInv, FlatInv, Places, Versions, Top, NoPath, Broken, Target, Existing, FindBinary
  <1>3. ASSUME UseInstalled PROVE FlatInv'
    BY <1>3, InstallAssumption DEF InstallAssumption, UseInstalled, diskVars, confVars, TypeOK, ConfigInv, FlatInv, Places, Versions, Top, NoPath, Broken, Target, Existing, FindBinary
  <1>4. ASSUME PinnedWithoutBinary PROVE FlatInv'
    BY <1>4, InstallAssumption DEF InstallAssumption, PinnedWithoutBinary, Exit, diskVars, confVars, TypeOK, ConfigInv, FlatInv, Places, Versions, Top, NoPath, Broken, Target, Existing, FindBinary
  <1>5. ASSUME AlreadyInstalled PROVE FlatInv'
    BY <1>5, InstallAssumption DEF InstallAssumption, AlreadyInstalled, Exit, diskVars, confVars, TypeOK, ConfigInv, FlatInv, Places, Versions, Top, NoPath, Broken, Target, Existing, FindBinary
  <1>6. ASSUME Download PROVE FlatInv'
    BY <1>6, InstallAssumption DEF InstallAssumption, Download, diskVars, confVars, TypeOK, ConfigInv, FlatInv, Places, Versions, Top, NoPath, Broken, Target, Existing, FindBinary
  <1>7. ASSUME Downloaded PROVE FlatInv'
    BY <1>7, InstallAssumption DEF InstallAssumption, Downloaded, diskVars, confVars, TypeOK, ConfigInv, FlatInv, Places, Versions, Top, NoPath, Broken, Target, Existing, FindBinary
  <1>8. ASSUME NEW f \in Parts, ExtractPart(f) PROVE FlatInv'
    BY <1>8, InstallAssumption DEF InstallAssumption, ExtractPart, confVars, TypeOK, ConfigInv, FlatInv, Places, Versions, Top, NoPath, Broken, Target, Existing, FindBinary
  <1>9. ASSUME PartExtracted PROVE FlatInv'
    BY <1>9, InstallAssumption DEF InstallAssumption, PartExtracted, confVars, TypeOK, ConfigInv, FlatInv, Places, Versions, Top, NoPath, Broken, Target, Existing, FindBinary
  <1>10. ASSUME NothingToFlatten PROVE FlatInv'
    BY <1>10, InstallAssumption DEF InstallAssumption, NothingToFlatten, diskVars, confVars, TypeOK, ConfigInv, FlatInv, Places, Versions, Top, NoPath, Broken, Target, Existing, FindBinary
  <1>11. ASSUME NEW v \in Versions, FlattenFolder(v) PROVE FlatInv'
    BY <1>11, InstallAssumption DEF InstallAssumption, FlattenFolder, diskVars, confVars, TypeOK, ConfigInv, FlatInv, Places, Versions, Top, NoPath, Broken, Target, Existing, FindBinary
  <1>12. ASSUME NEW f \in Parts, MoveUp(f) PROVE FlatInv'
    BY <1>12, InstallAssumption DEF InstallAssumption, MoveUp, confVars, TypeOK, ConfigInv, FlatInv, Places, Versions, Top, NoPath, Broken, Target, Existing, FindBinary
  <1>13. ASSUME Flattened PROVE FlatInv'
    BY <1>13, InstallAssumption DEF InstallAssumption, Flattened, diskVars, confVars, TypeOK, ConfigInv, FlatInv, Places, Versions, Top, NoPath, Broken, Target, Existing, FindBinary
  <1>14. ASSUME Install PROVE FlatInv'
    BY <1>14, InstallAssumption DEF InstallAssumption, Install, Exit, confVars, TypeOK, ConfigInv, FlatInv, Places, Versions, Top, NoPath, Broken, Target, Existing, FindBinary
  <1>15. ASSUME WriteConfig PROVE FlatInv'
    BY <1>15, InstallAssumption DEF InstallAssumption, WriteConfig, diskVars, TypeOK, ConfigInv, FlatInv, Places, Versions, Top, NoPath, Broken, Target, Existing, FindBinary
  <1>16. ASSUME WriteConfigBreaks PROVE FlatInv'
    BY <1>16, InstallAssumption DEF InstallAssumption, WriteConfigBreaks, Exit, diskVars, TypeOK, ConfigInv, FlatInv, Places, Versions, Top, NoPath, Broken, Target, Existing, FindBinary
  <1>17. ASSUME Stop PROVE FlatInv'
    BY <1>17, InstallAssumption DEF InstallAssumption, Stop, Exit, diskVars, confVars, TypeOK, ConfigInv, FlatInv, Places, Versions, Top, NoPath, Broken, Target, Existing, FindBinary
  <1>18. ASSUME WriteDefaultConfig PROVE FlatInv'
    BY <1>18, InstallAssumption DEF InstallAssumption, WriteDefaultConfig, callVars, diskVars, TypeOK, ConfigInv, FlatInv, Places, Versions, Top, NoPath, Broken, Target, Existing, FindBinary
  <1>19. ASSUME BinaryRemoved PROVE FlatInv'
    BY <1>19, InstallAssumption DEF InstallAssumption, BinaryRemoved, callVars, confVars, TypeOK, ConfigInv, FlatInv, Places, Versions, Top, NoPath, Broken, Target, Existing, FindBinary
  <1>20. CASE UNCHANGED vars
    BY <1>20 DEF vars, diskVars, confVars, callVars, TypeOK, ConfigInv, FlatInv, Places, Versions, Top, NoPath, Broken, Target, Existing, FindBinary
  <1>21. QED
    BY <1>1, <1>2, <1>3, <1>4, <1>5, <1>6, <1>7, <1>8, <1>9, <1>10, <1>11, <1>12, <1>13, <1>14, <1>15, <1>16, <1>17, <1>18, <1>19, <1>20 DEF Next

\* The newest marker only stands for a whole runtime.
LEMMA WholeStep == TypeOK /\ VersionInv /\ FlatInv /\ WholeInv /\ [Next]_vars => WholeInv'
  <1> SUFFICES ASSUME TypeOK /\ VersionInv /\ FlatInv /\ WholeInv, [Next]_vars PROVE WholeInv'
    OBVIOUS
  <1>1. ASSUME NEW m \in {"serve", "pinned", "install"}, NEW v \in Versions, Start(m, v) PROVE WholeInv'
    BY <1>1, InstallAssumption DEF InstallAssumption, Start, diskVars, confVars, TypeOK, VersionInv, FlatInv, WholeInv, Whole, Serves, Target, Places, Versions, Top, NoPath, Broken, Enabled, Existing, FindBinary
  <1>2. ASSUME Disabled PROVE WholeInv'
    BY <1>2, InstallAssumption DEF InstallAssumption, Disabled, diskVars, confVars, TypeOK, VersionInv, FlatInv, WholeInv, Whole, Serves, Target, Places, Versions, Top, NoPath, Broken, Enabled, Existing, FindBinary
  <1>3. ASSUME UseInstalled PROVE WholeInv'
    BY <1>3, InstallAssumption DEF InstallAssumption, UseInstalled, diskVars, confVars, TypeOK, VersionInv, FlatInv, WholeInv, Whole, Serves, Target, Places, Versions, Top, NoPath, Broken, Enabled, Existing, FindBinary
  <1>4. ASSUME PinnedWithoutBinary PROVE WholeInv'
    BY <1>4, InstallAssumption DEF InstallAssumption, PinnedWithoutBinary, Exit, diskVars, confVars, TypeOK, VersionInv, FlatInv, WholeInv, Whole, Serves, Target, Places, Versions, Top, NoPath, Broken, Enabled, Existing, FindBinary
  <1>5. ASSUME AlreadyInstalled PROVE WholeInv'
    BY <1>5, InstallAssumption DEF InstallAssumption, AlreadyInstalled, Exit, diskVars, confVars, TypeOK, VersionInv, FlatInv, WholeInv, Whole, Serves, Target, Places, Versions, Top, NoPath, Broken, Enabled, Existing, FindBinary
  <1>6. ASSUME Download PROVE WholeInv'
    BY <1>6, InstallAssumption DEF InstallAssumption, Download, diskVars, confVars, TypeOK, VersionInv, FlatInv, WholeInv, Whole, Serves, Target, Places, Versions, Top, NoPath, Broken, Enabled, Existing, FindBinary
  <1>7. ASSUME Downloaded PROVE WholeInv'
    BY <1>7, InstallAssumption DEF InstallAssumption, Downloaded, diskVars, confVars, TypeOK, VersionInv, FlatInv, WholeInv, Whole, Serves, Target, Places, Versions, Top, NoPath, Broken, Enabled, Existing, FindBinary
  <1>8. ASSUME NEW f \in Parts, ExtractPart(f) PROVE WholeInv'
    BY <1>8, InstallAssumption DEF InstallAssumption, ExtractPart, confVars, TypeOK, VersionInv, FlatInv, WholeInv, Whole, Serves, Target, Places, Versions, Top, NoPath, Broken, Enabled, Existing, FindBinary
  <1>9. ASSUME PartExtracted PROVE WholeInv'
    BY <1>9, InstallAssumption DEF InstallAssumption, PartExtracted, confVars, TypeOK, VersionInv, FlatInv, WholeInv, Whole, Serves, Target, Places, Versions, Top, NoPath, Broken, Enabled, Existing, FindBinary
  <1>10. ASSUME NothingToFlatten PROVE WholeInv'
    BY <1>10, InstallAssumption DEF InstallAssumption, NothingToFlatten, diskVars, confVars, TypeOK, VersionInv, FlatInv, WholeInv, Whole, Serves, Target, Places, Versions, Top, NoPath, Broken, Enabled, Existing, FindBinary
  <1>11. ASSUME NEW v \in Versions, FlattenFolder(v) PROVE WholeInv'
    BY <1>11, InstallAssumption DEF InstallAssumption, FlattenFolder, diskVars, confVars, TypeOK, VersionInv, FlatInv, WholeInv, Whole, Serves, Target, Places, Versions, Top, NoPath, Broken, Enabled, Existing, FindBinary
  <1>12. ASSUME NEW f \in Parts, MoveUp(f) PROVE WholeInv'
    BY <1>12, InstallAssumption DEF InstallAssumption, MoveUp, confVars, TypeOK, VersionInv, FlatInv, WholeInv, Whole, Serves, Target, Places, Versions, Top, NoPath, Broken, Enabled, Existing, FindBinary
  <1>13. ASSUME Flattened PROVE WholeInv'
    BY <1>13, InstallAssumption DEF InstallAssumption, Flattened, diskVars, confVars, TypeOK, VersionInv, FlatInv, WholeInv, Whole, Serves, Target, Places, Versions, Top, NoPath, Broken, Enabled, Existing, FindBinary
  <1>14. ASSUME Install PROVE WholeInv'
    BY <1>14, InstallAssumption DEF InstallAssumption, Install, Exit, confVars, TypeOK, VersionInv, FlatInv, WholeInv, Whole, Serves, Target, Places, Versions, Top, NoPath, Broken, Enabled, Existing, FindBinary
  <1>15. ASSUME WriteConfig PROVE WholeInv'
    BY <1>15, InstallAssumption DEF InstallAssumption, WriteConfig, diskVars, TypeOK, VersionInv, FlatInv, WholeInv, Whole, Serves, Target, Places, Versions, Top, NoPath, Broken, Enabled, Existing, FindBinary
  <1>16. ASSUME WriteConfigBreaks PROVE WholeInv'
    BY <1>16, InstallAssumption DEF InstallAssumption, WriteConfigBreaks, Exit, diskVars, TypeOK, VersionInv, FlatInv, WholeInv, Whole, Serves, Target, Places, Versions, Top, NoPath, Broken, Enabled, Existing, FindBinary
  <1>17. ASSUME Stop PROVE WholeInv'
    BY <1>17, InstallAssumption DEF InstallAssumption, Stop, Exit, diskVars, confVars, TypeOK, VersionInv, FlatInv, WholeInv, Whole, Serves, Target, Places, Versions, Top, NoPath, Broken, Enabled, Existing, FindBinary
  <1>18. ASSUME WriteDefaultConfig PROVE WholeInv'
    BY <1>18, InstallAssumption DEF InstallAssumption, WriteDefaultConfig, callVars, diskVars, TypeOK, VersionInv, FlatInv, WholeInv, Whole, Serves, Target, Places, Versions, Top, NoPath, Broken, Enabled, Existing, FindBinary
  <1>19. ASSUME BinaryRemoved PROVE WholeInv'
    BY <1>19, InstallAssumption DEF InstallAssumption, BinaryRemoved, callVars, confVars, TypeOK, VersionInv, FlatInv, WholeInv, Whole, Serves, Target, Places, Versions, Top, NoPath, Broken, Enabled, Existing, FindBinary
  <1>20. CASE UNCHANGED vars
    BY <1>20 DEF vars, diskVars, confVars, callVars, TypeOK, VersionInv, FlatInv, WholeInv, Whole, Serves, Target, Places, Versions, Top, NoPath, Broken, Enabled, Existing, FindBinary
  <1>21. QED
    BY <1>1, <1>2, <1>3, <1>4, <1>5, <1>6, <1>7, <1>8, <1>9, <1>10, <1>11, <1>12, <1>13, <1>14, <1>15, <1>16, <1>17, <1>18, <1>19, <1>20 DEF Next
-----------------------------------------------------------------------------
IInv == TypeOK /\ ConfigInv /\ FindInv /\ PathInv /\ BinaryInv /\ VersionInv /\ FlatInv /\ WholeInv

LEMMA Invariance == Spec => []IInv
  <1>1. Init => IInv
    BY InvInit DEF IInv
  <1>2. IInv /\ [Next]_vars => IInv'
    BY TypeStep, ConfigStep, FindStep, PathStep, BinaryStep, VersionStep, FlatStep, WholeStep DEF IInv
  <1>3. QED
    BY <1>1, <1>2, PTL DEF Spec

\* The disk, the config and the process are well typed in every reachable state; in
\* particular a process always knows the version it was built for.
THEOREM TypeCorrect == Spec => []TypeOK
  BY Invariance, PTL DEF IInv

\* However downloads, extractions, markers, config writes and processes fail, a server
\* that updates camoufox or cloakbrowser serves a complete runtime of its own version.
THEOREM ServersAreWhole == Spec => []ServesWhole
  <1>1. IInv => ServesWhole
    BY DEF IInv, WholeInv, Whole, Serves, ServesWhole
  <1>2. QED
    BY Invariance, <1>1, PTL

\* As long as one version is expected, also a runtime that is unpacked from a folder is
\* served with a complete executable.
THEOREM BinariesAreWhole == Spec => []ServesBinary
  <1>1. ASSUME IInv PROVE ServesBinary
    <2> SUFFICES ASSUME Serves, ~disturbed, seen = {expected}
                 PROVE  path \in Places /\ files[path][Binary] = expected
      BY DEF ServesBinary, Serves
    <2>1. expected \in Versions /\ OneVersion(expected)
      BY <1>1 DEF IInv, TypeOK, Serves, BinaryInv
    <2>2. path \in Places /\ files[path][Binary] # 0
      BY <1>1 DEF IInv, PathInv, Serves
    <2>3. QED
      BY <2>1, <2>2 DEF OneVersion
  <1>2. QED
    BY Invariance, <1>1, PTL

\* Whatever earlier installations have left behind, one that meets no error finds an
\* executable.
THEOREM BinariesAreFound == Spec => []FindsBinary
  <1>1. IInv => FindsBinary
    BY DEF IInv, FindInv, FindsBinary
  <1>2. QED
    BY Invariance, <1>1, PTL
=============================================================================
