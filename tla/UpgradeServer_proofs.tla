------------------------ MODULE UpgradeServer_proofs ------------------------
(***************************************************************************)
(* Machine-checked facts about UpgradeServer, for every number of          *)
(* connections at once and every mix of uploads.                           *)
(***************************************************************************)
EXTENDS UpgradeServer, TLAPS

\* A thread that no other crosses finds no other at work.
Only == \A c, d \in Conns : c # d /\ alone[c] /\ at[c] \in Working => at[d] \notin Working

\* Where a thread that may have made the directory is.
Holding == {"link", "tar", "tarRun", "tarRest", "access", "run", "rmLink", "rmDir"}

\* The file and the directory are there for someone who will remove them.
Held == /\ name # None => \E c \in Conns : at[c] \in Working
        /\ vol # None => \E c \in Conns : at[c] \in Holding

\* Where nothing has been run yet, and where the file of the upload itself is open or about to be.
Before == {"idle", "receive", "open", "write", "close", "clear", "read", "header", "data", "refuse", "reopen",
           "fill", "mkdir", "link", "tar", "tarRun", "tarRest", "access", "run"}
Early == {"open", "write", "close", "clear", "read", "header", "data", "refuse", "reopen", "fill", "mkdir"}

(* What the file and the directory hold for a thread that no other         *)
(* crosses: its own upload, at every stage.                                *)
Upload(c) == IF kind[c] = "nothing" THEN Empty ELSE Holds("raw", c)
OwnFile(c) ==
    /\ at[c] = "open" => name = None
    /\ at[c] \in {"write", "fill"} => name = fp[c] /\ content[fp[c]] = Empty
    /\ at[c] \in {"close", "clear", "read", "header", "data"} => name = fp[c] /\ content[fp[c]] = Upload(c)
    /\ at[c] \in {"close", "clear", "read", "header"} => fp[c] \in Inodes
    /\ at[c] = "data" => copy[c] = c
    /\ at[c] \in {"reopen"} \cup Filled => copy[c] = c /\ kind[c] \in {"good", "tail"}
    /\ at[c] = "refuse" => kind[c] # "good"
    /\ at[c] \in Filled \ {"fill"} => name = fp[c] /\ content[fp[c]] = Holds("archive", c)
OwnDir(c) ==
    /\ at[c] \in Early => vol = None
    /\ at[c] \in Holding \ {"rmLink", "rmDir"} => vol = c
    /\ at[c] \in {"tar", "tarRun", "tarRest", "access", "run"} => link
    /\ at[c] \in {"link", "tar", "tarRun"} => dir[c] = Bare
    /\ at[c] \in {"tarRun", "tarRest"} => tar[c] = [file |-> name, dir |-> c]
    /\ at[c] = "tarRest" => dir[c] = [run |-> c, zz |-> None]
    /\ at[c] = "access" => dir[c] = [run |-> c, zz |-> IF kind[c] = "good" THEN c ELSE None]
    /\ at[c] = "run" => kind[c] = "good" /\ dir[c] = [run |-> c, zz |-> c]
    /\ at[c] \in {"rmLink", "rmDir", "fclose", "unlink", "done"} /\ kind[c] = "good" => ran[c] = [run |-> c, zz |-> c]
Mine == \A c \in Conns : alone[c] => OwnFile(c) /\ OwnDir(c)

RanOK == /\ \A c \in Conns : at[c] \in Before => ran[c] = Bare
         /\ RunsWhatItChecked

Inv == TypeOK /\ Only /\ Held /\ Mine /\ RanOK

-----------------------------------------------------------------------------
\* Every step of a thread is one from a place of its work to the next or to the end.
LEMMA Moves ==
    ASSUME TypeOK, NEW c \in Conns, Thread(c)
    PROVE  /\ at[c] \in Working /\ at'[c] \in Working \cup {"done"}
           /\ \A d \in Conns \ {c} : at'[d] = at[d]
           /\ at' \in [Conns -> {"idle", "receive", "done", "lost"} \cup Working]
           /\ UNCHANGED <<kind, alone>>
<1>1. ASSUME NEW from \in Working, NEW to \in Working \cup {"done"}, Step(c, from, to)
      PROVE  /\ at[c] \in Working /\ at'[c] \in Working \cup {"done"}
             /\ \A d \in Conns \ {c} : at'[d] = at[d]
             /\ at' \in [Conns -> {"idle", "receive", "done", "lost"} \cup Working]
  BY <1>1 DEF Step, TypeOK
<1>2. \E from \in Working, to \in Working \cup {"done"} : Step(c, from, to)
  <2>1. CASE OpenRaw(c) \/ WriteRaw(c) \/ CloseRaw(c) \/ ClearFirst(c) \/ OpenToRead(c) \/ ReadHeader(c)
    BY <2>1 DEF OpenRaw, WriteRaw, CloseRaw, ClearFirst, RemoveLink, OpenToRead, ReadHeader, Working
  <2>2. CASE ReadData(c)
    BY <2>2 DEF ReadData, Working
  <2>3. CASE Reopen(c) \/ Fill(c) \/ Mkdir(c) \/ Link(c) \/ TarStart(c) \/ TarRun(c) \/ TarRest(c)
    BY <2>3 DEF Reopen, Fill, Mkdir, Link, TarStart, TarRun, TarRest, Working
  <2>4. CASE Access(c) \/ Run(c) \/ CleanLink(c) \/ CleanDir(c) \/ FClose(c) \/ Unlink(c)
    BY <2>4 DEF Access, Run, CleanLink, RemoveLink, CleanDir, FClose, Unlink, Working
  <2> QED BY <2>1, <2>2, <2>3, <2>4 DEF Thread
<1>3. UNCHANGED <<kind, alone>>
  BY DEF Thread, OpenRaw, WriteRaw, CloseRaw, ClearFirst, RemoveLink, OpenToRead, ReadHeader, ReadData,
         Reopen, Fill, Mkdir, Link, TarStart, TarRun, TarRest, Access, Run, CleanLink, CleanDir, FClose, Unlink
<1> QED BY <1>1, <1>2, <1>3

LEMMA HoldsType ==
    /\ Empty.form = "empty" /\ Empty.of = None
    /\ Empty \in [form : {"empty", "raw", "archive", "mixed"}, of : Conns \cup {None}]
    /\ \A c \in Conns : /\ Holds("raw", c) \in [form : {"empty", "raw", "archive", "mixed"}, of : Conns \cup {None}]
                        /\ Holds("archive", c) \in [form : {"empty", "raw", "archive", "mixed"}, of : Conns \cup {None}]
                        /\ Holds("archive", c).form = "archive" /\ Holds("archive", c).of = c
                        /\ Holds("raw", c).form = "raw" /\ Holds("raw", c).of = c
BY DEF Holds, Empty

\* fopen with "w+" opens an inode that is there afterwards and empty.
LEMMA TruncateType ==
    ASSUME TypeOK, NEW c \in Conns, NEW i \in Inodes, Truncate(c, i)
    PROVE  /\ name' \in Inodes /\ fp'[c] = name' /\ content'[name'] = Empty
           /\ fp' \in [Conns -> Inodes \cup {None}] /\ \A d \in Conns \ {c} : fp'[d] = fp[d]
           /\ content' \in [Inodes -> [form : {"empty", "raw", "archive", "mixed"}, of : Conns \cup {None}]]
<1>1. name \in Inodes \/ name = None
  BY DEF TypeOK
<1>2. name' \in Inodes
  BY <1>1 DEF Truncate
<1>3. content' = [content EXCEPT ![name'] = Empty] /\ fp' = [fp EXCEPT ![c] = name']
  BY DEF Truncate
<1>4. fp \in [Conns -> Inodes \cup {None}]
      /\ content \in [Inodes -> [form : {"empty", "raw", "archive", "mixed"}, of : Conns \cup {None}]]
  BY DEF TypeOK
<1>5. /\ fp'[c] = name' /\ fp' \in [Conns -> Inodes \cup {None}]
      /\ \A d \in Conns \ {c} : fp'[d] = fp[d]
  BY <1>2, <1>3, <1>4
<1>6. /\ content'[name'] = Empty
      /\ content' \in [Inodes -> [form : {"empty", "raw", "archive", "mixed"}, of : Conns \cup {None}]]
  BY <1>2, <1>3, <1>4, HoldsType
<1> QED BY <1>2, <1>5, <1>6

LEMMA FlushedType ==
    ASSUME TypeOK, NEW c \in Conns, fp[c] \in Inodes, NEW mine, NEW after \in Flushed(c, mine)
    PROVE  after \in [form : {"empty", "raw", "archive", "mixed"}, of : Conns \cup {None}]
<1>1. content[fp[c]] \in [form : {"empty", "raw", "archive", "mixed"}, of : Conns \cup {None}]
  BY DEF TypeOK
<1> QED BY <1>1 DEF Flushed, Holds

-----------------------------------------------------------------------------
(* The types.                                                              *)

LEMMA TypeInit == Init => TypeOK
<1> SUFFICES ASSUME Init PROVE TypeOK
  OBVIOUS
<1>1. content \in [Inodes -> [form : {"empty", "raw", "archive", "mixed"}, of : Conns \cup {None}]]
  BY HoldsType DEF Init
<1>2. \A c \in Conns : at[c] = "idle"
  BY DEF Init
<1> QED BY <1>1, <1>2 DEF Init, TypeOK, Bare, Filled

\* What TypeOK says where a thread is at work.
LEMMA There ==
    ASSUME TypeOK, NEW c \in Conns
    PROVE  /\ at[c] \in {"write", "close", "header", "data"} \cup Filled =>
                 fp[c] \in Inodes /\ content[fp[c]] \in [form : {"empty", "raw", "archive", "mixed"}, of : Conns \cup {None}]
           /\ at[c] \in {"data", "reopen"} \cup Filled => copy[c] \in Conns
           /\ at[c] \in {"tarRun", "tarRest"} => tar[c].file \in Inodes /\ tar[c].dir \in Conns
BY DEF TypeOK

LEMMA TypeStep == TypeOK /\ [Next]_vars => TypeOK'
<1> SUFFICES ASSUME TypeOK, [Next]_vars PROVE TypeOK'
  OBVIOUS
<1> DEFINE Contents == [form : {"empty", "raw", "archive", "mixed"}, of : Conns \cup {None}]
<1>1. ASSUME NEW c \in Conns, Upgrade_Server(c) PROVE TypeOK'
  BY <1>1 DEF Upgrade_Server, Step, TypeOK, files, dirs, Working, Filled
<1>2. ASSUME NEW c \in Conns, Upgrade_Recvfile(c) PROVE TypeOK'
  BY <1>2 DEF Upgrade_Recvfile, Step, TypeOK, files, dirs, Working, Filled
<1>3. ASSUME NEW c \in Conns, Thread(c) PROVE TypeOK'
  <2>1. /\ at' \in [Conns -> {"idle", "receive", "done", "lost"} \cup Working]
        /\ \A d \in Conns \ {c} : at'[d] = at[d]
        /\ UNCHANGED <<kind, alone>>
    BY <1>3, Moves
  <2>2. CASE OpenRaw(c)
    <3>1. at'[c] = "write" /\ Truncate(c, <<c, "raw">>) /\ UNCHANGED <<kind, copy, dirs, ran>>
      BY <2>2 DEF OpenRaw, Step, TypeOK
    <3>2. <<c, "raw">> \in Inodes
      BY DEF Inodes
    <3>3. /\ name' \in Inodes /\ fp'[c] = name'
          /\ fp' \in [Conns -> Inodes \cup {None}] /\ \A d \in Conns \ {c} : fp'[d] = fp[d]
          /\ content' \in [Inodes -> Contents]
      BY <3>1, <3>2, TruncateType
    <3> QED BY <2>1, <3>1, <3>3 DEF TypeOK, dirs, Filled
  <2>3. CASE WriteRaw(c)
    <3>1. at[c] = "write" /\ at'[c] = "close" /\ UNCHANGED <<kind, name, fp, copy, dirs, ran>>
      BY <2>3 DEF WriteRaw, Step, TypeOK
    <3>2. content' \in [Inodes -> Contents]
      BY <2>3, <3>1, HoldsType DEF WriteRaw, TypeOK
    <3> QED BY <2>1, <3>1, <3>2 DEF TypeOK, dirs, Filled
  <2>4. CASE CloseRaw(c)
    <3>1. at[c] = "close" /\ at'[c] = "clear" /\ UNCHANGED <<kind, name, fp, copy, dirs, ran>>
      BY <2>4 DEF CloseRaw, Step, TypeOK
    <3>2. content' \in [Inodes -> Contents]
      <4>1. PICK after \in IF kind[c] = "nothing" THEN {content[fp[c]]} ELSE Flushed(c, Holds("raw", c)) :
              content' = [content EXCEPT ![fp[c]] = after]
        BY <2>4 DEF CloseRaw
      <4>2. after \in Contents
        BY <3>1, <4>1, There, FlushedType
      <4> QED BY <4>1, <4>2 DEF TypeOK
    <3> QED BY <2>1, <3>1, <3>2 DEF TypeOK, dirs, Filled
  <2>5. CASE ClearFirst(c) \/ CleanLink(c)
    <3>1. at'[c] \in {"read", "rmDir"} /\ (at'[c] = "rmDir" => at[c] = "rmLink") /\ link' = FALSE
          /\ UNCHANGED <<kind, files, vol, dir, tar, ran>>
      BY <2>5 DEF ClearFirst, CleanLink, RemoveLink, Step, TypeOK
    <3> QED BY <2>1, <3>1 DEF TypeOK, files, Filled
  <2>6. CASE OpenToRead(c)
    <3>1. at'[c] = (IF name = None THEN "unlink" ELSE "header") /\ fp' = [fp EXCEPT ![c] = name]
          /\ UNCHANGED <<kind, name, content, copy, dirs, ran>>
      BY <2>6 DEF OpenToRead, Step, TypeOK
    <3> QED BY <2>1, <3>1 DEF TypeOK, dirs, Filled
  <2>7. CASE ReadHeader(c)
    <3> DEFINE now == content[fp[c]]
               fits == now.form \in {"raw", "mixed"} /\ now.of # None /\ kind[now.of] # "alien"
    <3>1. at[c] = "header" /\ at'[c] = (IF fits THEN "data" ELSE "unlink")
          /\ copy' = [copy EXCEPT ![c] = IF fits THEN now.of ELSE None]
          /\ UNCHANGED <<kind, name, content, fp, dirs, ran>>
      BY <2>7 DEF ReadHeader, Step, TypeOK
    <3>2. now \in Contents
      BY <3>1, There
    <3> QED BY <2>1, <3>1, <3>2 DEF TypeOK, dirs, Filled
  <2>8. CASE ReadData(c)
    <3>1. at[c] = "data" /\ at'[c] \in {"reopen", "refuse", "unlink"} /\ UNCHANGED <<kind, files, dirs, ran>>
      BY <2>8 DEF ReadData, Step, TypeOK
    <3> QED BY <2>1, <3>1 DEF TypeOK, files, dirs, Filled
  <2>9. CASE Reopen(c)
    <3>1. at'[c] \in {"fill", "unlink"} /\ (at'[c] = "fill" => at[c] = "reopen")
          /\ Truncate(c, <<c, "archive">>) /\ UNCHANGED <<kind, copy, dirs, ran>>
      BY <2>9 DEF Reopen, Step, TypeOK
    <3>2. <<c, "archive">> \in Inodes
      BY DEF Inodes
    <3> QED BY <2>1, <3>1, <3>2, TruncateType DEF TypeOK, dirs, Filled
  <2>10. CASE Fill(c)
    <3>1. at[c] = "fill" /\ at'[c] = "mkdir" /\ UNCHANGED <<kind, name, fp, copy, dirs, ran>>
      BY <2>10 DEF Fill, Step, TypeOK
    <3>2. fp[c] \in Inodes /\ copy[c] \in Conns
      BY <3>1, There DEF Filled
    <3>3. content' \in [Inodes -> Contents]
      BY <2>10, <3>2, HoldsType DEF Fill, TypeOK
    <3> QED BY <2>1, <3>1, <3>2, <3>3 DEF TypeOK, dirs, Filled
  <2>11. CASE Mkdir(c) \/ Link(c)
    <3>1. at[c] \in {"mkdir", "link"} /\ at'[c] \in {"link", "tar"} /\ UNCHANGED <<kind, files, tar, ran>>
      BY <2>11 DEF Mkdir, Link, Step, TypeOK
    <3>2. /\ link' \in BOOLEAN /\ vol' \in Conns \cup {None}
          /\ dir' \in [Conns -> [run : Conns \cup {None}, zz : Conns \cup {None}]]
      <4>1. CASE Mkdir(c)
        BY <4>1 DEF Mkdir, TypeOK, Bare
      <4>2. CASE Link(c)
        BY <4>2 DEF Link, TypeOK
      <4> QED BY <2>11, <4>1, <4>2
    <3> QED BY <2>1, <3>1, <3>2 DEF TypeOK, files, Filled
  <2>12. CASE TarStart(c)
    <3>1. /\ at[c] = "tar" /\ at'[c] = (IF name # None /\ link /\ vol # None THEN "tarRun" ELSE "access")
          /\ tar' = [tar EXCEPT ![c] = [file |-> name, dir |-> vol]]
          /\ UNCHANGED <<kind, files, link, vol, dir, ran>>
      BY <2>12 DEF TarStart, Step, TypeOK
    <3> QED BY <2>1, <3>1 DEF TypeOK, files, Filled
  <2>13. CASE TarRun(c) \/ TarRest(c)
    <3>1. /\ at[c] \in {"tarRun", "tarRest"} /\ at'[c] \in {"tarRest", "access"}
          /\ UNCHANGED <<kind, files, link, vol, tar, ran>>
      BY <2>13 DEF TarRun, TarRest, Step, TypeOK
    <3>2. tar[c].file \in Inodes /\ tar[c].dir \in Conns /\ content[tar[c].file] \in Contents
      BY <3>1, There DEF TypeOK
    <3>3. dir' \in [Conns -> [run : Conns \cup {None}, zz : Conns \cup {None}]]
      <4>1. ASSUME NEW x \in [run : Conns \cup {None}, zz : Conns \cup {None}], Unpack(c, x)
            PROVE  dir' \in [Conns -> [run : Conns \cup {None}, zz : Conns \cup {None}]]
        BY <3>2, <4>1 DEF Unpack, TypeOK
      <4>2. dir[tar[c].dir] \in [run : Conns \cup {None}, zz : Conns \cup {None}]
        BY <3>2 DEF TypeOK
      <4> QED BY <2>13, <3>2, <4>1, <4>2 DEF TarRun, TarRest, TypeOK
    <3> QED BY <2>1, <3>1, <3>2, <3>3 DEF TypeOK, files, Filled
  <2>14. CASE Access(c) \/ Run(c)
    <3>1. /\ at[c] \in {"access", "run"} /\ at'[c] \in {"run", "rmLink"}
          /\ UNCHANGED <<kind, files, dirs>>
      BY <2>14 DEF Access, Run, Step, TypeOK
    <3>2. ran' \in [Conns -> [run : Conns \cup {None}, zz : Conns \cup {None}]]
      BY <2>14 DEF Access, Run, TypeOK
    <3> QED BY <2>1, <3>1, <3>2 DEF TypeOK, files, dirs, Filled
  <2>15. CASE CleanDir(c)
    <3>1. /\ at[c] = "rmDir" /\ at'[c] = "fclose" /\ vol' = None
          /\ UNCHANGED <<kind, files, link, dir, tar, ran>>
      BY <2>15 DEF CleanDir, Step, TypeOK
    <3> QED BY <2>1, <3>1 DEF TypeOK, files, Filled
  <2>16. CASE FClose(c)
    <3>1. at[c] = "fclose" /\ at'[c] = "unlink" /\ UNCHANGED <<kind, name, fp, copy, dirs, ran>>
      BY <2>16 DEF FClose, Step, TypeOK
    <3>2. content' \in [Inodes -> Contents]
      <4>1. PICK after \in Flushed(c, Holds("archive", copy[c])) : content' = [content EXCEPT ![fp[c]] = after]
        BY <2>16 DEF FClose
      <4>2. after \in Contents
        BY <3>1, <4>1, There, FlushedType DEF Filled
      <4> QED BY <4>1, <4>2 DEF TypeOK
    <3> QED BY <2>1, <3>1, <3>2 DEF TypeOK, dirs, Filled
  <2>17. CASE Unlink(c)
    <3>1. at'[c] = "done" /\ name' = None /\ UNCHANGED <<kind, content, fp, copy, dirs, ran>>
      BY <2>17 DEF Unlink, Step, TypeOK
    <3> QED BY <2>1, <3>1 DEF TypeOK, dirs, Filled
  <2> QED BY <1>3, <2>2, <2>3, <2>4, <2>5, <2>6, <2>7, <2>8, <2>9, <2>10, <2>11, <2>12, <2>13, <2>14,
             <2>15, <2>16, <2>17 DEF Thread
<1>4. CASE Reboot
  BY <1>4 DEF Reboot, TypeOK, Working, Filled
<1>5. CASE UNCHANGED vars
  BY <1>5 DEF vars, TypeOK, files, dirs
<1> QED BY <1>1, <1>2, <1>3, <1>4, <1>5 DEF Next

-----------------------------------------------------------------------------
(* Who is alone, and who holds what.                                       *)

LEMMA OnlyStep == TypeOK /\ Only /\ [Next]_vars => Only'
<1> SUFFICES ASSUME TypeOK, Only, [Next]_vars PROVE Only'
  OBVIOUS
<1>1. ASSUME NEW c \in Conns, Upgrade_Server(c) PROVE Only'
  BY <1>1 DEF Upgrade_Server, Step, Only, TypeOK, Working
<1>2. ASSUME NEW c \in Conns, Upgrade_Recvfile(c) PROVE Only'
  <2>1. at' = [at EXCEPT ![c] = "open"]
        /\ alone' = [d \in Conns |-> IF d = c THEN \A e \in Conns \ {c} : at[e] \notin Working
                                     ELSE alone[d] /\ at[d] \notin Working]
    BY <1>2 DEF Upgrade_Recvfile, Step
  <2> SUFFICES ASSUME NEW d \in Conns, NEW e \in Conns, d # e, alone'[d], at'[d] \in Working
               PROVE  at'[e] \notin Working
    BY DEF Only
  <2>2. CASE d = c
    BY <2>1, <2>2 DEF TypeOK
  <2>3. CASE d # c
    BY <2>1, <2>3 DEF TypeOK
  <2> QED BY <2>2, <2>3
<1>3. ASSUME NEW c \in Conns, Thread(c) PROVE Only'
  <2>1. \A d \in Conns : at'[d] \in Working => at[d] \in Working
    BY <1>3, Moves
  <2> QED BY <1>3, <2>1, Moves DEF Only
<1>4. CASE Reboot
  BY <1>4 DEF Reboot, Only, Working
<1>5. CASE UNCHANGED vars
  BY <1>5 DEF vars, Only
<1> QED BY <1>1, <1>2, <1>3, <1>4, <1>5 DEF Next

LEMMA HeldStep == TypeOK /\ Held /\ [Next]_vars => Held'
<1> SUFFICES ASSUME TypeOK, Held, [Next]_vars PROVE Held'
  OBVIOUS
<1>1. ASSUME NEW c \in Conns, Upgrade_Server(c) PROVE Held'
  BY <1>1 DEF Upgrade_Server, Step, Held, TypeOK, Working, Holding, files, dirs
<1>2. ASSUME NEW c \in Conns, Upgrade_Recvfile(c) PROVE Held'
  BY <1>2 DEF Upgrade_Recvfile, Step, Held, TypeOK, Working, Holding, files, dirs
<1>3. ASSUME NEW c \in Conns, Thread(c) PROVE Held'
  <2>1. at[c] \in Working /\ \A d \in Conns \ {c} : at'[d] = at[d]
    BY <1>3, Moves
  <2>2. at'[c] \in Working \/ name' = None
    <3>1. CASE Unlink(c)
      BY <3>1 DEF Unlink
    <3>2. CASE ~Unlink(c)
      <4>1. ASSUME NEW from, NEW to \in Working, Step(c, from, to) PROVE at'[c] \in Working
        BY <4>1 DEF Step, TypeOK
      <4>2. \E from \in Working, to \in Working : Step(c, from, to)
        <5>1. CASE OpenRaw(c) \/ WriteRaw(c) \/ CloseRaw(c) \/ ClearFirst(c) \/ OpenToRead(c) \/ ReadHeader(c)
          BY <5>1 DEF OpenRaw, WriteRaw, CloseRaw, ClearFirst, RemoveLink, OpenToRead, ReadHeader, Working
        <5>2. CASE ReadData(c)
          BY <5>2 DEF ReadData, Working
        <5>3. CASE Reopen(c) \/ Fill(c) \/ Mkdir(c) \/ Link(c) \/ TarStart(c) \/ TarRun(c) \/ TarRest(c)
          BY <5>3 DEF Reopen, Fill, Mkdir, Link, TarStart, TarRun, TarRest, Working
        <5>4. CASE Access(c) \/ Run(c) \/ CleanLink(c) \/ CleanDir(c) \/ FClose(c)
          BY <5>4 DEF Access, Run, CleanLink, RemoveLink, CleanDir, FClose, Working
        <5> QED BY <1>3, <3>2, <5>1, <5>2, <5>3, <5>4 DEF Thread
      <4> QED BY <4>1, <4>2
    <3> QED BY <3>1, <3>2
  <2>3. name' # None => \E d \in Conns : at'[d] \in Working
    BY <2>2
  <2>4. vol' # None => \E d \in Conns : at'[d] \in Holding
    <3>1. CASE CleanDir(c)
      BY <3>1 DEF CleanDir
    <3>2. CASE Mkdir(c)
      <4>1. at'[c] = "link"
        BY <3>2 DEF Mkdir, Step, TypeOK
      <4> QED BY <4>1 DEF Holding
    <3>3. CASE ~CleanDir(c) /\ ~Mkdir(c)
      <4>1. vol' = vol /\ (at[c] \in Holding => at'[c] \in Holding)
        <5>1. CASE OpenRaw(c) \/ WriteRaw(c) \/ CloseRaw(c) \/ ClearFirst(c) \/ OpenToRead(c)
          BY <5>1 DEF OpenRaw, WriteRaw, CloseRaw, ClearFirst, RemoveLink, OpenToRead, Step, dirs, Holding, TypeOK
        <5>2. CASE ReadHeader(c) \/ ReadData(c) \/ Reopen(c) \/ Fill(c)
          BY <5>2 DEF ReadHeader, ReadData, Reopen, Fill, Step, dirs, Holding, TypeOK
        <5>3. CASE Link(c) \/ TarStart(c) \/ TarRun(c) \/ TarRest(c)
          BY <5>3 DEF Link, TarStart, TarRun, TarRest, Step, dirs, Holding, TypeOK
        <5>4. CASE Access(c) \/ Run(c) \/ CleanLink(c) \/ FClose(c) \/ Unlink(c)
          BY <5>4 DEF Access, Run, CleanLink, RemoveLink, FClose, Unlink, Step, dirs, Holding, TypeOK
        <5> QED BY <1>3, <3>3, <5>1, <5>2, <5>3, <5>4 DEF Thread
      <4> QED BY <2>1, <4>1 DEF Held
    <3> QED BY <3>1, <3>2, <3>3
  <2> QED BY <2>3, <2>4 DEF Held
<1>4. CASE Reboot
  BY <1>4 DEF Reboot, Held
<1>5. CASE UNCHANGED vars
  BY <1>5 DEF vars, Held, files, dirs
<1> QED BY <1>1, <1>2, <1>3, <1>4, <1>5 DEF Next
-----------------------------------------------------------------------------
(* What a thread that no other crosses finds is its own.                   *)

LEMMA UploadType == \A c \in Conns : /\ kind[c] = "nothing" => Upload(c) = Empty
                                     /\ kind[c] # "nothing" => Upload(c) = Holds("raw", c)
BY DEF Upload

\* A file that holds what its thread put there still holds it when the rest of its buffer is out.
LEMMA FlushedOwn == \A c \in Conns : \A mine : content[fp[c]] = mine => Flushed(c, mine) = {mine}
BY DEF Flushed

LEMMA OpenOwn ==
    ASSUME TypeOK, NEW c \in Conns, OwnFile(c), OpenRaw(c)
    PROVE  OwnFile(c)'
<1>1. at'[c] = "write" /\ Truncate(c, <<c, "raw">>)
  BY DEF OpenRaw, Step, TypeOK
<1>2. <<c, "raw">> \in Inodes
  BY DEF Inodes
<1>3. fp'[c] = name' /\ content'[name'] = Empty
  BY <1>1, <1>2, TruncateType
<1> QED BY <1>1, <1>3 DEF OwnFile, Filled

LEMMA ReopenOwn ==
    ASSUME TypeOK, NEW c \in Conns, OwnFile(c), Reopen(c)
    PROVE  OwnFile(c)'
<1>1. /\ at'[c] \in {"fill", "unlink"} /\ (at'[c] = "fill" => at[c] = "reopen")
      /\ Truncate(c, <<c, "archive">>) /\ UNCHANGED <<kind, copy>>
  BY DEF Reopen, Step, TypeOK
<1>2. <<c, "archive">> \in Inodes
  BY DEF Inodes
<1>3. fp'[c] = name' /\ content'[name'] = Empty
  BY <1>1, <1>2, TruncateType
<1> QED BY <1>1, <1>3 DEF OwnFile, Filled

LEMMA WriteOwn ==
    ASSUME TypeOK, NEW c \in Conns, OwnFile(c), WriteRaw(c)
    PROVE  OwnFile(c)'
<1>1. at[c] = "write" /\ at'[c] = "close" /\ UNCHANGED <<kind, name, fp>>
  BY DEF WriteRaw, Step, TypeOK
<1>2. fp[c] \in Inodes /\ name = fp[c] /\ content[fp[c]] = Empty
  BY <1>1, There DEF OwnFile
<1>3. content'[fp[c]] = Upload(c)
  BY <1>2 DEF WriteRaw, Upload, TypeOK
<1>4. Upload(c)' = Upload(c)
  BY <1>1 DEF Upload
<1> QED BY <1>1, <1>2, <1>3, <1>4 DEF OwnFile, Filled

LEMMA CloseOwn ==
    ASSUME TypeOK, NEW c \in Conns, OwnFile(c), CloseRaw(c)
    PROVE  OwnFile(c)'
<1>1. at[c] = "close" /\ at'[c] = "clear" /\ UNCHANGED <<kind, name, fp>>
  BY DEF CloseRaw, Step, TypeOK
<1>2. fp[c] \in Inodes /\ name = fp[c] /\ content[fp[c]] = Upload(c)
  BY <1>1 DEF OwnFile
<1>3. PICK after \in IF kind[c] = "nothing" THEN {content[fp[c]]} ELSE Flushed(c, Holds("raw", c)) :
        content' = [content EXCEPT ![fp[c]] = after]
  BY DEF CloseRaw
<1>4. after = Upload(c)
  BY <1>2, <1>3, UploadType, FlushedOwn
<1>5. content'[fp[c]] = Upload(c)
  BY <1>2, <1>3, <1>4 DEF TypeOK
<1>6. Upload(c)' = Upload(c)
  BY <1>1 DEF Upload
<1> QED BY <1>1, <1>2, <1>5, <1>6 DEF OwnFile, Filled

LEMMA HeaderOwn ==
    ASSUME TypeOK, NEW c \in Conns, OwnFile(c), ReadHeader(c)
    PROVE  OwnFile(c)' /\ (kind[c] = "good" => at'[c] = "data")
<1> DEFINE now == content[fp[c]]
           fits == now.form \in {"raw", "mixed"} /\ now.of # None /\ kind[now.of] # "alien"
<1>1. /\ at[c] = "header" /\ at'[c] = (IF fits THEN "data" ELSE "unlink")
      /\ copy' = [copy EXCEPT ![c] = IF fits THEN now.of ELSE None]
      /\ UNCHANGED <<kind, name, content, fp>>
  BY DEF ReadHeader, Step, TypeOK
<1>2. fp[c] \in Inodes /\ name = fp[c] /\ now = Upload(c)
  BY <1>1 DEF OwnFile
<1>3. fits => now.of = c
  BY <1>2, UploadType, HoldsType
<1>4. kind[c] = "good" => fits
  BY <1>2, UploadType, HoldsType, UpgradeAssumption
<1>5. Upload(c)' = Upload(c) /\ copy \in [Conns -> Conns \cup {None}]
  BY <1>1 DEF Upload, TypeOK
<1> HIDE DEF now, fits
<1>6. at'[c] = "data" => copy'[c] = c
  BY <1>1, <1>3, <1>5
<1>7. at'[c] \in {"data", "unlink"} /\ (kind[c] = "good" => at'[c] = "data")
  BY <1>1, <1>4
<1>8. content'[fp'[c]] = Upload(c)' /\ name' = fp'[c]
  BY <1>1, <1>2, <1>5 DEF now
<1> QED BY <1>6, <1>7, <1>8 DEF OwnFile, Filled

LEMMA DataOwn ==
    ASSUME TypeOK, NEW c \in Conns, OwnFile(c), ReadData(c)
    PROVE  OwnFile(c)' /\ (kind[c] = "good" => at'[c] = "reopen")
<1>1. at[c] = "data" /\ UNCHANGED <<kind, name, content, fp, copy>>
  BY DEF ReadData, files
<1>2. copy[c] = c /\ content[fp[c]] = Upload(c)
  BY <1>1 DEF OwnFile
<1> DEFINE fits == content[fp[c]] = Holds("raw", copy[c]) /\ kind[copy[c]] \in {"good", "tail"}
<1>3. \E to \in IF fits THEN {"reopen"} ELSE {"refuse", "unlink"} : Step(c, "data", to)
  BY DEF ReadData
<1>4. fits <=> kind[c] \in {"good", "tail"}
  BY <1>2, UploadType
<1> HIDE DEF fits
<1>5. IF fits THEN at'[c] = "reopen" ELSE at'[c] \in {"refuse", "unlink"}
  BY <1>3 DEF Step, TypeOK
<1> QED BY <1>1, <1>2, <1>4, <1>5 DEF OwnFile, Filled

LEMMA FillOwn ==
    ASSUME TypeOK, NEW c \in Conns, OwnFile(c), Fill(c)
    PROVE  OwnFile(c)'
<1>1. at[c] = "fill" /\ at'[c] = "mkdir" /\ UNCHANGED <<kind, name, fp, copy>>
  BY DEF Fill, Step, TypeOK
<1>2. fp[c] \in Inodes /\ name = fp[c] /\ copy[c] = c /\ kind[c] \in {"good", "tail"}
  BY <1>1, There DEF OwnFile, Filled
<1>3. content'[fp[c]] = Holds("archive", c)
  BY <1>2 DEF Fill, TypeOK
<1> QED BY <1>1, <1>2, <1>3 DEF OwnFile, Filled

LEMMA FCloseOwn ==
    ASSUME TypeOK, NEW c \in Conns, OwnFile(c), FClose(c)
    PROVE  OwnFile(c)'
<1>1. at'[c] = "unlink"
  BY DEF FClose, Step, TypeOK
<1> QED BY <1>1 DEF OwnFile, Filled

\* The steps that leave the file and what the thread knows of it alone.
LEMMA FileKept ==
    ASSUME TypeOK, NEW c \in Conns, OwnFile(c), UNCHANGED <<kind, name, content, copy>>,
           \/ fp' = fp \/ OpenToRead(c),
           \/ ClearFirst(c) \/ OpenToRead(c) \/ Mkdir(c) \/ Link(c) \/ TarStart(c) \/ TarRun(c) \/ TarRest(c)
           \/ Access(c) \/ Run(c) \/ CleanLink(c) \/ CleanDir(c)
    PROVE  OwnFile(c)'
<1>1. Upload(c)' = Upload(c)
  BY DEF Upload
<1>2. CASE ClearFirst(c)
  BY <1>1, <1>2 DEF ClearFirst, RemoveLink, Step, OpenToRead, OwnFile, TypeOK, Filled, files
<1>3. CASE OpenToRead(c)
  <2>1. at[c] = "read" /\ at'[c] = (IF name = None THEN "unlink" ELSE "header") /\ fp'[c] = name
    BY <1>3 DEF OpenToRead, Step, TypeOK
  <2>2. name = fp[c] /\ content[fp[c]] = Upload(c) /\ fp[c] \in Inodes
    BY <2>1 DEF OwnFile
  <2> QED BY <1>1, <2>1, <2>2 DEF OwnFile, Filled
<1>4. CASE Mkdir(c) \/ Link(c) \/ TarStart(c) \/ TarRun(c) \/ TarRest(c) \/ Access(c) \/ Run(c)
           \/ CleanLink(c) \/ CleanDir(c)
  <2>1. at[c] \in Filled \ {"fill"} /\ at'[c] \in Filled \ {"fill"}
    BY <1>4 DEF Mkdir, Link, TarStart, TarRun, TarRest, Access, Run, CleanLink, RemoveLink, CleanDir, Step,
                TypeOK, Filled
  <2>2. fp' = fp
    BY <1>4 DEF Mkdir, Link, TarStart, TarRun, TarRest, Access, Run, CleanLink, RemoveLink, CleanDir, files
  <2>3. name = fp[c] /\ content[fp[c]] = Holds("archive", c) /\ copy[c] = c /\ kind[c] \in {"good", "tail"}
    BY <2>1 DEF OwnFile
  <2> QED BY <2>1, <2>2, <2>3 DEF OwnFile, Filled
<1> QED BY <1>2, <1>3, <1>4

LEMMA FileStep ==
    ASSUME TypeOK, NEW c \in Conns, OwnFile(c), Thread(c)
    PROVE  OwnFile(c)'
<1>1. CASE ClearFirst(c) \/ OpenToRead(c) \/ Mkdir(c) \/ Link(c) \/ TarStart(c) \/ TarRun(c) \/ TarRest(c)
           \/ Access(c) \/ Run(c) \/ CleanLink(c) \/ CleanDir(c)
  <2>1. UNCHANGED <<kind, name, content, copy>> /\ (fp' = fp \/ OpenToRead(c))
    BY <1>1 DEF ClearFirst, OpenToRead, Mkdir, Link, TarStart, TarRun, TarRest, Access, Run, CleanLink,
                RemoveLink, CleanDir, files
  <2> QED BY <1>1, <2>1, FileKept
<1>2. CASE Unlink(c)
  <2>1. at'[c] = "done"
    BY <1>2 DEF Unlink, Step, TypeOK
  <2> QED BY <2>1 DEF OwnFile, Filled
<1> QED BY <1>1, <1>2, OpenOwn, WriteOwn, CloseOwn, HeaderOwn, DataOwn, ReopenOwn, FillOwn, FCloseOwn DEF Thread

\* From the beginning up to the directory: there is none, and a good upload goes on to it.
LEMMA EarlyOwn ==
    ASSUME TypeOK, NEW c \in Conns, OwnFile(c), OwnDir(c),
           \/ OpenRaw(c) \/ WriteRaw(c) \/ CloseRaw(c) \/ ClearFirst(c) \/ OpenToRead(c)
           \/ ReadHeader(c) \/ ReadData(c) \/ Reopen(c) \/ Fill(c)
    PROVE  OwnDir(c)'
<1>1. UNCHANGED <<kind, vol, dir, tar, ran>> /\ at[c] \in Early \ {"mkdir"} /\ at'[c] \in Early \cup {"unlink"}
  <2>1. CASE OpenRaw(c) \/ WriteRaw(c) \/ CloseRaw(c)
    BY <2>1 DEF OpenRaw, WriteRaw, CloseRaw, Step, TypeOK, Early, dirs
  <2>2. CASE ClearFirst(c) \/ OpenToRead(c) \/ ReadHeader(c)
    BY <2>2 DEF ClearFirst, RemoveLink, OpenToRead, ReadHeader, Step, TypeOK, Early, dirs
  <2>3. CASE ReadData(c) \/ Reopen(c) \/ Fill(c)
    BY <2>3 DEF ReadData, Reopen, Fill, Step, TypeOK, Early, dirs
  <2> QED BY <2>1, <2>2, <2>3
<1>2. kind[c] = "good" => at'[c] # "unlink"
  <2>1. CASE OpenRaw(c) \/ WriteRaw(c) \/ CloseRaw(c) \/ ClearFirst(c) \/ Fill(c)
    BY <2>1 DEF OpenRaw, WriteRaw, CloseRaw, ClearFirst, RemoveLink, Fill, Step, TypeOK
  <2>2. CASE OpenToRead(c)
    <3>1. at[c] = "read" /\ at'[c] = (IF name = None THEN "unlink" ELSE "header")
      BY <2>2 DEF OpenToRead, Step, TypeOK
    <3>2. name \in Inodes
      BY <3>1 DEF OwnFile
    <3> QED BY <3>1, <3>2, UpgradeAssumption DEF Inodes
  <2>3. CASE ReadHeader(c) \/ ReadData(c)
    BY <2>3, HeaderOwn, DataOwn
  <2>4. CASE Reopen(c)
    <3>1. at[c] = "refuse" \/ at'[c] = "fill"
      BY <2>4 DEF Reopen, Step, TypeOK
    <3> QED BY <3>1 DEF OwnFile
  <2> QED BY <1>1, <2>1, <2>2, <2>3, <2>4
<1>3. vol = None
  BY <1>1 DEF OwnDir
<1>4. at'[c] # "unlink" => at'[c] \in Early /\ vol' = None
  BY <1>1, <1>3
<1> QED BY <1>1, <1>2, <1>4 DEF OwnDir, Early, Holding

\* The directory is made, linked, filled, looked at and run, and is the thread's own all the time.
LEMMA DirOwn ==
    ASSUME TypeOK, NEW c \in Conns, OwnFile(c), OwnDir(c),
           \/ Mkdir(c) \/ Link(c) \/ TarStart(c) \/ TarRun(c) \/ TarRest(c) \/ Access(c) \/ Run(c)
    PROVE  OwnDir(c)'
<1>0. c # None /\ None \notin Inodes
  BY UpgradeAssumption DEF Inodes
<1>1. CASE Mkdir(c)
  <2>1. at[c] = "mkdir" /\ at'[c] = "link" /\ UNCHANGED kind
    BY <1>1 DEF Mkdir, Step, TypeOK
  <2>2. vol = None
    BY <2>1 DEF OwnDir, Early
  <2>3. vol' = c /\ dir'[c] = Bare
    BY <1>1, <2>2 DEF Mkdir, TypeOK
  <2> QED BY <2>1, <2>3 DEF OwnDir, Early, Holding
<1>2. CASE Link(c)
  <2>1. at[c] = "link" /\ at'[c] = "tar" /\ UNCHANGED <<kind, vol, dir>> /\ link'
    BY <1>2 DEF Link, Step, TypeOK
  <2>2. vol = c /\ dir[c] = Bare
    BY <2>1 DEF OwnDir, Holding
  <2> QED BY <2>1, <2>2 DEF OwnDir, Early, Holding
<1>3. CASE TarStart(c)
  <2>1. /\ at[c] = "tar" /\ at'[c] = (IF name # None /\ link /\ vol # None THEN "tarRun" ELSE "access")
        /\ tar'[c] = [file |-> name, dir |-> vol] /\ UNCHANGED <<kind, name, link, vol, dir>>
    BY <1>3 DEF TarStart, Step, TypeOK, files
  <2>2. vol = c /\ dir[c] = Bare /\ link
    BY <2>1 DEF OwnDir, Holding
  <2>3. name \in Inodes
    BY <2>1, There DEF OwnFile, Filled
  <2>4. at'[c] = "tarRun"
    BY <1>0, <2>1, <2>2, <2>3
  <2> QED BY <2>1, <2>2, <2>4 DEF OwnDir, Early, Holding
<1>4. CASE TarRun(c)
  <2>1. /\ at[c] = "tarRun" /\ UNCHANGED <<kind, name, link, vol, tar>>
        /\ at'[c] = (IF content[tar[c].file].form = "archive" THEN "tarRest" ELSE "access")
    BY <1>4 DEF TarRun, Step, TypeOK, files
  <2>2. vol = c /\ dir[c] = Bare /\ link /\ tar[c] = [file |-> name, dir |-> c]
    BY <2>1 DEF OwnDir, Holding
  <2>3. content[tar[c].file] = Holds("archive", c)
    BY <2>1, <2>2 DEF OwnFile, Filled
  <2>4. at'[c] = "tarRest" /\ Unpack(c, [dir[c] EXCEPT !.run = c])
    BY <1>4, <2>1, <2>2, <2>3, HoldsType DEF TarRun
  <2>5. dir'[c] = [run |-> c, zz |-> None]
    BY <2>2, <2>4 DEF Unpack, Bare, TypeOK
  <2> QED BY <2>1, <2>2, <2>4, <2>5 DEF OwnDir, Early, Holding
<1>5. CASE TarRest(c)
  <2>1. at[c] = "tarRest" /\ at'[c] = "access" /\ UNCHANGED <<kind, link, vol>>
    BY <1>5 DEF TarRest, Step, TypeOK
  <2>2. vol = c /\ dir[c] = [run |-> c, zz |-> None] /\ link /\ tar[c] = [file |-> name, dir |-> c]
    BY <2>1 DEF OwnDir, Holding
  <2>3. content[tar[c].file] = Holds("archive", c) /\ kind[c] \in {"good", "tail"}
    BY <2>1, <2>2 DEF OwnFile, Filled
  <2>4. IF kind[c] = "good" THEN Unpack(c, [dir[c] EXCEPT !.zz = c]) ELSE dir' = dir
    BY <1>5, <2>2, <2>3, HoldsType DEF TarRest
  <2>5. dir'[c] = [run |-> c, zz |-> IF kind[c] = "good" THEN c ELSE None]
    BY <2>2, <2>4 DEF Unpack, TypeOK
  <2> QED BY <2>1, <2>2, <2>5 DEF OwnDir, Early, Holding
<1>6. CASE Access(c)
  <2>1. /\ at[c] = "access" /\ UNCHANGED <<kind, link, vol, dir, ran>>
        /\ at'[c] = (IF link /\ vol # None /\ dir[vol].zz # None THEN "run" ELSE "rmLink")
    BY <1>6 DEF Access, Step, TypeOK, dirs
  <2>2. vol = c /\ link /\ dir[c] = [run |-> c, zz |-> IF kind[c] = "good" THEN c ELSE None]
    BY <2>1 DEF OwnDir, Holding
  <2>3. IF kind[c] = "good" THEN at'[c] = "run" ELSE at'[c] = "rmLink"
    BY <1>0, <2>1, <2>2
  <2> QED BY <2>1, <2>2, <2>3 DEF OwnDir, Early, Holding
<1>7. CASE Run(c)
  <2>1. /\ at[c] = "run" /\ at'[c] = "rmLink" /\ UNCHANGED <<kind, link, vol, dir>>
        /\ ran' = IF link /\ vol # None THEN [ran EXCEPT ![c] = dir[vol]] ELSE ran
    BY <1>7 DEF Run, Step, TypeOK, dirs
  <2>2. vol = c /\ link /\ dir[c] = [run |-> c, zz |-> c]
    BY <2>1 DEF OwnDir, Holding
  <2>3. ran'[c] = [run |-> c, zz |-> c]
    BY <1>0, <2>1, <2>2 DEF TypeOK
  <2> QED BY <2>1, <2>3 DEF OwnDir, Early, Holding
<1> QED BY <1>1, <1>2, <1>3, <1>4, <1>5, <1>6, <1>7

\* Cleaning up does not change what was run.
LEMMA CleanOwn ==
    ASSUME TypeOK, NEW c \in Conns, OwnDir(c), CleanLink(c) \/ CleanDir(c) \/ FClose(c) \/ Unlink(c)
    PROVE  OwnDir(c)'
<1>1. UNCHANGED <<kind, ran>> /\ at[c] \in {"rmLink", "rmDir", "fclose", "unlink"}
      /\ at'[c] \in {"rmDir", "fclose", "unlink", "done"}
  BY DEF CleanLink, RemoveLink, CleanDir, FClose, Unlink, Step, TypeOK
<1> QED BY <1>1 DEF OwnDir, Early, Holding

LEMMA DirStep ==
    ASSUME TypeOK, NEW c \in Conns, OwnFile(c), OwnDir(c), Thread(c)
    PROVE  OwnDir(c)'
BY EarlyOwn, DirOwn, CleanOwn DEF Thread

\* A step of a thread leaves what any other has run; its own is set by Run alone.
LEMMA RanMoves ==
    ASSUME NEW c \in Conns, Thread(c)
    PROVE  ran' = ran \/ (Run(c) /\ ran' = [ran EXCEPT ![c] = dir[vol]] /\ link /\ vol # None)
BY DEF Thread, OpenRaw, WriteRaw, CloseRaw, ClearFirst, RemoveLink, OpenToRead, ReadHeader, ReadData,
       Reopen, Fill, Mkdir, Link, TarStart, TarRun, TarRest, Access, Run, CleanLink, CleanDir, FClose, Unlink

\* Someone who is not at work is not touched by the others.
LEMMA Idle ==
    ASSUME NEW d \in Conns, at'[d] = at[d], at[d] \notin Working, OwnDir(d), UNCHANGED kind, ran'[d] = ran[d]
    PROVE  OwnFile(d)' /\ OwnDir(d)'
<1>1. OwnFile(d)'
  BY DEF OwnFile, Filled, Working
<1>2. OwnDir(d)'
  BY DEF OwnDir, Early, Holding, Working
<1> QED BY <1>1, <1>2

\* Where no stage of an upload is, there is nothing to say of it.
LEMMA Nowhere ==
    ASSUME NEW d \in Conns, at[d] \in {"idle", "receive", "lost"}
    PROVE  OwnFile(d) /\ OwnDir(d)
BY DEF OwnFile, OwnDir, Filled, Early, Holding

LEMMA MineStep == TypeOK /\ Only /\ Held /\ Mine /\ [Next]_vars => Mine'
<1> SUFFICES ASSUME TypeOK, Only, Held, Mine, [Next]_vars, NEW d \in Conns, alone'[d]
             PROVE  OwnFile(d)' /\ OwnDir(d)'
  BY DEF Mine
<1>1. ASSUME NEW c \in Conns, Upgrade_Server(c) PROVE OwnFile(d)' /\ OwnDir(d)'
  <2>1. /\ at[c] = "idle" /\ at' = [at EXCEPT ![c] = "receive"]
        /\ UNCHANGED <<kind, name, content, fp, copy, link, vol, dir, tar, ran, alone>>
    BY <1>1 DEF Upgrade_Server, Step, files, dirs
  <2>2. CASE d = c
    <3>1. at'[d] = "receive"
      BY <2>1, <2>2 DEF TypeOK
    <3> QED BY <3>1 DEF OwnFile, OwnDir, Filled, Early, Holding
  <2>3. CASE d # c
    <3>1. at'[d] = at[d] /\ OwnFile(d) /\ OwnDir(d)
      BY <2>1, <2>3 DEF TypeOK, Mine
    <3>2. OwnFile(d)'
      BY <2>1, <3>1 DEF OwnFile, Upload
    <3>3. OwnDir(d)'
      BY <2>1, <3>1 DEF OwnDir
    <3> QED BY <3>2, <3>3
  <2> QED BY <2>2, <2>3
<1>2. ASSUME NEW c \in Conns, Upgrade_Recvfile(c) PROVE OwnFile(d)' /\ OwnDir(d)'
  <2>1. /\ at[c] = "receive" /\ at' = [at EXCEPT ![c] = "open"]
        /\ alone' = [e \in Conns |-> IF e = c THEN \A f \in Conns \ {c} : at[f] \notin Working
                                     ELSE alone[e] /\ at[e] \notin Working]
        /\ UNCHANGED <<kind, name, vol, ran>>
    BY <1>2 DEF Upgrade_Recvfile, Step, files, dirs
  <2>2. CASE d = c
    <3>1. \A e \in Conns : at[e] \notin Working
      BY <2>1, <2>2 DEF Working
    <3>2. name = None /\ vol = None
      BY <3>1 DEF Held, Holding, Working
    <3>3. at'[d] = "open" /\ name' = None /\ vol' = None
      BY <2>1, <2>2, <3>2 DEF TypeOK
    <3> QED BY <3>3 DEF OwnFile, OwnDir, Filled, Early, Holding
  <2>3. CASE d # c
    <3>1. at'[d] = at[d] /\ at[d] \notin Working /\ OwnDir(d)
      BY <2>1, <2>3 DEF TypeOK, Mine
    <3> QED BY <2>1, <3>1, Idle
  <2> QED BY <2>2, <2>3
<1>3. ASSUME NEW c \in Conns, Thread(c) PROVE OwnFile(d)' /\ OwnDir(d)'
  <2>1. alone[d] /\ UNCHANGED kind /\ OwnFile(d) /\ OwnDir(d)
    BY <1>3, Moves DEF Mine
  <2>2. CASE d = c
    BY <1>3, <2>1, <2>2, FileStep, DirStep
  <2>3. CASE d # c
    <3>1. at[c] \in Working /\ at'[d] = at[d]
      BY <1>3, <2>3, Moves
    <3>2. at[d] \notin Working
      BY <2>1, <2>3, <3>1 DEF Only
    <3>3. ran'[d] = ran[d]
      BY <1>3, <2>3, RanMoves DEF TypeOK
    <3> QED BY <2>1, <3>1, <3>2, <3>3, Idle
  <2> QED BY <2>2, <2>3
<1>4. CASE Reboot
  <2>1. at'[d] \in {"idle", "lost"}
    BY <1>4 DEF Reboot
  <2> QED BY <2>1 DEF OwnFile, OwnDir, Filled, Early, Holding
<1>5. CASE UNCHANGED vars
  <2>1. OwnFile(d) /\ OwnDir(d)
    BY <1>5 DEF Mine, vars
  <2>2. OwnFile(d)'
    BY <1>5, <2>1 DEF vars, files, OwnFile, Upload
  <2>3. OwnDir(d)'
    BY <1>5, <2>1 DEF vars, files, dirs, OwnDir
  <2> QED BY <2>2, <2>3
<1> QED BY <1>1, <1>2, <1>3, <1>4, <1>5 DEF Next

LEMMA RanStep == TypeOK /\ Mine /\ RanOK /\ [Next]_vars => RanOK'
<1> SUFFICES ASSUME TypeOK, Mine, RanOK, [Next]_vars, NEW d \in Conns
             PROVE  /\ at'[d] \in Before => ran'[d] = Bare
                    /\ alone'[d] /\ ran'[d] # Bare => kind'[d] = "good" /\ ran'[d] = [run |-> d, zz |-> d]
  BY DEF RanOK, RunsWhatItChecked
<1>0. /\ at[d] \in Before => ran[d] = Bare
      /\ alone[d] /\ ran[d] # Bare => kind[d] = "good" /\ ran[d] = [run |-> d, zz |-> d]
  BY DEF RanOK, RunsWhatItChecked
<1> DEFINE Goal == /\ at'[d] \in Before => ran'[d] = Bare
                   /\ alone'[d] /\ ran'[d] # Bare => kind'[d] = "good" /\ ran'[d] = [run |-> d, zz |-> d]
<1>1. ASSUME NEW c \in Conns, Upgrade_Server(c) PROVE Goal
  BY <1>0, <1>1 DEF Upgrade_Server, Step, TypeOK, Before
<1>2. ASSUME NEW c \in Conns, Upgrade_Recvfile(c) PROVE Goal
  BY <1>0, <1>2 DEF Upgrade_Recvfile, Step, TypeOK, Before
<1>3. ASSUME NEW c \in Conns, Thread(c) PROVE Goal
  <2>1. UNCHANGED <<kind, alone>> /\ (d # c => at'[d] = at[d])
    BY <1>3, Moves
  <2>2. CASE d # c
    <3>1. ran'[d] = ran[d]
      BY <1>3, <2>2, RanMoves DEF TypeOK
    <3> QED BY <1>0, <2>1, <2>2, <3>1
  <2>3. CASE d = c /\ Run(c)
    <3>1. at[c] = "run" /\ at'[c] = "rmLink" /\ ran[c] = Bare
      BY <1>0, <2>3 DEF Run, Step, TypeOK, Before
    <3>2. alone[c] => vol = c /\ kind[c] = "good" /\ dir[c] = [run |-> c, zz |-> c]
      BY <3>1 DEF Mine, OwnDir, Holding
    <3>3. ran' = ran \/ ran' = [ran EXCEPT ![c] = dir[vol]]
      BY <1>3, RanMoves
    <3>4. alone[c] => ran'[c] = ran[c] \/ ran'[c] = [run |-> c, zz |-> c]
      BY <3>2, <3>3 DEF TypeOK
    <3>5. at'[d] \notin Before
      BY <2>3, <3>1 DEF Before
    <3> QED BY <2>1, <2>3, <3>1, <3>2, <3>4, <3>5
  <2>4. CASE d = c /\ ~Run(c)
    <3>1. ran' = ran
      BY <1>3, <2>4, RanMoves
    <3>2. at'[c] \in Before => at[c] \in Before
      <4>1. CASE OpenRaw(c) \/ WriteRaw(c) \/ CloseRaw(c) \/ ClearFirst(c) \/ OpenToRead(c)
        BY <4>1 DEF OpenRaw, WriteRaw, CloseRaw, ClearFirst, RemoveLink, OpenToRead, Step, Before
      <4>2. CASE ReadHeader(c) \/ ReadData(c) \/ Reopen(c) \/ Fill(c) \/ Mkdir(c) \/ Link(c)
        BY <4>2 DEF ReadHeader, ReadData, Reopen, Fill, Mkdir, Link, Step, Before
      <4>3. CASE TarStart(c) \/ TarRun(c) \/ TarRest(c) \/ Access(c)
        BY <4>3 DEF TarStart, TarRun, TarRest, Access, Step, Before
      <4>4. CASE CleanLink(c) \/ CleanDir(c) \/ FClose(c) \/ Unlink(c)
        BY <4>4 DEF CleanLink, RemoveLink, CleanDir, FClose, Unlink, Step, TypeOK, Before
      <4> QED BY <1>3, <2>4, <4>1, <4>2, <4>3, <4>4 DEF Thread
    <3> QED BY <1>0, <2>1, <2>4, <3>1, <3>2
  <2> QED BY <2>2, <2>3, <2>4
<1>4. CASE Reboot
  BY <1>0, <1>4 DEF Reboot, Before
<1>5. CASE UNCHANGED vars
  BY <1>0, <1>5 DEF vars, dirs
<1> QED BY <1>1, <1>2, <1>3, <1>4, <1>5 DEF Next

-----------------------------------------------------------------------------
(* What holds of every behaviour.                                          *)

LEMMA InitInv == Init => Inv
<1> SUFFICES ASSUME Init PROVE Inv
  OBVIOUS
<1>1. \A c \in Conns : at[c] = "idle" /\ ran[c] = Bare
  BY DEF Init
<1>2. Mine
  BY <1>1, Nowhere DEF Mine
<1>3. Only /\ Held /\ RanOK
  BY <1>1 DEF Init, Only, Held, RanOK, RunsWhatItChecked, Working
<1> QED BY <1>2, <1>3, TypeInit DEF Inv

LEMMA InvStep == Inv /\ [Next]_vars => Inv'
BY TypeStep, OnlyStep, HeldStep, MineStep, RanStep DEF Inv

LEMMA Invariance == Spec => []Inv
BY InitInv, InvStep, PTL DEF Spec

\* Everything is of its type, and what a thread uses is open, read or there when it uses it: upgrade_CheckUpgrade,
\* however many uploads run through it at once.
THEOREM TypeCorrect == Spec => []TypeOK
<1>1. Inv => TypeOK
  BY DEF Inv
<1> QED BY <1>1, Invariance, PTL

\* An upload that no other crosses runs nothing but itself, whole, and only if it was good: the CRC of
\* upgrade_CheckUpgrade and its zz.zz stand between Upgrade_Recvfile and run.sh.
THEOREM OnlyCheckedIsRun == Spec => []RunsWhatItChecked
<1>1. Inv => RunsWhatItChecked
  BY DEF Inv, RanOK
<1> QED BY <1>1, Invariance, PTL

\* A good upload that no other crosses is run: nothing that an earlier one, or a restart in the middle of
\* one, has left behind keeps it from that.
THEOREM GoodUploadsRun == Spec => []GoodIsRun
<1>1. Inv => GoodIsRun
  <2> SUFFICES ASSUME Inv, NEW c \in Conns, alone[c], at[c] = "done", kind[c] = "good" PROVE ran[c].run = c
    BY DEF GoodIsRun
  <2>1. OwnDir(c)
    BY DEF Inv, Mine
  <2>2. ran[c] = [run |-> c, zz |-> c]
    BY <2>1 DEF OwnDir
  <2> QED BY <2>2
<1> QED BY <1>1, Invariance, PTL

\* The file and the directory are gone once no thread is at work on them, whatever became of the uploads.
THEOREM AllCleaned == Spec => []NothingLeft
<1>1. Inv => NothingLeft
  BY DEF Inv, Held, Holding, Working, NothingLeft
<1> QED BY <1>1, Invariance, PTL
=============================================================================
