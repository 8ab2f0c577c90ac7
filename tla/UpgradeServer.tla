---------------------------- MODULE UpgradeServer ----------------------------
(* Firmware over the network, Upgrade/upgrade.c: the server on port 6666     *)
(* gives every connection a thread of its own, and each thread writes what   *)
(* it received to the one UPGRADE_FILE_NAME, checks it, unpacks it into the  *)
(* one /var/upgrade and runs it.  No lock is taken anywhere.                 *)
(*                                                                           *)
(* A thread has its connection as its name: Upgrade_Server sleeps for two    *)
(* seconds before it accepts into connfd again, and a thread is taken to     *)
(* have read connfd by then.                                                 *)
CONSTANTS
    Conns,          \* connections, with their uploads
    None            \* no file, no directory, nobody

ASSUME UpgradeAssumption == None \notin Conns /\ None \notin Conns \X {"raw", "archive"}

(* What an upload is worth.  "good": header, length and CRC are right.       *)
(* "tail": so are they, but zz.zz is in the last bytes, which stay in the    *)
(* buffer of stdio.  "damaged": the header is right and the rest is not.     *)
(* "alien": the header is wrong or too short.  "nothing": no bytes at all.   *)
Kinds == {"good", "tail", "damaged", "alien", "nothing"}

Inodes == Conns \X {"raw", "archive"}
Bare == [run |-> None, zz |-> None]
Empty == [form |-> "empty", of |-> None]
Holds(form, c) == [form |-> form, of |-> c]

Working == {"open", "write", "close", "clear", "read", "header", "data", "refuse", "reopen", "fill", "mkdir",
            "link", "tar", "tarRun", "tarRest", "access", "run", "rmLink", "rmDir", "fclose", "unlink"}

VARIABLES
    at,         \* where each thread is
    kind,       \* what its upload is worth
    name,       \* the inode that UPGRADE_FILE_NAME is of, or None
    content,    \* what is in each inode
    fp,         \* the inode each thread has open
    copy,       \* whose header, and then data, a thread has read
    link,       \* /var/upgrade -> /var/volatile/upgrade
    vol,        \* /var/volatile/upgrade: the thread that made it, or None
    dir,        \* whose run.sh, and whose zz.zz and all before it, is in the directory a thread made
    tar,        \* the file that the tar of a thread reads and the directory it is in
    ran,        \* history: what each thread ran
    alone       \* history: no other thread was between "open" and "unlink" meanwhile

files == <<name, content, fp, copy>>
dirs == <<link, vol, dir, tar>>
vars == <<at, kind, files, dirs, ran, alone>>

Init ==
    /\ at = [c \in Conns |-> "idle"]
    /\ kind \in [Conns -> Kinds]
    /\ name = None
    /\ content = [i \in Inodes |-> Empty]
    /\ fp = [c \in Conns |-> None] /\ copy = [c \in Conns |-> None]
    /\ link \in BOOLEAN /\ vol = None
    /\ dir = [c \in Conns |-> Bare]
    /\ tar = [c \in Conns |-> [file |-> None, dir |-> None]]
    /\ ran = [c \in Conns |-> Bare]
    /\ alone = [c \in Conns |-> TRUE]

Step(c, from, to) == at[c] = from /\ at' = [at EXCEPT ![c] = to]

-----------------------------------------------------------------------------
(* The connection.                                                         *)

Upgrade_Server(c) ==
    /\ Step(c, "idle", "receive")
    /\ UNCHANGED <<kind, files, dirs, ran, alone>>

\* The client closes: whatever came is the upload.
Upgrade_Recvfile(c) ==
    /\ Step(c, "receive", "open")
    /\ alone' = [d \in Conns |-> IF d = c THEN \A e \in Conns \ {c} : at[e] \notin Working
                                 ELSE alone[d] /\ at[d] \notin Working]
    /\ UNCHANGED <<kind, files, dirs, ran>>

\* fopen(file_name, "w+") on UPGRADE_FILE_NAME, with i the inode if there is none.
Truncate(c, i) ==
    LET inode == IF name = None THEN i ELSE name
    IN  /\ name' = inode
        /\ content' = [content EXCEPT ![inode] = Empty]
        /\ fp' = [fp EXCEPT ![c] = inode]

\* Upgrade_WriteRawDataToFile: the last bytes go out at fclose.
OpenRaw(c) ==
    /\ Step(c, "open", "write")
    /\ Truncate(c, <<c, "raw">>)
    /\ UNCHANGED <<kind, copy, dirs, ran, alone>>

WriteRaw(c) ==
    /\ Step(c, "write", "close")
    /\ content' = IF kind[c] = "nothing" THEN content ELSE [content EXCEPT ![fp[c]] = Holds("raw", c)]
    /\ UNCHANGED <<kind, name, fp, copy, dirs, ran, alone>>

\* What is left in the buffer of c goes out, perhaps over what another thread has put there meanwhile.
Flushed(c, mine) ==
    LET now == content[fp[c]]
    IN  IF now = mine THEN {mine}
        ELSE {now, Holds("mixed", IF now.form = "archive" THEN None ELSE now.of)}

CloseRaw(c) ==
    /\ Step(c, "close", "clear")
    /\ \E after \in IF kind[c] = "nothing" THEN {content[fp[c]]} ELSE Flushed(c, Holds("raw", c)) :
          content' = [content EXCEPT ![fp[c]] = after]
    /\ UNCHANGED <<kind, name, fp, copy, dirs, ran, alone>>

-----------------------------------------------------------------------------
(* upgrade_CheckUpgrade.                                                   *)

RemoveLink(c, from, to) ==
    /\ Step(c, from, to)
    /\ link' = FALSE
    /\ UNCHANGED <<kind, files, vol, dir, tar, ran, alone>>

ClearFirst(c) == RemoveLink(c, "clear", "read")

\* Mutant of OpenToRead: fopen is not asked whether it worked.
OpenUnasked(c) ==
    /\ Step(c, "read", "header")
    /\ fp' = [fp EXCEPT ![c] = name]
    /\ UNCHANGED <<kind, name, content, copy, dirs, ran, alone>>

OpenToRead(c) ==
    /\ Step(c, "read", IF name = None THEN "unlink" ELSE "header")
    /\ fp' = [fp EXCEPT ![c] = name]
    /\ UNCHANGED <<kind, name, content, copy, dirs, ran, alone>>

\* SyncFlag, BoardType and MachineType; an archive or nothing at all has none of them.
ReadHeader(c) ==
    LET now == content[fp[c]]
        fits == now.form \in {"raw", "mixed"} /\ now.of # None /\ kind[now.of] # "alien"
    IN  /\ Step(c, "header", IF fits THEN "data" ELSE "unlink")
        /\ copy' = [copy EXCEPT ![c] = IF fits THEN now.of ELSE None]
        /\ UNCHANGED <<kind, name, content, fp, dirs, ran, alone>>

\* Mutant of ReadData: the CRC is not compared.
ReadDataOnly(c) ==
    /\ Step(c, "data", "reopen")
    /\ UNCHANGED <<kind, files, dirs, ran, alone>>

\* DataLength bytes are read and their CRC is compared with the header's: too few end it at once.
ReadData(c) ==
    LET fits == content[fp[c]] = Holds("raw", copy[c]) /\ kind[copy[c]] \in {"good", "tail"}
    IN  /\ at[c] = "data"
        /\ \E to \in IF fits THEN {"reopen"} ELSE {"refuse", "unlink"} : Step(c, "data", to)
        /\ UNCHANGED <<kind, files, dirs, ran, alone>>

\* The file is emptied whether the CRC was right or not.
Reopen(c) ==
    /\ Step(c, "reopen", "fill") \/ Step(c, "refuse", "unlink")
    /\ Truncate(c, <<c, "archive">>)
    /\ UNCHANGED <<kind, copy, dirs, ran, alone>>

\* The data without its header; what does not fill the last block is not in the file before fclose.
Fill(c) ==
    /\ Step(c, "fill", "mkdir")
    /\ content' = [content EXCEPT ![fp[c]] = Holds("archive", copy[c])]
    /\ UNCHANGED <<kind, name, fp, copy, dirs, ran, alone>>

Mkdir(c) ==
    /\ Step(c, "mkdir", "link")
    /\ IF vol = None THEN vol' = c /\ dir' = [dir EXCEPT ![c] = Bare]
       ELSE UNCHANGED <<vol, dir>>
    /\ UNCHANGED <<kind, files, link, tar, ran, alone>>

\* Mutant of Link: ln is left out, as if ClearFirst did not remove the link.
LinkThere(c) ==
    /\ Step(c, "link", "tar")
    /\ UNCHANGED <<kind, files, dirs, ran, alone>>

Link(c) ==
    /\ Step(c, "link", "tar")
    /\ link' = TRUE
    /\ UNCHANGED <<kind, files, vol, dir, tar, ran, alone>>

-----------------------------------------------------------------------------
(* tar, the check of zz.zz, run.sh and the cleaning up.                     *)

TarStart(c) ==
    /\ Step(c, "tar", IF name # None /\ link /\ vol # None THEN "tarRun" ELSE "access")
    /\ tar' = [tar EXCEPT ![c] = [file |-> name, dir |-> vol]]
    /\ UNCHANGED <<kind, files, link, vol, dir, ran, alone>>

\* Members of the archive appear in the directory as long as it is there.
Unpack(c, there) ==
    dir' = IF vol = tar[c].dir THEN [dir EXCEPT ![vol] = there] ELSE dir

TarRun(c) ==
    LET now == content[tar[c].file]
    IN  /\ Step(c, "tarRun", IF now.form = "archive" THEN "tarRest" ELSE "access")
        /\ IF now.form = "archive" THEN Unpack(c, [dir[tar[c].dir] EXCEPT !.run = now.of]) ELSE dir' = dir
        /\ UNCHANGED <<kind, files, link, vol, tar, ran, alone>>

\* All the other files, of which zz.zz is the last: of whatever the file holds by now.
TarRest(c) ==
    LET now == content[tar[c].file]
    IN  /\ Step(c, "tarRest", "access")
        /\ IF now.form = "archive" /\ kind[now.of] # "tail"
           THEN Unpack(c, [dir[tar[c].dir] EXCEPT !.zz = now.of]) ELSE dir' = dir
        /\ UNCHANGED <<kind, files, link, vol, tar, ran, alone>>

\* Mutant of Access: without zz.zz the function returns at once.
AccessReturns(c) ==
    /\ Step(c, "access", IF link /\ vol # None /\ dir[vol].zz # None THEN "run" ELSE "fclose")
    /\ UNCHANGED <<kind, files, dirs, ran, alone>>

Access(c) ==
    /\ Step(c, "access", IF link /\ vol # None /\ dir[vol].zz # None THEN "run" ELSE "rmLink")
    /\ UNCHANGED <<kind, files, dirs, ran, alone>>

Run(c) ==
    /\ Step(c, "run", "rmLink")
    /\ ran' = IF link /\ vol # None THEN [ran EXCEPT ![c] = dir[vol]] ELSE ran
    /\ UNCHANGED <<kind, files, dirs, alone>>

CleanLink(c) == RemoveLink(c, "rmLink", "rmDir")

\* Mutant of CleanDir: only the link is removed.
CleanNothing(c) ==
    /\ Step(c, "rmDir", "fclose")
    /\ UNCHANGED <<kind, files, dirs, ran, alone>>

CleanDir(c) ==
    /\ Step(c, "rmDir", "fclose")
    /\ vol' = None
    /\ UNCHANGED <<kind, files, link, dir, tar, ran, alone>>

FClose(c) ==
    /\ Step(c, "fclose", "unlink")
    /\ \E after \in Flushed(c, Holds("archive", copy[c])) : content' = [content EXCEPT ![fp[c]] = after]
    /\ UNCHANGED <<kind, name, fp, copy, dirs, ran, alone>>

Unlink(c) ==
    /\ Step(c, "unlink", "done")
    /\ name' = None
    /\ UNCHANGED <<kind, content, fp, copy, dirs, ran, alone>>

\* /var/volatile is in memory; the link may be on either side of it.
Reboot ==
    /\ at' = [c \in Conns |-> IF at[c] = "idle" THEN "idle" ELSE "lost"]
    /\ name' = None /\ vol' = None
    /\ \/ UNCHANGED link \/ link' = FALSE
    /\ UNCHANGED <<kind, content, fp, copy, dir, tar, ran, alone>>

Thread(c) ==
    \/ OpenRaw(c) \/ WriteRaw(c) \/ CloseRaw(c)
    \/ ClearFirst(c) \/ OpenToRead(c) \/ ReadHeader(c) \/ ReadData(c) \/ Reopen(c) \/ Fill(c)
    \/ Mkdir(c) \/ Link(c) \/ TarStart(c) \/ TarRun(c) \/ TarRest(c)
    \/ Access(c) \/ Run(c) \/ CleanLink(c) \/ CleanDir(c) \/ FClose(c) \/ Unlink(c)

Next ==
    \/ \E c \in Conns : Upgrade_Server(c) \/ Upgrade_Recvfile(c) \/ Thread(c)
    \/ Reboot

Spec == Init /\ [][Next]_vars

-----------------------------------------------------------------------------
\* Everything is of its type, and a file, an image or a directory is there where it is used.
Filled == {"fill", "mkdir", "link", "tar", "tarRun", "tarRest", "access", "run", "rmLink", "rmDir", "fclose"}
TypeOK ==
    /\ at \in [Conns -> {"idle", "receive", "done", "lost"} \cup Working]
    /\ kind \in [Conns -> Kinds]
    /\ name \in Inodes \cup {None}
    /\ content \in [Inodes -> [form : {"empty", "raw", "archive", "mixed"}, of : Conns \cup {None}]]
    /\ fp \in [Conns -> Inodes \cup {None}]
    /\ copy \in [Conns -> Conns \cup {None}]
    /\ link \in BOOLEAN /\ vol \in Conns \cup {None}
    /\ dir \in [Conns -> [run : Conns \cup {None}, zz : Conns \cup {None}]]
    /\ tar \in [Conns -> [file : Inodes \cup {None}, dir : Conns \cup {None}]]
    /\ ran \in [Conns -> [run : Conns \cup {None}, zz : Conns \cup {None}]]
    /\ alone \in [Conns -> BOOLEAN]
    /\ \A c \in Conns :
          /\ at[c] \in {"write", "close", "header", "data"} \cup Filled => fp[c] \in Inodes
          /\ at[c] \in {"data", "reopen"} \cup Filled => copy[c] \in Conns
          /\ at[c] \in {"tarRun", "tarRest"} => tar[c].file \in Inodes /\ tar[c].dir \in Conns

\* An upload that no other crosses is run whole, and is the one whose CRC was checked; one that is not
\* good, or that tar could not unpack to the end, is not run, whatever was run before it.
RunsWhatItChecked ==
    \A c \in Conns : alone[c] /\ ran[c] # Bare => kind[c] = "good" /\ ran[c] = [run |-> c, zz |-> c]

\* A good upload that no other crosses is run.
GoodIsRun == \A c \in Conns : alone[c] /\ at[c] = "done" /\ kind[c] = "good" => ran[c].run = c

\* However uploads cross, the file and the directory are gone once no thread is at work on them: every way
\* out of the check, the failing ones too, passes where they are removed.
NothingLeft ==
    (\A c \in Conns : at[c] \notin Working) => name = None /\ vol = None
=============================================================================
