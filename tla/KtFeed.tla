------------------------------- MODULE KtFeed -------------------------------
(***************************************************************************)
(* The directory of one feed in the Android app, from the start of the app *)
(* on: upgrade_repo (Repo.kt), which converts the files of version 0.1.5,  *)
(* then the class Replica (Replica.kt).                                    *)
(*                                                                         *)
(* The old files are log (the entries), mid (the message IDs) and one file *)
(* for each side chain, "-seq" for a complete one and "!seq" for an open   *)
(* one.  The new ones are log.bin (the entries with their chains in        *)
(* place), mid.bin and frontier.bin.  The process may die between any two  *)
(* writes, but for those that create the files of a new feed (see Crash);  *)
(* upgrade_repo is called again at every start.                            *)
(***************************************************************************)
EXTENDS Integers, Sequences, FiniteSets

CONSTANTS
  Chain,      \* Chain[s]: the length of the side chain of entry s
  Old,        \* what an old directory may hold: for each entry, how many
              \* chunks there are in the file of its chain, or NoFile
  MaxCrashes  \* bound: how often the process dies

Seqs == DOMAIN Chain

(* An old directory holds its entries and all of their message IDs.  The   *)
(* file of a chain may be empty, or not be there: upgrade_repo tests for   *)
(* it.  An entry without a chain needs none, and has 0.                    *)
NoFile == -1
ASSUME KtFeedAssumption ==
  /\ Chain \in Seq(Nat)
  /\ \A old \in Old :
       /\ old \in Seq(Nat \union {NoFile})
       /\ Len(old) <= Len(Chain)
       /\ \A s \in DOMAIN old :
            old[s] <= Chain[s] /\ (old[s] = NoFile => Chain[s] > 0)
  /\ MaxCrashes \in Nat

VARIABLES
  author,   \* whether the feed is that of the user of the app
  files,    \* the files that are there
  old,      \* the content of log and of the chain files
  tmp,      \* the content of log.bin.tmp
  log,      \* the content of log.bin: the chunks in place, for each entry
  mid,      \* the content of mid, or of mid.bin
  fnt,      \* the content of frontier.bin
  mem,      \* the variable state of Replica
  pc,       \* what the process does next
  crashes   \* bound: how often the process has died

disk == <<author, files, old, tmp, log, mid, fnt>>
vars == <<disk, mem, pc, crashes>>

-----------------------------------------------------------------------------
(***************************************************************************)
(* A frontier: the last entry, and for every open chain the number of      *)
(* chunks it has (cnr), the number it lacks (rem) and the one that has the *)
(* awaited hash (hptr).                                                    *)
(***************************************************************************)
NoPend == [s \in {} |-> 0]
NewFrontier == [seq |-> 0, pend |-> NoPend]
Empty == [seq |-> -1, pend |-> NoPend]      \* an empty file cannot be read

Pending(cnr, rem, hptr) == [cnr |-> cnr, rem |-> rem, hptr |-> hptr]
With(pend, s, p) ==
  [t \in DOMAIN pend \union {s} |-> IF t = s THEN p ELSE pend[t]]
Without(pend, s) == [t \in DOMAIN pend \ {s} |-> pend[t]]

OpenChain(pend, s) ==
  IF Chain[s] = 0 THEN pend ELSE With(pend, s, Pending(0, Chain[s], 0))

(* A change of the files in one step *)
Files(gone, made) == files' = (files \ gone) \union made

-----------------------------------------------------------------------------
(***************************************************************************)
(* upgrade_repo.                                                           *)
(***************************************************************************)
UpToDate ==
  /\ pc = "upgrade"
  /\ {"log.bin", "mid.bin"} \subseteq files \/ files = {}
  /\ pc' = "create"
  /\ UNCHANGED <<disk, mem, crashes>>

(* A defect: every directory without a mid.bin is taken for an old one. *)
FinishNever ==
  /\ pc = "upgrade"
  /\ "log.bin" \in files /\ "mid.bin" \notin files
  /\ pc' = "failed"
  /\ UNCHANGED <<disk, mem, crashes>>

(* The process died when log.bin was in place. *)
Finish ==
  /\ pc = "upgrade"
  /\ "log.bin" \in files /\ "mid.bin" \notin files
  /\ IF "mid" \in files
       THEN Files({"mid"}, {"mid.bin"}) /\ pc' = "clean"
       ELSE UNCHANGED files /\ pc' = "failed"
  /\ UNCHANGED <<author, old, tmp, log, mid, fnt, mem, crashes>>

OpenOldAndAppend ==   \* a defect: what the last attempt left stays in the file
  /\ pc = "upgrade"
  /\ files # {} /\ "log.bin" \notin files
  /\ Files({}, {"log.bin.tmp"}) /\ pc' = "convert"
  /\ mem' = NewFrontier
  /\ UNCHANGED <<author, old, tmp, log, mid, fnt, crashes>>

OpenOld ==
  /\ pc = "upgrade"
  /\ files # {} /\ "log.bin" \notin files
  /\ IF "log" \in files
       THEN Files({}, {"log.bin.tmp"}) /\ tmp' = <<>> /\ pc' = "convert"
       ELSE UNCHANGED <<author, files, tmp>> /\ pc' = "failed"
  /\ mem' = NewFrontier
  /\ UNCHANGED <<author, old, log, mid, fnt, crashes>>

(* The next entry, with its chain; the number of chunks in an open chain   *)
(* is taken from the length of its file, and the hash it waits for from    *)
(* its last chunk.                                                         *)
PktLen == 120
Convert ==
  LET s == mem.seq + 1
      cnr == (old[s] * PktLen) % PktLen
  IN /\ pc = "convert"
     /\ s <= Len(old)
     /\ old[s] = Chain[s] \/ old[s] > 0
     /\ tmp' = Append(tmp, old[s])
     /\ mem' = [seq |-> s,
                pend |-> IF old[s] = Chain[s] THEN mem.pend
                         ELSE With(mem.pend, s,
                                   Pending(cnr, Chain[s] - cnr, old[s]))]
     /\ UNCHANGED <<author, files, old, log, mid, fnt, pc, crashes>>

(* An entry whose chain has no file: the directory is left as it is, with  *)
(* log.bin.tmp in it, and the class Replica takes it over.                 *)
Abandon ==
  /\ pc = "convert" /\ mem.seq < Len(old)
  /\ old[mem.seq + 1] = NoFile
  /\ pc' = "create"
  /\ UNCHANGED <<disk, mem, crashes>>

(* The empty file of an open chain has no last chunk: the start fails.     *)
ConvertFails ==
  /\ pc = "convert" /\ mem.seq < Len(old)
  /\ old[mem.seq + 1] = 0 /\ Chain[mem.seq + 1] > 0
  /\ pc' = "failed"
  /\ UNCHANGED <<disk, mem, crashes>>

Converted ==
  /\ pc = "convert" /\ mem.seq = Len(old)
  /\ Files({}, {"frontier.bin"}) /\ fnt' = Empty
  /\ pc' = "frontier"
  /\ UNCHANGED <<author, old, tmp, log, mid, mem, crashes>>

WriteFrontier ==
  /\ pc = "frontier"
  /\ fnt' = mem
  /\ pc' = "movelog"
  /\ UNCHANGED <<author, files, old, tmp, log, mid, mem, crashes>>

MoveLog ==
  /\ pc = "movelog"
  /\ Files({"log.bin.tmp"}, {"log.bin"}) /\ log' = tmp
  /\ pc' = "deletelog"
  /\ UNCHANGED <<author, old, tmp, mid, fnt, mem, crashes>>

DeleteLog ==
  /\ pc = "deletelog"
  /\ Files({"log"}, {})
  /\ pc' = "movemid"
  /\ UNCHANGED <<author, old, tmp, log, mid, fnt, mem, crashes>>

MoveMid ==
  /\ pc = "movemid"
  /\ Files({"mid"}, {"mid.bin"})
  /\ pc' = "clean"
  /\ UNCHANGED <<author, old, tmp, log, mid, fnt, mem, crashes>>

(* The chain files are deleted.  Nothing looks at them any more. *)
Clean ==
  /\ pc = "clean"
  /\ Files({"chains"}, {})
  /\ pc' = "create"
  /\ UNCHANGED <<author, old, tmp, log, mid, fnt, mem, crashes>>

Upgrade ==
  \/ UpToDate \/ Finish \/ OpenOld
  \/ Convert \/ Abandon \/ ConvertFails \/ Converted
  \/ WriteFrontier \/ MoveLog \/ DeleteLog \/ MoveMid \/ Clean

-----------------------------------------------------------------------------
(***************************************************************************)
(* Replica.  The constructor creates what is not there, loads the frontier *)
(* and catches up with the log, without a look at mid.bin.  In a directory *)
(* that has not been converted the new files hide the old ones.            *)
(***************************************************************************)
Create ==
  LET todo == {"dir", "log.bin", "mid.bin", "frontier.bin"} \ files
      first == IF "dir" \in todo THEN "dir"
               ELSE IF "log.bin" \in todo THEN "log.bin"
               ELSE IF "mid.bin" \in todo THEN "mid.bin" ELSE "frontier.bin"
  IN /\ pc = "create" /\ todo # {}
     /\ Files({}, {first})
     /\ IF first = "frontier.bin"
          THEN fnt' = Empty /\ mem' = NewFrontier /\ pc' = "newfrontier"
          ELSE UNCHANGED <<fnt, mem, pc>>
     /\ mid' = IF first = "mid.bin" THEN <<>> ELSE mid
     /\ UNCHANGED <<author, old, tmp, log, crashes>>

Load ==
  /\ pc = "create" /\ {"dir", "log.bin", "mid.bin", "frontier.bin"} \subseteq files
  /\ IF fnt = Empty THEN pc' = "failed" /\ UNCHANGED mem
                    ELSE pc' = "load" /\ mem' = fnt
  /\ UNCHANGED <<disk, crashes>>

(* Defects of the catch-up: the chain is not opened; the message ID is     *)
(* appended whether or not it is there.                                    *)
CatchUpNoChain ==
  LET s == mem.seq + 1 IN
  /\ pc = "load" /\ s <= Len(log)
  /\ log' = [log EXCEPT ![s] = 0]
  /\ mem' = [seq |-> s, pend |-> mem.pend]
  /\ pc' = "caughtup"
  /\ UNCHANGED <<author, files, old, tmp, mid, fnt, crashes>>

CatchUpWithMid ==
  LET s == mem.seq + 1 IN
  /\ pc = "load" /\ s <= Len(log)
  /\ log' = [log EXCEPT ![s] = 0]
  /\ mem' = [seq |-> s, pend |-> OpenChain(mem.pend, s)]
  /\ mid' = Append(mid, s)
  /\ pc' = "caughtup"
  /\ UNCHANGED <<author, files, old, tmp, fnt, crashes>>

CatchUp ==
  LET s == mem.seq + 1 IN
  /\ pc = "load" /\ s <= Len(log)
  /\ log' = [log EXCEPT ![s] = 0]           \* room for its chain
  /\ mem' = [seq |-> s, pend |-> OpenChain(mem.pend, s)]
  /\ pc' = "caughtup"
  /\ UNCHANGED <<author, files, old, tmp, mid, fnt, crashes>>

Loaded ==
  /\ pc = "load" /\ mem.seq >= Len(log)
  /\ pc' = "idle"
  /\ UNCHANGED <<disk, mem, crashes>>

(* persist_frontier, at the end of every method *)
After == [newfrontier |-> "create", caughtup |-> "load", persist |-> "idle"]
Persist ==
  /\ pc \in DOMAIN After
  /\ fnt' = mem
  /\ pc' = After[pc]
  /\ UNCHANGED <<author, files, old, tmp, log, mid, mem, crashes>>

(* ingest_entry_pkt, and write, which stores the whole chain: the log is   *)
(* extended, then mid, then the frontier.                                  *)
AddEntry(n, pend) ==
  LET s == mem.seq + 1 IN
  /\ pc = "idle" /\ s \in Seqs
  /\ log' = Append(log, n)
  /\ mem' = [seq |-> s, pend |-> pend]
  /\ pc' = "mid"
  /\ UNCHANGED <<author, files, old, tmp, mid, fnt, crashes>>
IngestEntry == ~author /\ AddEntry(0, OpenChain(mem.pend, mem.seq + 1))
Write == author /\ AddEntry(Chain[mem.seq + 1], mem.pend)

AppendMid ==
  /\ pc = "mid"
  /\ mid' = Append(mid, mem.seq)
  /\ pc' = "persist"
  /\ UNCHANGED <<author, files, old, tmp, log, fnt, mem, crashes>>

(* ingest_chunk_pkt: chunk c of the chain of s *)
IngestChunk(s, c) ==
  /\ pc = "idle" /\ ~author
  /\ s \in DOMAIN mem.pend /\ mem.pend[s].hptr = c
  /\ log' = [log EXCEPT ![s] = c + 1]
  /\ LET p == mem.pend[s] IN
     mem' = [mem EXCEPT
               !.pend = IF p.rem <= 1 THEN Without(@, s)
                        ELSE With(@, s, Pending(p.cnr + 1, p.rem - 1, c + 1))]
  /\ pc' = "persist"
  /\ UNCHANGED <<author, files, old, tmp, mid, fnt, crashes>>

-----------------------------------------------------------------------------
OldFiles == {"dir", "log", "mid", "chains"}

(* An old directory, or none yet.  An author has its own chains. *)
Init ==
  /\ author \in BOOLEAN
  /\ \/ files = OldFiles /\ old \in Old
     \/ files = {} /\ old = <<>>
  /\ author => \A s \in DOMAIN old : old[s] = Chain[s]
  /\ tmp = <<>> /\ log = <<>>
  /\ mid = [s \in DOMAIN old |-> s]
  /\ fnt = Empty /\ mem = NewFrontier
  /\ pc = "upgrade"
  /\ crashes = 0

(* The process dies, but not in two places after which it fails at every   *)
(* later start: in a new feed's directory that has no mid.bin yet, which   *)
(* upgrade_repo takes for an old one, and before the first frontier is in  *)
(* frontier.bin.                                                           *)
Crash ==
  /\ crashes < MaxCrashes
  /\ pc \notin {"failed", "newfrontier"}
  /\ pc = "create" => \/ files = {} \/ "log" \in files
                      \/ {"log.bin", "mid.bin"} \subseteq files
  /\ crashes' = crashes + 1
  /\ pc' = "upgrade" /\ mem' = NewFrontier
  /\ UNCHANGED disk

Replica ==
  \/ Create \/ Load \/ CatchUp \/ Loaded \/ Persist
  \/ IngestEntry \/ AppendMid
  \/ \E s \in Seqs : \E c \in 0..Chain[s]-1 : IngestChunk(s, c)

Next == Upgrade \/ Replica \/ Write \/ Crash
Spec == Init /\ [][Next]_vars

(* The process runs, and what is missing keeps arriving. *)
FairSpec == Spec /\ WF_vars(Upgrade \/ Replica)

-----------------------------------------------------------------------------
(* The entries and the complete side chains that can be read: by the old   *)
(* version, or by the new one once log.bin is there.                       *)
Entries ==
  IF "log.bin" \in files THEN 1..fnt.seq
  ELSE IF "log" \in files THEN DOMAIN old ELSE {}
Complete ==
  IF "log.bin" \in files
    THEN {s \in 1..fnt.seq : s \notin DOMAIN fnt.pend /\ log[s] = Chain[s]}
  ELSE IF "log" \in files THEN {s \in DOMAIN old : old[s] = Chain[s]} ELSE {}

(* No chain of the old directory lacks its file, and no file is empty.     *)
AllFiled == \A s \in DOMAIN old : old[s] # NoFile
NoneEmpty == \A s \in DOMAIN old : old[s] = 0 => Chain[s] = 0

(* The step that creates log.bin, empty, in a directory whose conversion   *)
(* was abandoned: it hides all the old entries (Repo.kt:338,               *)
(* Replica.kt:91).                                                         *)
HidesOld == ~AllFiled /\ "log.bin" \notin files /\ "log.bin" \in files'

(* What could be read can be read ever after: but for that one step, the   *)
(* migration, the catch-up and the replication lose neither an entry nor a *)
(* complete side chain, wherever the process dies ("crash resistant",      *)
(* Repo.kt:282).                                                           *)
Kept ==
  [][~HidesOld => Entries \subseteq Entries' /\ Complete \subseteq Complete']_vars

(* A chain that is not open has all its chunks in the log: the app never   *)
(* shows a message with zeros in it.                                       *)
ClosedIsStored ==
  pc = "idle" =>
    \A s \in 1..mem.seq : s \in DOMAIN mem.pend \/ log[s] = Chain[s]

(* get_mid finds the ID of an entry by its place in mid.bin.  No ID is     *)
(* stored twice, so an entry never gets the ID of an earlier one; it does  *)
(* get that of a later one, or none, when the process died between log.bin *)
(* and mid.bin, for the catch-up leaves mid.bin alone: at most one ID is   *)
(* missing for each time the process died.  In a directory that was not    *)
(* converted mid.bin may be the old mid, beside an empty log: a process    *)
(* that dies when it has created log.bin and not yet mid.bin takes it, at  *)
(* the next start, for a directory whose conversion was cut off (Finish).  *)
MidsInOrder ==
  pc = "idle" /\ AllFiled =>
    /\ \A i \in DOMAIN mid : mid[i] \in i..mem.seq
    /\ \A i, j \in DOMAIN mid : i < j => mid[i] < mid[j]
    /\ mem.seq - Len(mid) \in 0..crashes

(* The app gets through every start, and goes on to receive the feed:      *)
(* every entry, and every chain that was not open in the old files; the    *)
(* whole feed anew when the conversion was abandoned.  An empty chain file *)
(* makes every start fail (Repo.kt:336).                                   *)
OpenInOld == {s \in DOMAIN old : AllFiled /\ old[s] < Chain[s]}
Completes ==
  NoneEmpty =>
    <>[](pc = "idle" /\ (author \/ /\ mem.seq = Len(Chain)
                                   /\ DOMAIN mem.pend \subseteq OpenInOld))

(* What upgrade_repo makes of an open chain is a chain with the chunks     *)
(* that its file has: the new version asks for the chunk it waits for.     *)
ChainsConverted ==
  \A s \in DOMAIN fnt.pend :
    /\ fnt.pend[s].cnr = fnt.pend[s].hptr
    /\ fnt.pend[s].rem = Chain[s] - fnt.pend[s].cnr
=============================================================================
