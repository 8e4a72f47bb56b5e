---------------------------- MODULE KtFeedProofs ----------------------------
(***************************************************************************)
(* Proofs about KtFeed, for feeds of any length with side chains of any    *)
(* length, any old directory and any number of crashes: the migration and  *)
(* the catch-up lose nothing, a closed chain is in the log, and mid.bin    *)
(* holds every ID once and in order.                                       *)
(***************************************************************************)
EXTENDS KtFeed, TLAPS

(* A frontier f is sound for a log l: a chain that is not open is in it,   *)
(* and one that is open lacks at most what the frontier asks for.          *)
IsFrontier(f) == f = [seq |-> f.seq, pend |-> f.pend]
Sound(f, l) ==
  /\ f.seq <= Len(l)
  /\ \A s \in 1..f.seq : s \notin DOMAIN f.pend => l[s] = Chain[s]
  /\ \A s \in DOMAIN f.pend :
       /\ s \in 1..f.seq
       /\ f.pend[s].hptr \in Nat /\ f.pend[s].hptr <= l[s]
       /\ f.pend[s].rem \in Int /\ f.pend[s].rem >= Chain[s] - f.pend[s].hptr

(* The frontier g comes after f: no chain is opened again.                 *)
Later(f, g) ==
  /\ f.seq <= g.seq
  /\ \A s \in 1..f.seq : s \in DOMAIN g.pend => s \in DOMAIN f.pend

Converting == pc \in {"convert", "frontier", "movelog"}
Unsaved == pc \in {"caughtup", "mid", "persist"}

TypeInv ==
  /\ old \in Old \union {<<>>}
  /\ tmp \in Seq(Nat) /\ log \in Seq(Nat) /\ mid \in Seq(Nat)
  /\ Len(log) <= Len(Chain)
  /\ IsFrontier(fnt) /\ (fnt = Empty \/ fnt.seq \in Nat)
  /\ IsFrontier(mem) /\ mem.seq \in Nat
  /\ crashes \in Nat

(* Which files are there at which point.                                   *)
FilesInv ==
  /\ Converting => "log.bin" \notin files /\ "log" \in files
  /\ ~Converting /\ pc \notin {"upgrade", "create", "failed"} =>
       "log.bin" \in files
  /\ pc = "create" /\ "log.bin" \notin files => "log" \notin files \/ ~AllFiled
  /\ pc \in {"clean", "newfrontier"} => "mid.bin" \in files
  /\ pc = "create" /\ "mid.bin" \notin files => mid = <<>> \/ ~AllFiled
  /\ "log.bin" \notin files => log = <<>>
  /\ "log.bin" \notin files => "frontier.bin" \notin files \/ AllFiled
  /\ files \intersect {"log", "log.bin"} = {} => old = <<>> /\ fnt = Empty
  /\ "frontier.bin" \notin files =>
       fnt = Empty /\ ~Unsaved /\ pc \notin {"frontier", "newfrontier", "load", "idle"}

(* What has been converted.                                                *)
ConvertInv ==
  Converting =>
    /\ mem.seq = Len(tmp) /\ Len(tmp) <= Len(old)
    /\ \A s \in DOMAIN tmp : tmp[s] = old[s]
    /\ \A s \in DOMAIN mem.pend : old[s] # Chain[s]
    /\ Sound(mem, tmp)
    /\ pc # "convert" => Len(tmp) = Len(old)
    /\ pc = "movelog" => fnt = mem

(* What is on disk fits together; the frontier is one entry behind at most. *)
DiskInv ==
  "log.bin" \in files => Sound(fnt, log) /\ Len(log) <= fnt.seq + 1

(* What is in memory is on disk, or is about to be.                        *)
MemInv ==
  /\ pc \in {"load", "idle"} => mem = fnt
  /\ pc = "newfrontier" => mem = NewFrontier /\ fnt = Empty
  /\ Unsaved => Sound(mem, log) /\ Later(fnt, mem)
  /\ pc = "idle" \/ Unsaved => mem.seq = Len(log)

(* The entries that should have an ID in mid.bin.                          *)
Known == (IF "log.bin" \in files THEN Len(log) ELSE Len(old))
           - (IF pc = "mid" THEN 1 ELSE 0)
MidInv ==
  AllFiled =>
    /\ \A i \in 1..Len(mid) : mid[i] \in i..Known
    /\ \A i, j \in 1..Len(mid) : i < j => mid[i] < mid[j]
    /\ Known - Len(mid) \in 0..crashes

IInv ==
  /\ TypeInv /\ FilesInv /\ ConvertInv /\ DiskInv /\ MemInv /\ MidInv

-----------------------------------------------------------------------------
(* An old directory has entries of the feed, with chains no longer than    *)
(* they should be.                                                         *)
LEMMA OldIs ==
  ASSUME TypeInv
  PROVE  /\ old \in Seq(Nat \union {NoFile}) /\ Len(old) <= Len(Chain)
         /\ \A s \in 1..Len(old) :
              old[s] \in Nat \union {NoFile} /\ old[s] <= Chain[s]
         /\ Chain \in Seq(Nat) /\ Len(Chain) \in Nat /\ Len(old) \in Nat
         /\ \A s \in 1..Len(Chain) : Chain[s] \in Nat
<1>1. Chain \in Seq(Nat) /\ Len(Chain) \in Nat /\ \A s \in 1..Len(Chain) : Chain[s] \in Nat
  BY KtFeedAssumption
<1>2. CASE old = <<>>
  BY <1>1, <1>2
<1>3. CASE old \in Old
  BY <1>1, <1>3, KtFeedAssumption
<1> QED
  BY <1>1, <1>2, <1>3 DEF TypeInv

(* A frontier stays sound when the log grows beyond it.                    *)
LEMMA SoundBelow ==
  ASSUME NEW f, NEW l, NEW l2, f.seq \in Int, Sound(f, l), f.seq <= Len(l2),
         \A s \in 1..f.seq : l2[s] = l[s]
  PROVE  Sound(f, l2)
BY DEF Sound

(* A frontier stays sound when it gets one more entry, whose chain is      *)
(* complete in the log, or open with what is missing still to be asked     *)
(* for.                                                                    *)
LEMMA SoundNext ==
  ASSUME NEW f, NEW g, NEW l, NEW l2,
         f.seq \in Nat, g.seq = f.seq + 1, Sound(f, l), g.seq <= Len(l2),
         \A s \in 1..f.seq : l2[s] = l[s],
         \/ g.pend = f.pend /\ l2[g.seq] = Chain[g.seq]
         \/ \E p : /\ g.pend = With(f.pend, g.seq, p)
                   /\ p.hptr \in Nat /\ p.hptr <= l2[g.seq]
                   /\ p.rem \in Int /\ p.rem >= Chain[g.seq] - p.hptr
  PROVE  Sound(g, l2) /\ Later(f, g)
<1>1. CASE g.pend = f.pend /\ l2[g.seq] = Chain[g.seq]
  <2>1. \A s \in 1..g.seq : s \in 1..f.seq \/ s = g.seq
    OBVIOUS
  <2>2. \A s \in 1..g.seq : s \notin DOMAIN g.pend => l2[s] = Chain[s]
    BY <1>1, <2>1 DEF Sound
  <2>3. \A s \in DOMAIN g.pend : s \in 1..f.seq /\ s \in 1..g.seq /\ l2[s] = l[s]
    BY <1>1 DEF Sound
  <2>4. Sound(g, l2)
    BY <1>1, <2>2, <2>3 DEF Sound
  <2> QED
    BY <1>1, <2>4 DEF Later
<1>2. ASSUME NEW p, g.pend = With(f.pend, g.seq, p),
             p.hptr \in Nat, p.hptr <= l2[g.seq],
             p.rem \in Int, p.rem >= Chain[g.seq] - p.hptr
      PROVE  Sound(g, l2) /\ Later(f, g)
  <2>1. \A s \in 1..g.seq : s \in 1..f.seq \/ s = g.seq
    OBVIOUS
  <2>2. /\ DOMAIN g.pend = DOMAIN f.pend \union {g.seq}
        /\ g.pend[g.seq] = p
        /\ \A t \in DOMAIN f.pend \ {g.seq} : g.pend[t] = f.pend[t]
    <3> DEFINE w == With(f.pend, g.seq, p)
    <3>1. /\ DOMAIN w = DOMAIN f.pend \union {g.seq}
          /\ w[g.seq] = p
          /\ \A t \in DOMAIN f.pend \ {g.seq} : w[t] = f.pend[t]
      BY DEF With
    <3>2. g.pend = w
      BY <1>2
    <3> HIDE DEF w
    <3> QED
      BY <3>1, <3>2
  <2>3. \A s \in DOMAIN f.pend : s \in 1..f.seq /\ s # g.seq
    BY DEF Sound
  <2>4. \A s \in 1..g.seq : s \notin DOMAIN g.pend => l2[s] = Chain[s]
    BY <2>1, <2>2 DEF Sound
  <2>5. ASSUME NEW s \in DOMAIN g.pend
        PROVE  /\ s \in 1..g.seq
               /\ g.pend[s].hptr \in Nat /\ g.pend[s].hptr <= l2[s]
               /\ g.pend[s].rem \in Int
               /\ g.pend[s].rem >= Chain[s] - g.pend[s].hptr
    <3>1. CASE s = g.seq
      BY <1>2, <2>2, <3>1
    <3>2. CASE s \in DOMAIN f.pend /\ s # g.seq
      BY <2>2, <2>3, <3>2 DEF Sound
    <3> QED
      BY <2>2, <3>1, <3>2
  <2>6. Sound(g, l2)
    BY <2>4, <2>5 DEF Sound
  <2>7. Later(f, g)
    BY <2>2 DEF Later
  <2> QED
    BY <2>6, <2>7
<1> QED
  BY <1>1, <1>2

(* The chain of a new entry of which the log has no chunk.                 *)
LEMMA SoundOpened ==
  ASSUME NEW f, NEW g, NEW l, NEW l2,
         f.seq \in Nat, g.seq = f.seq + 1, Sound(f, l), g.seq <= Len(l2),
         \A s \in 1..f.seq : l2[s] = l[s], l2[g.seq] = 0,
         Chain[g.seq] \in Nat, g.pend = OpenChain(f.pend, g.seq)
  PROVE  Sound(g, l2) /\ Later(f, g)
<1> DEFINE s == g.seq
<1>1. CASE Chain[s] = 0
  BY <1>1, SoundNext DEF OpenChain
<1>2. CASE Chain[s] # 0
  <2> DEFINE p == Pending(0, Chain[s], 0)
  <2>1. /\ g.pend = With(f.pend, s, p)
        /\ p.hptr = 0 /\ p.rem = Chain[s]
    BY <1>2 DEF OpenChain, Pending
  <2> HIDE DEF p
  <2>2. \E q : /\ g.pend = With(f.pend, s, q)
               /\ q.hptr \in Nat /\ q.hptr <= l2[s]
               /\ q.rem \in Int /\ q.rem >= Chain[s] - q.hptr
    <3>1. /\ p.hptr \in Nat /\ p.hptr <= l2[s]
          /\ p.rem \in Int /\ p.rem >= Chain[s] - p.hptr
      BY <2>1
    <3> QED
      BY <2>1, <3>1
  <2> QED
    BY <2>2, SoundNext
<1> QED
  BY <1>1, <1>2

(* mid.bin is as good as before when it has not changed, and neither have  *)
(* the entries that should be in it.                                       *)
LEMMA MidSame ==
  ASSUME MidInv, old' = old, mid' = mid, Known' = Known,
         crashes \in Nat, crashes' \in Nat, crashes <= crashes', Known \in Int,
         Len(mid) \in Nat
  PROVE  MidInv'
<1> SUFFICES ASSUME AllFiled'
             PROVE  /\ \A i \in 1..Len(mid') : mid'[i] \in i..Known'
                    /\ \A i, j \in 1..Len(mid') : i < j => mid'[i] < mid'[j]
                    /\ Known' - Len(mid') \in 0..crashes'
  BY DEF MidInv
<1>1. AllFiled
  BY DEF AllFiled
<1> QED
  BY <1>1 DEF MidInv

(* The number of known entries is an integer.                              *)
LEMMA KnownIs ==
  ASSUME TypeInv PROVE Known \in Int /\ Len(mid) \in Nat /\ Len(log) \in Nat
BY OldIs DEF Known, TypeInv

-----------------------------------------------------------------------------
(* The invariant holds at the start.                                       *)
LEMMA InitIInv == Init => IInv
<1> SUFFICES ASSUME Init PROVE IInv
  OBVIOUS
<1>1. TypeInv
  <2>1. old \in Old \union {<<>>} /\ tmp = <<>> /\ log = <<>> /\ crashes = 0
    BY DEF Init
  <2>2. IsFrontier(fnt) /\ fnt = Empty /\ IsFrontier(mem) /\ mem.seq = 0
    BY DEF Init, IsFrontier, Empty, NewFrontier
  <2>3. old \in Seq(Nat \union {NoFile})
    <3>1. CASE old = <<>>
      BY <3>1
    <3>2. CASE old \in Old
      BY <3>2, KtFeedAssumption
    <3> QED
      BY <2>1, <3>1, <3>2
  <2>4. mid \in Seq(Nat)
    <3>1. mid = [s \in 1..Len(old) |-> s]
      BY <2>3 DEF Init
    <3>2. Len(old) \in Nat /\ \A s \in 1..Len(old) : s \in Nat
      BY <2>3
    <3> QED
      BY <3>1, <3>2
  <2>5. Len(log) <= Len(Chain)
    BY <2>1, KtFeedAssumption
  <2> QED
    BY <2>1, <2>2, <2>4, <2>5 DEF TypeInv
<1>2. FilesInv
  BY DEF Init, OldFiles, FilesInv, Converting, Unsaved
<1>3. ConvertInv /\ DiskInv /\ MemInv
  BY DEF Init, OldFiles, ConvertInv, Converting, DiskInv, MemInv, Unsaved
<1>4. MidInv
  <2>1. old \in Seq(Nat \union {NoFile}) /\ Len(old) \in Nat
    BY <1>1, OldIs
  <2>2. mid = [s \in 1..Len(old) |-> s] /\ crashes = 0
    BY <2>1 DEF Init
  <2>3. Len(mid) = Len(old)
    BY <2>1, <2>2
  <2>4. Known = Len(old)
    BY <2>1 DEF Init, Known, OldFiles
  <2> QED
    BY <2>1, <2>2, <2>3, <2>4 DEF MidInv
<1> QED
  BY <1>1, <1>2, <1>3, <1>4 DEF IInv

-----------------------------------------------------------------------------
(* The steps of upgrade_repo that only move or delete files, or give the   *)
(* conversion up, keep the invariant.                                      *)
LEMMA MovesKeep ==
  ASSUME IInv, \/ UpToDate \/ Finish \/ DeleteLog \/ MoveMid \/ Clean
               \/ Abandon \/ ConvertFails
  PROVE  IInv'
<1>1. /\ UNCHANGED <<old, tmp, log, mid, fnt, mem, crashes>>
      /\ pc \in {"upgrade", "deletelog", "movemid", "clean", "convert"}
      /\ pc' \in {"create", "clean", "failed", "movemid"}
  BY DEF UpToDate, Finish, DeleteLog, MoveMid, Clean, Abandon, ConvertFails, disk, Files
<1>2. "log.bin" \in files' <=> "log.bin" \in files
  BY DEF UpToDate, Finish, DeleteLog, MoveMid, Clean, Abandon, ConvertFails, disk, Files
<1>filed. AllFiled' <=> AllFiled
  BY <1>1 DEF AllFiled
<1>3. TypeInv'
  BY <1>1 DEF IInv, TypeInv, IsFrontier
<1>4. FilesInv'
  <2>1. CASE UpToDate
    <3>1. files = {} => mid = <<>>
      <4> SUFFICES ASSUME files = {} PROVE mid = <<>>
        OBVIOUS
      <4>1. old = <<>>
        BY DEF IInv, FilesInv
      <4>2. AllFiled /\ Known = 0 /\ Len(old) = 0
        BY <4>1, <2>1 DEF AllFiled, Known, UpToDate
      <4>3. Len(mid) \in Nat /\ 0 - Len(mid) >= 0
        BY <4>2, KnownIs DEF IInv, MidInv, TypeInv
      <4>4. Len(mid) = 0 /\ mid \in Seq(Nat)
        BY <4>3 DEF IInv, TypeInv
      <4> QED
        BY <4>4
    <3> QED
      BY <1>filed, <2>1, <3>1 DEF UpToDate, disk, IInv, FilesInv, Converting, Unsaved
  <2>4. CASE Abandon
    <3>1. ~AllFiled
      <4>1. pc = "convert" /\ mem.seq < Len(old) /\ old[mem.seq + 1] = NoFile
        BY <2>4 DEF Abandon
      <4>2. mem.seq + 1 \in DOMAIN old
        BY <4>1, OldIs DEF IInv, TypeInv
      <4> QED
        BY <4>1, <4>2 DEF AllFiled
    <3> QED
      BY <1>filed, <2>4, <3>1 DEF Abandon, disk, IInv, FilesInv, Converting, Unsaved
  <2>5. CASE ConvertFails
    BY <1>filed, <2>5 DEF ConvertFails, disk, IInv, FilesInv, Converting, Unsaved
  <2>2. CASE Finish
    BY <1>filed, <2>2 DEF Finish, Files, IInv, FilesInv, Converting, Unsaved
  <2>3. CASE DeleteLog \/ MoveMid \/ Clean
    BY <1>filed, <2>3 DEF DeleteLog, MoveMid, Clean, Files, IInv, FilesInv, Converting, Unsaved
  <2> QED
    BY <2>1, <2>2, <2>3, <2>4, <2>5
<1>5. ConvertInv' /\ MemInv'
  BY <1>1 DEF ConvertInv, Converting, MemInv, Unsaved
<1>6. DiskInv'
  BY <1>1, <1>2 DEF IInv, DiskInv, Sound
<1>7. MidInv'
  <2>1. Known' = Known
    BY <1>1, <1>2 DEF Known
  <2> QED
    BY <1>1, <2>1, KnownIs, MidSame DEF IInv, TypeInv
<1> QED
  BY <1>3, <1>4, <1>5, <1>6, <1>7 DEF IInv

(* Opening the old log, or finding that it is not there.                   *)
LEMMA OpenOldKeeps == ASSUME IInv, OpenOld PROVE IInv'
<1>1. /\ UNCHANGED <<old, log, mid, fnt, crashes>>
      /\ mem' = NewFrontier /\ pc = "upgrade"
      /\ "log.bin" \notin files /\ "log.bin" \notin files'
      /\ "log" \in files' <=> "log" \in files
      /\ "frontier.bin" \in files' <=> "frontier.bin" \in files
      /\ \/ pc' = "convert" /\ "log" \in files /\ tmp' = <<>>
         \/ pc' = "failed" /\ tmp' = tmp
  BY DEF OpenOld, Files
<1>2. TypeInv'
  <2>1. IsFrontier(mem') /\ mem'.seq = 0
    BY <1>1 DEF IsFrontier, NewFrontier
  <2>2. tmp' \in Seq(Nat)
    <3>1. tmp \in Seq(Nat) /\ <<>> \in Seq(Nat)
      BY DEF IInv, TypeInv
    <3> QED
      BY <1>1, <3>1
  <2> QED
    BY <1>1, <2>1, <2>2 DEF IInv, TypeInv, IsFrontier
<1>3. FilesInv'
  BY <1>1 DEF IInv, FilesInv, AllFiled, Converting, Unsaved
<1>4. ConvertInv'
  <2>1. CASE pc' = "failed"
    BY <2>1 DEF ConvertInv, Converting
  <2>2. CASE pc' = "convert"
    <3>1. /\ tmp' = <<>> /\ Len(tmp') = 0 /\ DOMAIN tmp' = {}
          /\ mem'.seq = 0 /\ DOMAIN mem'.pend = {}
      BY <1>1, <2>2 DEF NewFrontier, NoPend
    <3>2. Sound(mem', tmp')
      BY <3>1 DEF Sound
    <3>3. Len(tmp') <= Len(old')
      BY <1>1, <3>1, OldIs DEF IInv
    <3> QED
      BY <2>2, <3>1, <3>2, <3>3 DEF ConvertInv
  <2> QED
    BY <1>1, <2>1, <2>2
<1>5. DiskInv' /\ MemInv'
  BY <1>1 DEF DiskInv, MemInv, Unsaved
<1>6. MidInv'
  <2>1. Known' = Known
    BY <1>1 DEF Known
  <2> QED
    BY <1>1, <2>1, KnownIs, MidSame DEF IInv, TypeInv
<1> QED
  BY <1>2, <1>3, <1>4, <1>5, <1>6 DEF IInv

(* The conversion of an entry.                                             *)
LEMMA ConvertKeeps == ASSUME IInv, Convert PROVE IInv'
<1> DEFINE s == mem.seq + 1
           cnr == (old[s] * PktLen) % PktLen
<1>1. /\ UNCHANGED <<files, old, log, mid, fnt, pc, crashes>>
      /\ pc = "convert" /\ s <= Len(old)
      /\ tmp' = Append(tmp, old[s])
      /\ mem' = [seq |-> s,
                 pend |-> IF old[s] = Chain[s] THEN mem.pend
                          ELSE With(mem.pend, s, Pending(cnr, Chain[s] - cnr, old[s]))]
  BY DEF Convert
<1>2. /\ Len(old) \in Nat /\ tmp \in Seq(Nat)
      /\ mem.seq \in Nat /\ s \in 1..Len(old) /\ s = Len(tmp) + 1
      /\ old[s] \in Nat /\ Chain[s] \in Nat
      /\ \A t \in DOMAIN tmp : tmp[t] = old[t]
      /\ \A t \in DOMAIN mem.pend : old[t] # Chain[t]
      /\ Sound(mem, tmp)
  <2>1. /\ Len(old) \in Nat /\ tmp \in Seq(Nat)
        /\ Len(old) <= Len(Chain) /\ Len(Chain) \in Nat
        /\ \A t \in 1..Len(old) : old[t] \in Nat \union {NoFile}
        /\ \A t \in 1..Len(Chain) : Chain[t] \in Nat
        /\ mem.seq \in Nat
    BY OldIs DEF IInv, TypeInv
  <2>2. /\ mem.seq = Len(tmp)
        /\ \A t \in DOMAIN tmp : tmp[t] = old[t]
        /\ \A t \in DOMAIN mem.pend : old[t] # Chain[t]
        /\ Sound(mem, tmp)
    BY <1>1 DEF IInv, ConvertInv, Converting
  <2>3. s \in 1..Len(old) /\ s \in 1..Len(Chain)
    BY <1>1, <2>1
  <2>4. Chain[s] \in Nat
    BY <2>1, <2>3
  <2>5. old[s] \in Nat
    <3>1. old[s] = Chain[s] \/ old[s] > 0
      BY DEF Convert
    <3> QED
      BY <2>1, <2>3, <2>4, <3>1 DEF NoFile
  <2> QED
    BY <1>1, <2>1, <2>2, <2>3, <2>4, <2>5
<1>3. cnr = 0
  BY <1>2 DEF PktLen
<1> HIDE DEF cnr
<1>4. /\ tmp' \in Seq(Nat) /\ Len(tmp') = s
      /\ \A t \in 1..mem.seq : tmp'[t] = tmp[t]
      /\ tmp'[s] = old[s]
      /\ DOMAIN tmp' = 1..s /\ DOMAIN tmp = 1..mem.seq
  BY <1>1, <1>2
<1>5. IsFrontier(mem') /\ mem'.seq = s
  BY <1>1 DEF IsFrontier
<1>6. TypeInv'
  BY <1>1, <1>2, <1>4, <1>5 DEF IInv, TypeInv, IsFrontier
<1>7. FilesInv'
  BY <1>1 DEF IInv, FilesInv, AllFiled, Converting, Unsaved
<1>8. Sound(mem', tmp')
  <2>1. CASE old[s] = Chain[s]
    <3>1. /\ mem'.pend = mem.pend /\ tmp'[mem'.seq] = Chain[mem'.seq]
          /\ mem'.seq = mem.seq + 1 /\ mem'.seq <= Len(tmp')
      BY <1>1, <1>2, <1>4, <1>5, <2>1
    <3> HIDE DEF s
    <3> QED
      BY <1>2, <1>4, <3>1, SoundNext
  <2>2. CASE old[s] # Chain[s]
    <3> DEFINE p == Pending(cnr, Chain[s] - cnr, old[s])
    <3>1. p.hptr = old[s] /\ p.rem = Chain[s]
      BY <1>2, <1>3 DEF Pending
    <3>2. mem'.pend = With(mem.pend, s, p)
      BY <1>1, <2>2
    <3> HIDE DEF p
    <3>3. \E q : /\ mem'.pend = With(mem.pend, mem'.seq, q)
                 /\ q.hptr \in Nat /\ q.hptr <= tmp'[mem'.seq]
                 /\ q.rem \in Int /\ q.rem >= Chain[mem'.seq] - q.hptr
      <4>1. /\ p.hptr \in Nat /\ p.hptr <= tmp'[s]
            /\ p.rem \in Int /\ p.rem >= Chain[s] - p.hptr
        BY <1>2, <1>4, <3>1
      <4> QED
        BY <1>5, <3>2, <4>1
    <3>4. mem'.seq = mem.seq + 1 /\ mem'.seq <= Len(tmp')
      BY <1>2, <1>4, <1>5
    <3> HIDE DEF s
    <3> QED
      BY <1>2, <1>4, <3>3, <3>4, SoundNext
  <2> QED
    BY <2>1, <2>2
<1>9. ConvertInv'
  <2>1. \A t \in DOMAIN tmp' : tmp'[t] = old[t]
    <3>1. \A t \in 1..s : t \in 1..mem.seq \/ t = s
      BY <1>2
    <3> QED
      BY <1>2, <1>4, <3>1
  <2>2. \A t \in DOMAIN mem'.pend : old[t] # Chain[t]
    <3>1. CASE old[s] = Chain[s]
      BY <1>1, <1>2, <3>1
    <3>2. CASE old[s] # Chain[s]
      <4>1. DOMAIN mem'.pend = DOMAIN mem.pend \union {s}
        BY <1>1, <3>2 DEF With
      <4> QED
        BY <1>2, <3>2, <4>1
    <3> QED
      BY <3>1, <3>2
  <2>3. mem'.seq = Len(tmp') /\ Len(tmp') <= Len(old')
    BY <1>1, <1>4, <1>5
  <2> QED
    BY <1>1, <1>8, <2>1, <2>2, <2>3 DEF ConvertInv
<1>10. DiskInv'
  BY <1>1 DEF IInv, DiskInv, FilesInv, Converting
<1>11. MemInv'
  BY <1>1 DEF MemInv, Unsaved
<1>12. MidInv'
  <2>1. Known' = Known
    BY <1>1 DEF Known
  <2> QED
    BY <1>1, <2>1, KnownIs, MidSame DEF IInv, TypeInv
<1> QED
  BY <1>6, <1>7, <1>9, <1>10, <1>11, <1>12 DEF IInv

(* The end of the conversion: frontier.bin is made, then written.          *)
LEMMA ConvertedKeeps == ASSUME IInv, Converted \/ WriteFrontier PROVE IInv'
<1>1. /\ UNCHANGED <<old, tmp, log, mid, mem, crashes>>
      /\ "log.bin" \in files' <=> "log.bin" \in files
      /\ "log" \in files' <=> "log" \in files
      /\ \/ /\ pc = "convert" /\ pc' = "frontier" /\ fnt' = Empty
            /\ mem.seq = Len(old)
         \/ /\ pc = "frontier" /\ pc' = "movelog" /\ fnt' = mem
            /\ files' = files
  BY DEF Converted, WriteFrontier, Files
<1>2. "log.bin" \notin files /\ "log" \in files
  BY <1>1 DEF IInv, FilesInv, Converting, Unsaved
<1>3. TypeInv'
  <2>1. IsFrontier(fnt') /\ (fnt' = Empty \/ fnt'.seq \in Nat)
    BY <1>1 DEF IInv, TypeInv, IsFrontier, Empty
  <2> QED
    BY <1>1, <2>1 DEF IInv, TypeInv, IsFrontier
<1>4. FilesInv'
  <2>1. "frontier.bin" \in files'
    BY DEF Converted, WriteFrontier, Files, IInv, FilesInv, Empty
  <2>2. AllFiled
    <3>1. /\ Len(tmp) = Len(old) /\ tmp \in Seq(Nat)
          /\ \A s \in DOMAIN tmp : tmp[s] = old[s]
      BY <1>1 DEF IInv, TypeInv, ConvertInv, Converting
    <3>2. DOMAIN old = 1..Len(old) /\ DOMAIN tmp = 1..Len(tmp)
      BY <3>1, OldIs DEF IInv, TypeInv
    <3> QED
      BY <3>1, <3>2 DEF AllFiled, NoFile
  <2>3. AllFiled'
    BY <1>1, <2>2 DEF AllFiled
  <2> QED
    BY <1>1, <1>2, <2>1, <2>3 DEF IInv, FilesInv, Converting, Unsaved
<1>5. ConvertInv'
  BY <1>1 DEF IInv, ConvertInv, Converting, Sound
<1>6. DiskInv' /\ MemInv'
  BY <1>1, <1>2 DEF DiskInv, MemInv, Unsaved
<1>7. MidInv'
  <2>1. Known' = Known
    BY <1>1 DEF Known
  <2> QED
    BY <1>1, <2>1, KnownIs, MidSame DEF IInv, TypeInv
<1> QED
  BY <1>3, <1>4, <1>5, <1>6, <1>7 DEF IInv

(* The new log takes its place.                                            *)
LEMMA MoveLogKeeps == ASSUME IInv, MoveLog PROVE IInv'
<1>1. /\ UNCHANGED <<old, tmp, mid, fnt, mem, crashes>>
      /\ files' = (files \ {"log.bin.tmp"}) \union {"log.bin"}
      /\ log' = tmp /\ pc = "movelog" /\ pc' = "deletelog"
  BY DEF MoveLog, Files
<1>2. /\ fnt = mem /\ Sound(mem, tmp) /\ mem.seq = Len(tmp)
      /\ Len(tmp) = Len(old) /\ "log.bin" \notin files
  BY <1>1 DEF IInv, ConvertInv, FilesInv, Converting
<1>3. /\ Len(tmp) \in Nat /\ Len(old) <= Len(Chain)
  BY OldIs DEF IInv, TypeInv
<1>4. TypeInv'
  BY <1>1, <1>2, <1>3 DEF IInv, TypeInv, IsFrontier
<1>5. FilesInv'
  BY <1>1 DEF IInv, FilesInv, AllFiled, Converting, Unsaved
<1>6. ConvertInv' /\ MemInv'
  BY <1>1 DEF ConvertInv, Converting, MemInv, Unsaved
<1>7. DiskInv'
  BY <1>1, <1>2, <1>3 DEF DiskInv, Sound
<1>8. MidInv'
  <2>1. Known' = Known
    BY <1>1, <1>2 DEF Known
  <2> QED
    BY <1>1, <2>1, KnownIs, MidSame DEF IInv, TypeInv
<1> QED
  BY <1>4, <1>5, <1>6, <1>7, <1>8 DEF IInv

-----------------------------------------------------------------------------
(* Creating what a directory lacks keeps the invariant.                    *)
LEMMA CreateKeeps == ASSUME IInv, Create PROVE IInv'
<1>1. /\ UNCHANGED <<old, tmp, log, crashes>> /\ pc = "create"
      /\ \/ /\ UNCHANGED <<fnt, mem, pc>>
            /\ \/ files' = files \union {"dir"} /\ mid' = mid
               \/ /\ files' = files \union {"log.bin"} /\ mid' = mid
                  /\ "log.bin" \notin files
               \/ /\ files' = files \union {"mid.bin"} /\ mid' = <<>>
                  /\ "mid.bin" \notin files /\ "log.bin" \in files
         \/ /\ files' = files \union {"frontier.bin"} /\ mid' = mid
            /\ "frontier.bin" \notin files
            /\ "log.bin" \in files /\ "mid.bin" \in files
            /\ fnt' = Empty /\ mem' = NewFrontier /\ pc' = "newfrontier"
  BY DEF Create, Files
<1>filed. AllFiled' <=> AllFiled
  BY <1>1 DEF AllFiled
<1>2. TypeInv'
  <2>1. IsFrontier(fnt') /\ (fnt' = Empty \/ fnt'.seq \in Nat)
    BY <1>1 DEF IInv, TypeInv, IsFrontier, Empty
  <2>2. IsFrontier(mem') /\ mem'.seq \in Nat
    BY <1>1 DEF IInv, TypeInv, IsFrontier, NewFrontier
  <2>3. mid' \in Seq(Nat)
    <3>1. mid \in Seq(Nat) /\ <<>> \in Seq(Nat)
      BY DEF IInv, TypeInv
    <3> QED
      BY <1>1, <3>1
  <2> QED
    BY <1>1, <2>1, <2>2, <2>3 DEF IInv, TypeInv
<1>3. FilesInv'
  <2>1. CASE UNCHANGED <<fnt, mem, pc>>
    BY <1>1, <1>filed, <2>1 DEF IInv, FilesInv, Converting, Unsaved
  <2>2. CASE pc' = "newfrontier"
    BY <1>1, <1>filed, <2>2 DEF IInv, FilesInv, Converting, Unsaved
  <2> QED
    BY <1>1, <2>1, <2>2
<1>4. ConvertInv' /\ MemInv'
  BY <1>1 DEF ConvertInv, Converting, MemInv, Unsaved
<1>5. ASSUME "log.bin" \notin files
      PROVE  /\ log = <<>> /\ fnt = Empty
             /\ AllFiled => old = <<>>
  BY <1>1, <1>5 DEF IInv, FilesInv
<1>6. DiskInv'
  <2> SUFFICES ASSUME "log.bin" \in files'
               PROVE  Sound(fnt', log') /\ Len(log') <= fnt'.seq + 1
    BY DEF DiskInv
  <2>1. fnt.seq \in Int /\ Len(log) \in Nat
    BY DEF IInv, TypeInv, Empty
  <2>2. ASSUME fnt' = Empty, Len(log) <= 0
        PROVE  Sound(fnt', log') /\ Len(log') <= fnt'.seq + 1
    BY <1>1, <2>1, <2>2 DEF Sound, Empty, NoPend
  <2>3. CASE "log.bin" \notin files
    BY <1>1, <1>5, <2>2, <2>3
  <2>4. CASE "log.bin" \in files /\ UNCHANGED <<fnt, mem, pc>>
    BY <1>1, <2>4 DEF IInv, DiskInv, Sound
  <2>5. CASE "log.bin" \in files /\ pc' = "newfrontier"
    <3>1. fnt = Empty /\ fnt' = Empty
      BY <1>1, <2>5 DEF IInv, FilesInv
    <3>2. Len(log) <= 0
      BY <2>1, <2>5, <3>1 DEF IInv, DiskInv, Empty
    <3> QED
      BY <2>2, <3>1, <3>2
  <2> QED
    BY <1>1, <2>3, <2>4, <2>5
<1>7. MidInv'
  <2>1. CASE ~AllFiled
    BY <1>filed, <2>1 DEF MidInv
  <2>2. CASE AllFiled
    <3>1. Known' = Known
      <4>1. CASE "log.bin" \notin files
        BY <1>1, <1>5, <2>2, <4>1 DEF Known
      <4>2. CASE "log.bin" \in files
        BY <1>1, <4>2 DEF Known
      <4> QED
        BY <4>1, <4>2
    <3>2. mid' = mid
      BY <1>1, <2>2 DEF IInv, FilesInv
    <3> QED
      BY <1>1, <3>1, <3>2, KnownIs, MidSame DEF IInv, TypeInv
  <2> QED
    BY <2>1, <2>2
<1> QED
  BY <1>2, <1>3, <1>4, <1>6, <1>7 DEF IInv

(* Loading the frontier, the end of the catch-up, and a crash.             *)
LEMMA LoadKeeps == ASSUME IInv, Load \/ Loaded \/ Crash PROVE IInv'
<1>1. /\ UNCHANGED <<files, old, tmp, log, mid, fnt>>
      /\ \/ /\ pc = "create" /\ mem' = fnt /\ fnt # Empty /\ pc' = "load"
            /\ "log.bin" \in files /\ "frontier.bin" \in files
            /\ crashes' = crashes
         \/ pc = "create" /\ mem' = mem /\ pc' = "failed" /\ crashes' = crashes
         \/ /\ pc = "load" /\ mem' = mem /\ mem.seq >= Len(log) /\ pc' = "idle"
            /\ crashes' = crashes
         \/ pc' = "upgrade" /\ mem' = NewFrontier /\ crashes' = crashes + 1
  BY DEF Load, Loaded, Crash, disk
<1>2. TypeInv'
  <2>1. IsFrontier(mem') /\ mem'.seq \in Nat
    BY <1>1 DEF IInv, TypeInv, IsFrontier, NewFrontier
  <2>2. crashes' \in Nat
    BY <1>1 DEF IInv, TypeInv
  <2> QED
    BY <1>1, <2>1, <2>2 DEF IInv, TypeInv, IsFrontier
<1>3. FilesInv'
  BY <1>1 DEF IInv, FilesInv, AllFiled, Converting, Unsaved
<1>4. ConvertInv' /\ DiskInv'
  BY <1>1 DEF IInv, ConvertInv, Converting, DiskInv, Sound
<1>5. MemInv'
  <2>1. CASE pc = "load" /\ mem' = mem /\ mem.seq >= Len(log) /\ pc' = "idle"
    <3>1. mem = fnt /\ "log.bin" \in files
      BY <2>1 DEF IInv, MemInv, FilesInv, Converting
    <3>2. Sound(fnt, log) /\ mem.seq \in Nat /\ Len(log) \in Nat
      BY <3>1 DEF IInv, DiskInv, TypeInv
    <3> QED
      BY <1>1, <2>1, <3>1, <3>2 DEF MemInv, Unsaved, Sound
  <2>2. CASE ~(pc = "load" /\ mem' = mem /\ mem.seq >= Len(log) /\ pc' = "idle")
    BY <1>1, <2>2 DEF MemInv, Unsaved
  <2> QED
    BY <2>1, <2>2
<1>6. MidInv'
  <2>1. CASE pc # "mid"
    <3>1. Known' = Known
      BY <1>1, <2>1 DEF Known
    <3>2. crashes \in Nat /\ crashes' \in Nat /\ crashes <= crashes'
      BY <1>1 DEF IInv, TypeInv
    <3> QED
      BY <1>1, <3>1, <3>2, KnownIs, MidSame DEF IInv
  <2>2. CASE pc = "mid"
    <3> SUFFICES ASSUME AllFiled'
                 PROVE  /\ \A i \in 1..Len(mid') : mid'[i] \in i..Known'
                        /\ \A i, j \in 1..Len(mid') : i < j => mid'[i] < mid'[j]
                        /\ Known' - Len(mid') \in 0..crashes'
      BY DEF MidInv
    <3>filed. AllFiled
      BY <1>1 DEF AllFiled
    <3>1. pc' = "upgrade" /\ crashes' = crashes + 1
      BY <1>1, <2>2
    <3>2. Known' = Known + 1
      <4>1. Len(log) \in Nat /\ Len(old) \in Nat
        BY OldIs, KnownIs DEF IInv
      <4> QED
        BY <1>1, <2>2, <3>1, <4>1 DEF Known
    <3>3. Known \in Int /\ Len(mid) \in Nat /\ crashes \in Nat /\ mid' = mid
      BY <1>1, KnownIs DEF IInv, TypeInv
    <3>4. \A i \in 1..Len(mid') : mid'[i] \in i..Known'
      BY <3>filed, <3>2, <3>3 DEF IInv, MidInv
    <3>5. \A i, j \in 1..Len(mid') : i < j => mid'[i] < mid'[j]
      BY <3>filed, <3>3 DEF IInv, MidInv
    <3>6. Known' - Len(mid') \in 0..crashes'
      BY <3>filed, <3>1, <3>2, <3>3 DEF IInv, MidInv
    <3> QED
      BY <3>4, <3>5, <3>6
  <2> QED
    BY <2>1, <2>2
<1> QED
  BY <1>2, <1>3, <1>4, <1>5, <1>6 DEF IInv

(* The catch-up with an entry that the frontier does not know.             *)
LEMMA CatchUpKeeps == ASSUME IInv, CatchUp PROVE IInv'
<1> DEFINE s == mem.seq + 1
<1>1. /\ UNCHANGED <<files, old, tmp, mid, fnt, crashes>>
      /\ pc = "load" /\ s <= Len(log)
      /\ log' = [log EXCEPT ![s] = 0]
      /\ mem' = [seq |-> s, pend |-> OpenChain(mem.pend, s)]
      /\ pc' = "caughtup"
  BY DEF CatchUp
<1>2. /\ mem = fnt /\ "log.bin" \in files /\ "frontier.bin" \in files
      /\ mem.seq \in Nat /\ log \in Seq(Nat) /\ Len(log) \in Nat
      /\ Len(log) <= Len(Chain) /\ Len(Chain) \in Nat
  BY <1>1, OldIs DEF IInv, MemInv, FilesInv, Converting, TypeInv
<1>3. Sound(mem, log) /\ Len(log) <= s
  BY <1>2 DEF IInv, DiskInv
<1>4. /\ Len(log) = s /\ s \in 1..Len(log) /\ s \in 1..Len(Chain)
      /\ log' \in Seq(Nat) /\ Len(log') = s
      /\ \A t \in 1..mem.seq : log'[t] = log[t]
      /\ log'[s] = 0
  BY <1>1, <1>2, <1>3
<1>5. /\ mem'.seq = mem.seq + 1 /\ mem'.pend = OpenChain(mem.pend, mem'.seq)
      /\ IsFrontier(mem') /\ mem'.seq = s
  BY <1>1 DEF IsFrontier
<1>6. Chain[s] \in Nat
  BY <1>4, OldIs DEF IInv
<1> HIDE DEF s
<1>7. Sound(mem', log') /\ Later(mem, mem')
  <2>1. mem'.seq <= Len(log') /\ log'[mem'.seq] = 0 /\ Chain[mem'.seq] \in Nat
    BY <1>2, <1>4, <1>5, <1>6
  <2> QED
    BY <1>2, <1>3, <1>4, <1>5, <2>1, SoundOpened
<1>8. TypeInv'
  <2>1. mem'.seq \in Nat /\ Len(log') <= Len(Chain)
    BY <1>2, <1>4, <1>5
  <2> QED
    BY <1>1, <1>4, <1>5, <2>1 DEF IInv, TypeInv, IsFrontier
<1>9. FilesInv'
  BY <1>1, <1>2 DEF IInv, FilesInv, Converting, Unsaved
<1>10. ConvertInv'
  BY <1>1 DEF ConvertInv, Converting
<1>11. DiskInv'
  <2>1. Sound(mem, log')
    BY <1>2, <1>3, <1>4, <1>5, SoundBelow
  <2>2. Len(log') <= fnt.seq + 1
    BY <1>2, <1>4, <1>5
  <2> QED
    BY <1>1, <1>2, <2>1, <2>2 DEF DiskInv
<1>12. MemInv'
  BY <1>1, <1>2, <1>4, <1>5, <1>7 DEF MemInv, Unsaved
<1>13. MidInv'
  <2>1. Known' = Known
    BY <1>1, <1>2, <1>4 DEF Known
  <2> QED
    BY <1>1, <2>1, KnownIs, MidSame DEF IInv, TypeInv
<1> QED
  BY <1>8, <1>9, <1>10, <1>11, <1>12, <1>13 DEF IInv

(* persist_frontier.                                                       *)
LEMMA PersistKeeps == ASSUME IInv, Persist PROVE IInv'
<1>1. /\ UNCHANGED <<files, old, tmp, log, mid, mem, crashes>> /\ fnt' = mem
      /\ \/ pc = "newfrontier" /\ pc' = "create"
         \/ pc = "caughtup" /\ pc' = "load"
         \/ pc = "persist" /\ pc' = "idle"
  BY DEF Persist, After
<1>2. "log.bin" \in files /\ "frontier.bin" \in files
  BY <1>1 DEF IInv, FilesInv, Converting, Unsaved
<1>3. mem.seq \in Nat /\ Len(log) \in Nat /\ IsFrontier(mem)
  BY KnownIs DEF IInv, TypeInv
<1>4. TypeInv'
  BY <1>1, <1>3 DEF IInv, TypeInv, IsFrontier
<1>5. FilesInv'
  BY <1>1, <1>2 DEF IInv, FilesInv, Converting, Unsaved
<1>6. ConvertInv'
  BY <1>1 DEF ConvertInv, Converting
<1>7. DiskInv'
  <2>1. CASE pc = "newfrontier"
    <3>1. /\ mem.seq = 0 /\ DOMAIN mem.pend = {} /\ fnt = Empty /\ fnt.seq = -1
      BY <2>1 DEF IInv, MemInv, NewFrontier, NoPend, Empty
    <3>2. Len(log) <= fnt.seq + 1
      BY <1>2 DEF IInv, DiskInv
    <3>3. Sound(mem, log)
      BY <1>3, <3>1 DEF Sound
    <3> QED
      BY <1>1, <1>3, <3>1, <3>2, <3>3 DEF DiskInv, Sound
  <2>2. CASE pc \in {"caughtup", "persist"}
    <3>1. Sound(mem, log) /\ mem.seq = Len(log)
      BY <2>2 DEF IInv, MemInv, Unsaved
    <3> QED
      BY <1>1, <1>3, <3>1 DEF DiskInv, Sound
  <2> QED
    BY <1>1, <2>1, <2>2
<1>8. MemInv'
  BY <1>1 DEF IInv, MemInv, Unsaved
<1>9. MidInv'
  <2>1. Known' = Known
    BY <1>1 DEF Known
  <2> QED
    BY <1>1, <2>1, KnownIs, MidSame DEF IInv, TypeInv
<1> QED
  BY <1>4, <1>5, <1>6, <1>7, <1>8, <1>9 DEF IInv

(* A new entry, received or written.                                       *)
LEMMA AddEntryKeeps == ASSUME IInv, IngestEntry \/ Write PROVE IInv'
<1> DEFINE s == mem.seq + 1
<1>1. /\ UNCHANGED <<files, old, tmp, mid, fnt, crashes>>
      /\ pc = "idle" /\ s \in Seqs /\ pc' = "mid"
      /\ \/ /\ log' = Append(log, 0)
            /\ mem' = [seq |-> s, pend |-> OpenChain(mem.pend, s)]
         \/ /\ log' = Append(log, Chain[s])
            /\ mem' = [seq |-> s, pend |-> mem.pend]
  BY DEF IngestEntry, Write, AddEntry
<1>2. /\ mem = fnt /\ "log.bin" \in files /\ "frontier.bin" \in files
      /\ mem.seq = Len(log) /\ mem.seq \in Nat /\ log \in Seq(Nat)
      /\ Len(Chain) \in Nat /\ s \in 1..Len(Chain) /\ Chain[s] \in Nat
  <2>1. /\ mem = fnt /\ "log.bin" \in files /\ "frontier.bin" \in files
        /\ mem.seq = Len(log) /\ mem.seq \in Nat /\ log \in Seq(Nat)
    BY <1>1 DEF IInv, MemInv, FilesInv, Converting, Unsaved, TypeInv
  <2>2. Len(Chain) \in Nat /\ s \in 1..Len(Chain)
    BY <1>1, OldIs DEF IInv, Seqs
  <2>3. Chain[s] \in Nat
    BY <2>2, OldIs DEF IInv
  <2> QED
    BY <2>1, <2>2, <2>3
<1>3. Sound(mem, log)
  BY <1>2 DEF IInv, DiskInv
<1>4. /\ log' \in Seq(Nat) /\ Len(log') = s
      /\ \A t \in 1..mem.seq : log'[t] = log[t]
  <2>1. PICK n \in Nat : log' = Append(log, n)
    BY <1>1, <1>2
  <2> QED
    BY <1>2, <2>1
<1>5. \/ log'[s] = 0 /\ mem'.pend = OpenChain(mem.pend, s)
      \/ log'[s] = Chain[s] /\ mem'.pend = mem.pend
  BY <1>1, <1>2
<1>6. IsFrontier(mem') /\ mem'.seq = s /\ mem'.seq = mem.seq + 1
  BY <1>1 DEF IsFrontier
<1> HIDE DEF s
<1>7. Sound(mem', log') /\ Later(mem, mem')
  <2>1. mem'.seq <= Len(log') /\ Chain[mem'.seq] \in Nat
    BY <1>2, <1>4, <1>6
  <2>2. CASE log'[s] = 0 /\ mem'.pend = OpenChain(mem.pend, s)
    <3>1. log'[mem'.seq] = 0 /\ mem'.pend = OpenChain(mem.pend, mem'.seq)
      BY <1>6, <2>2
    <3> QED
      BY <1>2, <1>3, <1>4, <1>6, <2>1, <3>1, SoundOpened
  <2>3. CASE log'[s] = Chain[s] /\ mem'.pend = mem.pend
    <3>1. log'[mem'.seq] = Chain[mem'.seq] /\ mem'.pend = mem.pend
      BY <1>6, <2>3
    <3> QED
      BY <1>2, <1>3, <1>4, <1>6, <2>1, <3>1, SoundNext
  <2> QED
    BY <1>5, <2>2, <2>3
<1>8. TypeInv'
  <2>1. mem'.seq \in Nat /\ Len(log') <= Len(Chain)
    BY <1>2, <1>4, <1>6
  <2> QED
    BY <1>1, <1>4, <1>6, <2>1 DEF IInv, TypeInv, IsFrontier
<1>9. FilesInv'
  BY <1>1, <1>2 DEF IInv, FilesInv, Converting, Unsaved
<1>10. ConvertInv'
  BY <1>1 DEF ConvertInv, Converting
<1>11. DiskInv'
  <2>1. Sound(mem, log')
    BY <1>2, <1>3, <1>4, <1>6, SoundBelow
  <2>2. Len(log') <= fnt.seq + 1
    BY <1>2, <1>4, <1>6
  <2> QED
    BY <1>1, <1>2, <2>1, <2>2 DEF DiskInv
<1>12. MemInv'
  BY <1>1, <1>2, <1>4, <1>6, <1>7 DEF MemInv, Unsaved
<1>13. MidInv'
  <2>1. Known' = Known
    BY <1>1, <1>2, <1>4, <1>6 DEF Known
  <2> QED
    BY <1>1, <2>1, KnownIs, MidSame DEF IInv, TypeInv
<1> QED
  BY <1>8, <1>9, <1>10, <1>11, <1>12, <1>13 DEF IInv

(* Its message ID.                                                         *)
LEMMA AppendMidKeeps == ASSUME IInv, AppendMid PROVE IInv'
<1>1. /\ UNCHANGED <<files, old, tmp, log, fnt, mem, crashes>>
      /\ mid' = Append(mid, mem.seq) /\ pc = "mid" /\ pc' = "persist"
  BY DEF AppendMid
<1>2. /\ mem.seq \in Nat /\ mid \in Seq(Nat) /\ Len(mid) \in Nat
      /\ mem.seq = Len(log) /\ "log.bin" \in files /\ crashes \in Nat
  BY <1>1 DEF IInv, TypeInv, MemInv, FilesInv, Converting, Unsaved
<1>3. Known = mem.seq - 1 /\ Known' = mem.seq
  BY <1>1, <1>2 DEF Known
<1>4. AllFiled =>
        /\ \A i \in 1..Len(mid) : mid[i] \in i..Known
        /\ \A i, j \in 1..Len(mid) : i < j => mid[i] < mid[j]
        /\ Known - Len(mid) \in 0..crashes
  BY DEF IInv, MidInv
<1>5. /\ mid' \in Seq(Nat) /\ Len(mid') = Len(mid) + 1
      /\ mid'[Len(mid) + 1] = mem.seq
      /\ \A i \in 1..Len(mid) : mid'[i] = mid[i]
  BY <1>1, <1>2
<1>6. TypeInv'
  BY <1>1, <1>5 DEF IInv, TypeInv, IsFrontier
<1>7. FilesInv' /\ ConvertInv' /\ DiskInv' /\ MemInv'
  BY <1>1 DEF IInv, FilesInv, ConvertInv, Converting, DiskInv, MemInv, Unsaved,
              Sound, Later
<1>8. MidInv'
  <2> SUFFICES ASSUME AllFiled'
               PROVE  /\ \A i \in 1..Len(mid') : mid'[i] \in i..Known'
                      /\ \A i, j \in 1..Len(mid') : i < j => mid'[i] < mid'[j]
                      /\ Known' - Len(mid') \in 0..crashes'
    BY DEF MidInv
  <2>5. AllFiled
    BY <1>1 DEF AllFiled
  <2>1. \A i \in 1..Len(mid') : i \in 1..Len(mid) \/ i = Len(mid) + 1
    BY <1>2, <1>5
  <2>2. \A i \in 1..Len(mid') : mid'[i] \in i..Known'
    <3> SUFFICES ASSUME NEW i \in 1..Len(mid') PROVE mid'[i] \in i..Known'
      OBVIOUS
    <3>1. CASE i \in 1..Len(mid)
      <4>1. mid[i] \in i..Known /\ mid'[i] = mid[i]
        BY <1>4, <2>5, <1>5, <3>1
      <4> QED
        BY <1>2, <1>3, <4>1
    <3>2. CASE i = Len(mid) + 1
      <4>1. mid'[i] = mem.seq /\ Len(mid) + 1 <= mem.seq
        BY <1>2, <1>3, <1>4, <2>5, <1>5, <3>2
      <4> QED
        BY <1>2, <1>3, <3>2, <4>1
    <3> QED
      BY <2>1, <3>1, <3>2
  <2>3. \A i, j \in 1..Len(mid') : i < j => mid'[i] < mid'[j]
    <3> SUFFICES ASSUME NEW i \in 1..Len(mid'), NEW j \in 1..Len(mid'), i < j
                 PROVE  mid'[i] < mid'[j]
      OBVIOUS
    <3>1. i \in 1..Len(mid) /\ mid'[i] = mid[i] /\ mid[i] \in i..Known
      <4>1. i \in 1..Len(mid)
        <5>1. Len(mid') = Len(mid) + 1 /\ Len(mid) \in Nat
          BY <1>2, <1>5
        <5> QED
          BY <5>1
      <4> QED
        BY <4>1, <1>4, <2>5, <1>5
    <3>2. CASE j \in 1..Len(mid)
      <4>1. mid'[j] = mid[j]
        BY <1>5, <3>2
      <4>2. mid[i] < mid[j]
        BY <1>4, <2>5, <3>1, <3>2
      <4> QED
        BY <3>1, <4>1, <4>2
    <3>3. CASE j = Len(mid) + 1
      <4>1. mid'[j] = mem.seq
        BY <1>5, <3>3
      <4> QED
        BY <1>2, <1>3, <3>1, <4>1
    <3> QED
      BY <2>1, <3>2, <3>3
  <2>4. Known' - Len(mid') \in 0..crashes'
    BY <1>1, <1>2, <1>3, <1>4, <2>5, <1>5
  <2> QED
    BY <2>2, <2>3, <2>4
<1> QED
  BY <1>6, <1>7, <1>8 DEF IInv

(* A chunk, which may be there already.                                    *)
LEMMA IngestChunkKeeps ==
  ASSUME IInv, NEW s \in Seqs, NEW c \in 0..Chain[s]-1, IngestChunk(s, c)
  PROVE  IInv'
<1> DEFINE p == mem.pend[s]
           q == Pending(p.cnr + 1, p.rem - 1, c + 1)
           pend == IF p.rem <= 1 THEN Without(mem.pend, s) ELSE With(mem.pend, s, q)
<1>1. /\ UNCHANGED <<files, old, tmp, mid, fnt, crashes>>
      /\ pc = "idle" /\ s \in DOMAIN mem.pend /\ p.hptr = c
      /\ log' = [log EXCEPT ![s] = c + 1]
      /\ mem' = [mem EXCEPT !.pend = pend]
      /\ pc' = "persist"
  BY DEF IngestChunk
<1>2. /\ mem = fnt /\ "log.bin" \in files /\ "frontier.bin" \in files
      /\ mem.seq = Len(log) /\ mem.seq \in Nat /\ log \in Seq(Nat)
      /\ IsFrontier(mem)
  BY <1>1 DEF IInv, MemInv, FilesInv, Converting, Unsaved, TypeInv
<1>3. Sound(mem, log)
  BY <1>2 DEF IInv, DiskInv
<1>4. /\ s \in 1..mem.seq /\ Chain[s] \in Nat /\ c \in Nat /\ c < Chain[s]
      /\ c <= log[s] /\ p.rem \in Int /\ p.rem >= Chain[s] - c
  <2>1. s \in 1..Len(Chain) /\ Chain[s] \in Nat
    BY OldIs DEF IInv, Seqs
  <2>2. /\ s \in 1..mem.seq /\ p.hptr <= log[s]
        /\ p.rem \in Int /\ p.rem >= Chain[s] - p.hptr
    BY <1>1, <1>3 DEF Sound
  <2> QED
    BY <1>1, <2>1, <2>2
<1>5. /\ log' \in Seq(Nat) /\ Len(log') = Len(log) /\ log'[s] = c + 1
      /\ \A t \in 1..Len(log) : t # s => log'[t] = log[t]
  BY <1>1, <1>2, <1>4
<1>6. /\ mem'.seq = mem.seq /\ mem'.pend = pend /\ IsFrontier(mem')
  <2>1. mem = [seq |-> mem.seq, pend |-> mem.pend]
    BY <1>2 DEF IsFrontier
  <2> HIDE DEF pend
  <2>2. mem' = [seq |-> mem.seq, pend |-> pend]
    BY <1>1, <2>1
  <2> QED
    BY <2>2 DEF IsFrontier
<1>7. /\ DOMAIN pend = IF p.rem <= 1 THEN DOMAIN mem.pend \ {s} ELSE DOMAIN mem.pend
      /\ \A t \in DOMAIN mem.pend : t # s => pend[t] = mem.pend[t]
      /\ p.rem > 1 => pend[s].hptr = c + 1 /\ pend[s].rem = p.rem - 1
  <2>1. CASE p.rem <= 1
    BY <1>4, <2>1 DEF Without
  <2>2. CASE ~(p.rem <= 1)
    <3>1. q.hptr = c + 1 /\ q.rem = p.rem - 1
      BY DEF Pending
    <3> HIDE DEF q
    <3> QED
      BY <1>1, <2>2, <3>1 DEF With
  <2> QED
    BY <2>1, <2>2
<1>8. p.rem <= 1 => c + 1 = Chain[s]
  BY <1>4
<1> HIDE DEF p, q, pend
<1>9. Sound(mem', log') /\ Sound(mem, log') /\ Later(mem, mem')
  <2>1. \A t \in 1..mem.seq : t \notin DOMAIN mem.pend => t # s /\ log'[t] = Chain[t]
    BY <1>1, <1>2, <1>3, <1>5 DEF Sound
  <2>2. \A t \in 1..mem.seq : t \notin DOMAIN mem'.pend => log'[t] = Chain[t]
    BY <1>5, <1>6, <1>7, <1>8, <2>1
  <2>3. ASSUME NEW t \in DOMAIN mem.pend
        PROVE  /\ t \in 1..mem.seq
               /\ mem.pend[t].hptr \in Nat /\ mem.pend[t].hptr <= log'[t]
               /\ mem.pend[t].rem \in Int
               /\ mem.pend[t].rem >= Chain[t] - mem.pend[t].hptr
    <3>1. /\ t \in 1..mem.seq
          /\ mem.pend[t].hptr \in Nat /\ mem.pend[t].hptr <= log[t]
          /\ mem.pend[t].rem \in Int
          /\ mem.pend[t].rem >= Chain[t] - mem.pend[t].hptr
      BY <1>3 DEF Sound
    <3>2. CASE t = s
      BY <1>1, <1>4, <1>5, <3>1, <3>2 DEF p
    <3>3. CASE t # s
      BY <1>2, <1>5, <3>1, <3>3
    <3> QED
      BY <3>2, <3>3
  <2>4. ASSUME NEW t \in DOMAIN mem'.pend
        PROVE  /\ t \in 1..mem.seq
               /\ mem'.pend[t].hptr \in Nat /\ mem'.pend[t].hptr <= log'[t]
               /\ mem'.pend[t].rem \in Int
               /\ mem'.pend[t].rem >= Chain[t] - mem'.pend[t].hptr
    <3>1. t \in DOMAIN mem.pend
      BY <1>6, <1>7
    <3>2. CASE t = s
      BY <1>4, <1>5, <1>6, <1>7, <3>2
    <3>3. CASE t # s
      <4>1. mem'.pend[t] = mem.pend[t]
        BY <1>6, <1>7, <3>1, <3>3
      <4> QED
        BY <2>3, <3>1, <4>1
    <3> QED
      BY <3>2, <3>3
  <2>5. Sound(mem', log')
    BY <1>2, <1>5, <1>6, <2>2, <2>4 DEF Sound
  <2>6. Sound(mem, log')
    BY <1>2, <1>5, <2>1, <2>3 DEF Sound
  <2>7. Later(mem, mem')
    BY <1>2, <1>6, <1>7 DEF Later
  <2> QED
    BY <2>5, <2>6, <2>7
<1>10. TypeInv'
  BY <1>1, <1>2, <1>5, <1>6 DEF IInv, TypeInv, IsFrontier
<1>11. FilesInv'
  BY <1>1, <1>2 DEF IInv, FilesInv, Converting, Unsaved
<1>12. ConvertInv'
  BY <1>1 DEF ConvertInv, Converting
<1>13. DiskInv'
  BY <1>1, <1>2, <1>5, <1>9 DEF IInv, DiskInv
<1>14. MemInv'
  BY <1>1, <1>2, <1>5, <1>6, <1>9 DEF MemInv, Unsaved
<1>15. MidInv'
  <2>1. Known' = Known
    BY <1>1, <1>5 DEF Known
  <2> QED
    BY <1>1, <2>1, KnownIs, MidSame DEF IInv, TypeInv
<1> QED
  BY <1>10, <1>11, <1>12, <1>13, <1>14, <1>15 DEF IInv

(* Every step keeps the invariant.                                         *)
LEMMA NextIInv == IInv /\ [Next]_vars => IInv'
<1> SUFFICES ASSUME IInv, [Next]_vars PROVE IInv'
  OBVIOUS
<1>1. CASE UNCHANGED vars
  <2>1. /\ UNCHANGED <<author, files, old, tmp, log, mid, fnt>>
        /\ UNCHANGED <<mem, pc, crashes>>
    BY <1>1 DEF vars, disk
  <2>2. TypeInv'
    BY <2>1 DEF IInv, TypeInv, IsFrontier
  <2>3. FilesInv'
    BY <2>1 DEF IInv, FilesInv, AllFiled, Converting, Unsaved
  <2>4. ConvertInv' /\ DiskInv'
    BY <2>1 DEF IInv, ConvertInv, DiskInv, Converting, Sound
  <2>5. MemInv'
    BY <2>1 DEF IInv, MemInv, Unsaved, Sound, Later
  <2>6. Known' = Known
    BY <2>1 DEF Known
  <2>7. MidInv'
    BY <2>1, <2>6, KnownIs, MidSame DEF IInv, TypeInv
  <2> QED
    BY <2>2, <2>3, <2>4, <2>5, <2>7 DEF IInv
<1>2. CASE Upgrade
  BY <1>2, MovesKeep, OpenOldKeeps, ConvertKeeps, ConvertedKeeps, MoveLogKeeps
     DEF Upgrade
<1>3. CASE Replica
  BY <1>3, CreateKeeps, LoadKeeps, CatchUpKeeps, PersistKeeps, AddEntryKeeps,
     AppendMidKeeps, IngestChunkKeeps DEF Replica
<1>4. CASE Write \/ Crash
  BY <1>4, AddEntryKeeps, LoadKeeps
<1> QED
  BY <1>1, <1>2, <1>3, <1>4 DEF Next

(* The invariant holds in every state.                                     *)
LEMMA Invariant == Spec => []IInv
BY InitIInv, NextIInv, PTL DEF Spec

-----------------------------------------------------------------------------
(* A message whose chain is not open is complete in the log, wherever the  *)
(* process died.                                                           *)
THEOREM ClosedChainsAreStored == Spec => []ClosedIsStored
<1>1. IInv => ClosedIsStored
  <2> SUFFICES ASSUME IInv, pc = "idle" PROVE
        \A s \in 1..mem.seq : s \in DOMAIN mem.pend \/ log[s] = Chain[s]
    BY DEF ClosedIsStored
  <2>1. mem = fnt /\ "log.bin" \in files
    BY DEF IInv, MemInv, FilesInv, Converting
  <2> QED
    BY <2>1 DEF IInv, DiskInv, Sound
<1> QED
  BY <1>1, Invariant, PTL

(* mid.bin holds the IDs in order and each of them once.                   *)
THEOREM MidsAreInOrder == Spec => []MidsInOrder
<1>1. IInv => MidsInOrder
  <2> SUFFICES ASSUME IInv, pc = "idle", AllFiled PROVE MidsInOrder
    BY DEF MidsInOrder
  <2>1. mem.seq = Len(log) /\ "log.bin" \in files /\ Len(log) \in Nat
    BY KnownIs DEF IInv, MemInv, FilesInv, Converting
  <2>2. Known = mem.seq
    BY <2>1 DEF Known
  <2>3. DOMAIN mid = 1..Len(mid)
    BY DEF IInv, TypeInv
  <2> QED
    BY <2>2, <2>3 DEF IInv, MidInv, MidsInOrder
<1> QED
  BY <1>1, Invariant, PTL

(* What can be read before a step can be read after it: in three lemmas,   *)
(* for the old files, for the new ones, and for the step between the two.  *)
LEMMA KeepsOld ==
  ASSUME "log.bin" \notin files, "log.bin" \notin files', old' = old,
         "log" \in files => "log" \in files'
  PROVE  Entries \subseteq Entries' /\ Complete \subseteq Complete'
BY DEF Entries, Complete
LEMMA KeepsNew ==
  ASSUME "log.bin" \in files, "log.bin" \in files',
         fnt.seq \in Int, fnt'.seq \in Int, Later(fnt, fnt'),
         \A s \in 1..fnt.seq : s \notin DOMAIN fnt.pend => log'[s] = log[s]
  PROVE  Entries \subseteq Entries' /\ Complete \subseteq Complete'
BY DEF Entries, Complete, Later
LEMMA KeepsMoved ==
  ASSUME IInv, MoveLog
  PROVE  Entries \subseteq Entries' /\ Complete \subseteq Complete'
<1>1. /\ fnt' = fnt /\ log' = tmp /\ pc = "movelog" /\ "log.bin" \in files'
  BY DEF MoveLog, Files
<1>2. /\ "log.bin" \notin files /\ "log" \in files
      /\ fnt = mem /\ mem.seq = Len(tmp) /\ Len(tmp) = Len(old)
      /\ \A s \in DOMAIN tmp : tmp[s] = old[s]
      /\ \A s \in DOMAIN mem.pend : old[s] # Chain[s]
  BY <1>1 DEF IInv, FilesInv, ConvertInv, Converting
<1>3. DOMAIN old = 1..Len(old) /\ DOMAIN tmp = 1..Len(tmp)
  BY OldIs DEF IInv, TypeInv
<1> QED
  BY <1>1, <1>2, <1>3 DEF Entries, Complete

(* Every step keeps what can be read, but for the one that creates log.bin *)
(* in a directory that was not converted.                                  *)
LEMMA StepKeeps ==
  ASSUME IInv, [Next]_vars, ~HidesOld
  PROVE  Entries \subseteq Entries' /\ Complete \subseteq Complete'
<1>1. fnt.seq \in Int
  BY DEF IInv, TypeInv, Empty
<1>2. ASSUME "log.bin" \in files <=> "log.bin" \in files',
             "log" \in files /\ "log.bin" \notin files => "log" \in files',
             old' = old, fnt' = fnt, log' = log
      PROVE  Entries \subseteq Entries' /\ Complete \subseteq Complete'
  BY <1>1, <1>2, KeepsOld, KeepsNew DEF Later
<1>3. CASE UNCHANGED vars
  BY <1>2, <1>3 DEF vars, disk
<1>4. CASE UpToDate \/ Finish \/ DeleteLog \/ MoveMid \/ Clean \/ Convert
           \/ Abandon \/ ConvertFails
           \/ Load \/ Loaded \/ Crash \/ AppendMid \/ OpenOld
  <2>1. old' = old /\ fnt' = fnt /\ log' = log
    BY <1>4 DEF UpToDate, Finish, DeleteLog, MoveMid, Clean, Convert, Abandon,
                ConvertFails, Load, Loaded, Crash, AppendMid, OpenOld, disk
  <2>2. CASE DeleteLog
    BY <1>2, <2>1, <2>2 DEF DeleteLog, Files, IInv, FilesInv, Converting
  <2>3. CASE ~DeleteLog
    <3>1. /\ "log.bin" \in files <=> "log.bin" \in files'
          /\ "log" \in files => "log" \in files'
      BY <1>4, <2>3 DEF UpToDate, Finish, MoveMid, Clean, Convert, Abandon,
                        ConvertFails, Load, Loaded, Crash, AppendMid, OpenOld, disk,
                        Files
    <3> QED
      BY <1>2, <2>1, <3>1
  <2> QED
    BY <2>2, <2>3
<1>5. CASE Converted \/ WriteFrontier
  <2>1. "log.bin" \notin files
    BY <1>5 DEF Converted, WriteFrontier, IInv, FilesInv, Converting
  <2>2. old' = old /\ "log.bin" \notin files' /\ ("log" \in files => "log" \in files')
    BY <1>5, <2>1 DEF Converted, WriteFrontier, Files
  <2> QED
    BY <2>1, <2>2, KeepsOld
<1>6. CASE MoveLog
  BY <1>6, KeepsMoved
<1>7. CASE Create
  <2>1. /\ old' = old /\ log' = log /\ pc = "create"
        /\ files \subseteq files'
        /\ fnt' = fnt \/ ("frontier.bin" \notin files /\ fnt' = Empty)
    BY <1>7 DEF Create, Files
  <2>2. fnt' = fnt
    BY <2>1 DEF IInv, FilesInv
  <2>3. CASE "log.bin" \notin files /\ "log.bin" \in files'
    <3>1. "log" \notin files
      BY <2>1, <2>3 DEF IInv, FilesInv, HidesOld
    <3> QED
      BY <2>3, <3>1 DEF Entries, Complete
  <2>4. CASE "log.bin" \in files <=> "log.bin" \in files'
    BY <1>2, <2>1, <2>2, <2>4
  <2> QED
    BY <2>1, <2>3, <2>4
<1>8. CASE Persist
  <2>1. /\ files' = files /\ log' = log /\ fnt' = mem
        /\ pc = "newfrontier" \/ Unsaved
    BY <1>8 DEF Persist, After, Unsaved
  <2>2. "log.bin" \in files /\ mem.seq \in Int
    BY <2>1 DEF IInv, FilesInv, Converting, Unsaved, TypeInv
  <2>3. Later(fnt, mem)
    <3>1. CASE Unsaved
      BY <3>1 DEF IInv, MemInv
    <3>2. CASE pc = "newfrontier"
      BY <3>2 DEF IInv, MemInv, NewFrontier, Empty, Later
    <3> QED
      BY <2>1, <3>1, <3>2
  <2> QED
    BY <1>1, <2>1, <2>2, <2>3, KeepsNew
<1>9. ASSUME "log.bin" \in files, files' = files, fnt' = fnt,
             \A s \in 1..fnt.seq : s \notin DOMAIN fnt.pend => log'[s] = log[s]
      PROVE  Entries \subseteq Entries' /\ Complete \subseteq Complete'
  BY <1>1, <1>9, KeepsNew DEF Later
<1>10. CASE CatchUp
  <2>1. /\ files' = files /\ fnt' = fnt /\ pc = "load" /\ mem.seq + 1 <= Len(log)
        /\ log' = [log EXCEPT ![mem.seq + 1] = 0]
    BY <1>10 DEF CatchUp
  <2>2. "log.bin" \in files /\ mem = fnt /\ log \in Seq(Nat)
    BY <2>1 DEF IInv, FilesInv, Converting, MemInv, TypeInv
  <2>3. \A s \in 1..fnt.seq : log'[s] = log[s]
    BY <1>1, <2>1, <2>2
  <2> QED
    BY <1>9, <2>1, <2>2, <2>3
<1>11. CASE IngestEntry \/ Write
  <2>1. /\ files' = files /\ fnt' = fnt /\ pc = "idle" /\ mem.seq + 1 \in Seqs
        /\ log' = Append(log, 0) \/ log' = Append(log, Chain[mem.seq + 1])
    BY <1>11 DEF IngestEntry, Write, AddEntry
  <2>2. /\ "log.bin" \in files /\ mem = fnt /\ log \in Seq(Nat)
        /\ mem.seq = Len(log) /\ Len(log) \in Nat
    BY <2>1, KnownIs DEF IInv, FilesInv, Converting, MemInv, TypeInv
  <2>3. Chain[mem.seq + 1] \in Nat
    <3>1. mem.seq + 1 \in 1..Len(Chain)
      BY <2>1, OldIs DEF IInv, Seqs
    <3> QED
      BY <3>1, OldIs DEF IInv
  <2>4. PICK n \in Nat : log' = Append(log, n)
    BY <2>1, <2>3
  <2>5. \A s \in 1..fnt.seq : log'[s] = log[s]
    BY <2>2, <2>4
  <2> QED
    BY <1>9, <2>1, <2>2, <2>5
<1>12. ASSUME NEW s \in Seqs, NEW c \in 0..Chain[s]-1, IngestChunk(s, c)
       PROVE  Entries \subseteq Entries' /\ Complete \subseteq Complete'
  <2>1. /\ files' = files /\ fnt' = fnt /\ pc = "idle" /\ s \in DOMAIN mem.pend
        /\ log' = [log EXCEPT ![s] = c + 1]
    BY <1>12 DEF IngestChunk
  <2>2. /\ "log.bin" \in files /\ mem = fnt /\ log \in Seq(Nat) /\ Len(log) \in Nat
    BY <2>1, KnownIs DEF IInv, FilesInv, Converting, MemInv, TypeInv
  <2>3. fnt.seq <= Len(log)
    BY <2>2 DEF IInv, DiskInv, Sound
  <2>4. \A t \in 1..fnt.seq : t # s => log'[t] = log[t]
    BY <1>1, <2>1, <2>2, <2>3
  <2> QED
    BY <1>9, <2>1, <2>2, <2>4
<1> QED
  BY <1>3, <1>4, <1>5, <1>6, <1>7, <1>8, <1>10, <1>11, <1>12
     DEF Next, Upgrade, Replica

(* The migration and the catch-up lose no entry and no complete chain,     *)
(* wherever and however often the process dies.  The one step that does    *)
(* lose them, HidesOld, is the creation of log.bin in a directory that     *)
(* upgrade_repo left unconverted.                                          *)
THEOREM NothingIsLost == Spec => Kept
<1>1. IInv /\ [Next]_vars =>
        [~HidesOld =>
           Entries \subseteq Entries' /\ Complete \subseteq Complete']_vars
  BY StepKeeps
<1> QED
  BY <1>1, Invariant, PTL DEF Spec, Kept
=============================================================================
