------------------------- MODULE StateArchiveProofs --------------------------
(***************************************************************************)
(* Proofs that a restore is all or nothing and never without a whole state *)
(* tree, for any number of tool calls, files, failures and kills; that the *)
(* files the tools have reported go through it unharmed; and that the note *)
(* on the skills HOME carries through the archive names their changes.     *)
(***************************************************************************)
EXTENDS StateArchive, SkillSync, FiniteSetTheorems, WellFoundedInduction, TLAPS

\* The phases in which a restore has judged its archive, and in which it has copied it.
Judged  == {"copy", "copying", "aside", "install", "clean", "restored"}
Moved   == {"aside", "install", "clean", "restored"}
OldPod  == {"run", "frozen", "kept"}

\* Volumes are functions and the archive has its five parts.
IsFcn(f) == f = [m \in DOMAIN f |-> f[m]]

HasParts(a) ==
    a = [state |-> a.state, shared |-> a.shared, scrollback |-> a.scrollback, twice |-> a.twice, cut |-> a.cut]

ShapeInv == IsFcn(vol) /\ IsFcn(archive.shared) /\ HasParts(archive)

\* The phases, and what the checkpoint put into the archive: damage that changes the
\* tree is seen.
ArchiveInv ==
    /\ phase \in Steps
    /\ phase \in Judged => Accepts(archive)
    /\ phase \notin {"run", "frozen"} /\ Accepts(archive) => archive.state = source \ Excluded

\* Where the pod's whole tree is.
TreeInv ==
    /\ phase \notin OldPod /\ phase # "install" => Needed \subseteq live
    /\ phase = "install" => live = NoTree /\ Needed \subseteq backup
    /\ phase \in {"clean", "restored"} => live = archive.state

\* How far the copy into the new volume has come, over whatever an attempt before left.
CopyInv ==
    /\ phase \notin OldPod => DOMAIN vol \subseteq DOMAIN archive.shared
    /\ phase \in Judged =>
         /\ copied \subseteq DOMAIN archive.shared
         /\ \A m \in copied : m \in DOMAIN vol /\ vol[m] = archive.shared[m]
    /\ phase \in Moved => copied = DOMAIN archive.shared
    /\ phase = "refused" => live = before.live /\ vol = before.vol

IInv == ShapeInv /\ ArchiveInv /\ TreeInv /\ CopyInv

\* Putting a file on the volume, and taking files off it, leaves a function.
LEMMA PutIsFcn == ASSUME NEW name, NEW file PROVE IsFcn(Put(name, file))
  BY DEF IsFcn, Put

\* A file is put in its place and nowhere else.
LEMMA PutEffect ==
  ASSUME NEW name, NEW file, vol' = Put(name, file)
  PROVE  /\ DOMAIN vol' = {name} \cup DOMAIN vol /\ vol'[name] = file
         /\ \A m \in DOMAIN vol : m # name => vol'[m] = vol[m]
  BY DEF Put

LEMMA WithoutIsFcn == ASSUME NEW names PROVE IsFcn(Without(names))
  BY DEF IsFcn, Without

\* Whatever the tools do to the volume leaves a volume.
LEMMA ToolsKeepVolume == ASSUME IsFcn(vol), ToolNext PROVE IsFcn(vol')
<1>1. CASE AgentWrites
  BY <1>1, PutIsFcn DEF AgentWrites
<1>2. CASE KillHelper
  BY <1>2 DEF KillHelper, IsFcn
<1>3. ASSUME NEW c \in Calls, Transfer(c) PROVE IsFcn(vol')
  <2>1. CASE Prepare(c) \/ PrepareOwn(c)
    BY <2>1 DEF Prepare, PrepareOwn, IsFcn
  <2>2. CASE OpenTemp(c)
    BY <2>2, PutIsFcn DEF OpenTemp
  <2>3. CASE Receive(c)
    <3>1. vol' = Put(Staging(c), File(c)) \/ vol' = Without({Staging(c)})
      BY <2>3 DEF Receive
    <3>2. QED
      BY <3>1, PutIsFcn, WithoutIsFcn
  <2>4. CASE SecondLook(c)
    BY <2>4, WithoutIsFcn DEF SecondLook
  <2>5. CASE Rename(c)
    BY <2>5 DEF Rename, IsFcn
  <2>6. QED
    BY <1>3, <2>1, <2>2, <2>3, <2>4, <2>5 DEF Transfer
<1>4. ASSUME NEW c \in Calls, Call(c) \/ Upload(c) \/ SendTwice(c) \/ StoreForgets(c) PROVE IsFcn(vol')
  BY <1>4 DEF Call, Upload, SendChunk, Resume, Complete, SendTwice, StoreForgets
<1>5. QED
  BY <1>1, <1>2, <1>3, <1>4 DEF ToolNext

\* What damage can do to an archive: never to the shared files.
LEMMA DamageKeeps == ASSUME NEW a, HasParts(a), NEW b \in Damaged(a) PROVE b.shared = a.shared /\ HasParts(b)
  BY DEF Damaged, HasParts

\* Damage that changes the state tree is seen by restoreStateArchive.
LEMMA DamageIsSeen == ASSUME NEW a, HasParts(a), NEW b \in Damaged(a) PROVE ~Accepts(b)
<1>1. CASE b = [a EXCEPT !.cut = TRUE] \/ b = [a EXCEPT !.twice = TRUE] \/ b = [a EXCEPT !.scrollback = FALSE]
  BY <1>1 DEF HasParts, Accepts
<1>2. CASE b = [a EXCEPT !.state = NoTree] \/ b = [a EXCEPT !.state = @ \ {"home"}]
  <2>1. "home" \notin b.state
    BY <1>2 DEF HasParts, NoTree
  <2>2. QED
    BY <2>1 DEF Accepts, Needed
<1>3. CASE b = [a EXCEPT !.state = @ \cup {"outside"}]
  <2>1. "outside" \in b.state
    BY <1>3 DEF HasParts
  <2>2. QED
    BY <2>1 DEF Accepts, Refused
<1>4. QED
  BY <1>1, <1>2, <1>3 DEF Damaged

\* Volumes stay functions, the archive keeps its parts.
LEMMA ShapeStep == ASSUME IInv, [Next]_vars PROVE ShapeInv'
<1> USE DEF IInv, Go, Steps, OldPod, Judged, Moved, ShapeInv, HasParts
<1>1. ASSUME Tools PROVE ShapeInv'
  BY <1>1, ToolsKeepVolume DEF Tools, Beside, trees
<1>2. ASSUME Freeze PROVE ShapeInv'
  BY <1>2 DEF Freeze, toolRest, trees
<1>3. ASSUME WriteArchive PROVE ShapeInv'
  BY <1>3 DEF WriteArchive, toolRest, trees, NoArchive
<1>4. ASSUME NewPod PROVE ShapeInv'
  <2>1. archive' = archive \/ archive' \in Damaged(archive)
    BY <1>4 DEF NewPod
  <2>2. archive'.shared = archive.shared /\ HasParts(archive')
    BY <2>1, DamageKeeps DEF HasParts
  <2>3. IsFcn(vol')
    BY <1>4 DEF NewPod, IsFcn
  <2>4. QED
    BY <2>2, <2>3
<1>5. ASSUME Extract PROVE ShapeInv'
  BY <1>5 DEF Extract
<1>6. ASSUME NEW name \in DOMAIN archive.shared, CopyBegin(name) PROVE ShapeInv'
  BY <1>6, PutIsFcn DEF CopyBegin, trees
<1>7. ASSUME NEW name \in DOMAIN archive.shared, CopyEnd(name) PROVE ShapeInv'
  BY <1>7, PutIsFcn DEF CopyEnd, trees
<1>8. ASSUME Copied PROVE ShapeInv'
  BY <1>8 DEF Copied, trees
<1>9. ASSUME MoveAside PROVE ShapeInv'
  BY <1>9 DEF MoveAside
<1>10. ASSUME Install PROVE ShapeInv'
  BY <1>10 DEF Install
<1>11. ASSUME InstallFails PROVE ShapeInv'
  BY <1>11 DEF InstallFails
<1>12. ASSUME Clean PROVE ShapeInv'
  BY <1>12 DEF Clean
<1>13. ASSUME RestoreFails PROVE ShapeInv'
  BY <1>13 DEF RestoreFails, trees
<1>14. ASSUME KillAgent PROVE ShapeInv'
  BY <1>14 DEF KillAgent
<1>15. ASSUME AskAgain PROVE ShapeInv'
  BY <1>15 DEF AskAgain, trees
<1>16. CASE UNCHANGED vars
  BY <1>16 DEF vars, toolVars
<1>17. QED
  BY <1>1, <1>2, <1>3, <1>4, <1>5, <1>6, <1>7, <1>8, <1>9, <1>10, <1>11, <1>12, <1>13, <1>14,
      <1>15, <1>16 DEF Next

\* An archive that is accepted is the one that was written.
LEMMA ArchiveStep == ASSUME IInv, [Next]_vars PROVE ArchiveInv'
<1> USE DEF IInv, Go, Steps, OldPod, Judged, Moved, ArchiveInv, Accepts
<1>1. ASSUME Tools PROVE ArchiveInv'
  BY <1>1 DEF Tools, Beside, trees
<1>2. ASSUME Freeze PROVE ArchiveInv'
  BY <1>2 DEF Freeze, toolRest, trees
<1>3. ASSUME WriteArchive PROVE ArchiveInv'
  BY <1>3 DEF WriteArchive, toolRest, trees, NoArchive
<1>4. ASSUME NewPod PROVE ArchiveInv'
  <2>1. archive' = archive \/ archive' \in Damaged(archive)
    BY <1>4 DEF NewPod
  <2>2. Accepts(archive') => archive'.state = source \ Excluded
    BY <1>4, <2>1, DamageIsSeen DEF NewPod, ShapeInv
  <2>3. QED
    BY <1>4, <2>2 DEF NewPod
<1>5. ASSUME Extract PROVE ArchiveInv'
  BY <1>5 DEF Extract
<1>6. ASSUME NEW name \in DOMAIN archive.shared, CopyBegin(name) PROVE ArchiveInv'
  BY <1>6 DEF CopyBegin, trees
<1>7. ASSUME NEW name \in DOMAIN archive.shared, CopyEnd(name) PROVE ArchiveInv'
  BY <1>7 DEF CopyEnd, trees
<1>8. ASSUME Copied PROVE ArchiveInv'
  BY <1>8 DEF Copied, trees
<1>9. ASSUME MoveAside PROVE ArchiveInv'
  BY <1>9 DEF MoveAside
<1>10. ASSUME Install PROVE ArchiveInv'
  BY <1>10 DEF Install
<1>11. ASSUME InstallFails PROVE ArchiveInv'
  BY <1>11 DEF InstallFails
<1>12. ASSUME Clean PROVE ArchiveInv'
  BY <1>12 DEF Clean
<1>13. ASSUME RestoreFails PROVE ArchiveInv'
  BY <1>13 DEF RestoreFails, trees
<1>14. ASSUME KillAgent PROVE ArchiveInv'
  BY <1>14 DEF KillAgent
<1>15. ASSUME AskAgain PROVE ArchiveInv'
  BY <1>15 DEF AskAgain, trees
<1>16. CASE UNCHANGED vars
  BY <1>16 DEF vars, toolVars
<1>17. QED
  BY <1>1, <1>2, <1>3, <1>4, <1>5, <1>6, <1>7, <1>8, <1>9, <1>10, <1>11, <1>12, <1>13, <1>14,
      <1>15, <1>16 DEF Next

\* The old tree is there until the new one is.
LEMMA TreeStep == ASSUME IInv, [Next]_vars PROVE TreeInv'
<1> USE DEF IInv, Go, Steps, OldPod, Judged, Moved, TreeInv, ArchiveInv, Accepts, Needed,
    NoTree, Boot
<1>1. ASSUME Tools PROVE TreeInv'
  BY <1>1 DEF Tools, Beside, trees
<1>2. ASSUME Freeze PROVE TreeInv'
  BY <1>2 DEF Freeze, toolRest, trees
<1>3. ASSUME WriteArchive PROVE TreeInv'
  BY <1>3 DEF WriteArchive, toolRest, trees, NoArchive
<1>4. ASSUME NewPod PROVE TreeInv'
  BY <1>4 DEF NewPod, Damaged
<1>5. ASSUME Extract PROVE TreeInv'
  BY <1>5 DEF Extract
<1>6. ASSUME NEW name \in DOMAIN archive.shared, CopyBegin(name) PROVE TreeInv'
  BY <1>6 DEF CopyBegin, trees
<1>7. ASSUME NEW name \in DOMAIN archive.shared, CopyEnd(name) PROVE TreeInv'
  BY <1>7 DEF CopyEnd, trees
<1>8. ASSUME Copied PROVE TreeInv'
  BY <1>8 DEF Copied, trees
<1>9. ASSUME MoveAside PROVE TreeInv'
  BY <1>9 DEF MoveAside
<1>10. ASSUME Install PROVE TreeInv'
  BY <1>10 DEF Install
<1>11. ASSUME InstallFails PROVE TreeInv'
  BY <1>11 DEF InstallFails
<1>12. ASSUME Clean PROVE TreeInv'
  BY <1>12 DEF Clean
<1>13. ASSUME RestoreFails PROVE TreeInv'
  BY <1>13 DEF RestoreFails, trees
<1>14. ASSUME KillAgent PROVE TreeInv'
  <2>1. Needed \subseteq live'
    BY <1>14 DEF KillAgent
  <2>2. QED
    BY <1>14, <2>1 DEF KillAgent
<1>15. ASSUME AskAgain PROVE TreeInv'
  BY <1>15 DEF AskAgain, trees
<1>16. CASE UNCHANGED vars
  BY <1>16 DEF vars, toolVars
<1>17. QED
  BY <1>1, <1>2, <1>3, <1>4, <1>5, <1>6, <1>7, <1>8, <1>9, <1>10, <1>11, <1>12, <1>13, <1>14,
      <1>15, <1>16 DEF Next

\* The copy ends with the volume that was archived.
LEMMA CopyStep == ASSUME IInv, [Next]_vars PROVE CopyInv'
<1> USE DEF IInv, Go, Steps, OldPod, Judged, Moved, CopyInv
<1>1. ASSUME Tools PROVE CopyInv'
  BY <1>1 DEF Tools, Beside, trees
<1>2. ASSUME Freeze PROVE CopyInv'
  BY <1>2 DEF Freeze, toolRest, trees
<1>3. ASSUME WriteArchive PROVE CopyInv'
  BY <1>3 DEF WriteArchive, toolRest, trees, NoArchive
<1>4. ASSUME NewPod PROVE CopyInv'
  BY <1>4 DEF NewPod, Damaged
<1>5. ASSUME Extract PROVE CopyInv'
  BY <1>5 DEF Extract
<1>6. ASSUME NEW name \in DOMAIN archive.shared, CopyBegin(name) PROVE CopyInv'
  <2>1. /\ archive' = archive /\ copied' = copied /\ phase = "copy" /\ phase' = "copying"
        /\ copied # DOMAIN archive.shared
    BY <1>6 DEF CopyBegin, trees
  <2>2. name \in DOMAIN archive.shared \ copied
    BY <1>6, <2>1 DEF CopyBegin, NextToCopy
  <2>3. DOMAIN vol' = {name} \cup DOMAIN vol /\ \A m \in DOMAIN vol : m # name => vol'[m] = vol[m]
    <3>1. PICK file : vol' = Put(name, file)
      BY <1>6 DEF CopyBegin
    <3>2. QED
      BY <3>1, PutEffect, Zenon
  <2>4. QED
    BY <2>1, <2>2, <2>3
<1>7. ASSUME NEW name \in DOMAIN archive.shared, CopyEnd(name) PROVE CopyInv'
  <2>1. archive' = archive /\ copied' = copied \cup {name} /\ phase = "copying" /\ phase' = "copy"
    BY <1>7 DEF CopyEnd, trees
  <2>2. /\ DOMAIN vol' = {name} \cup DOMAIN vol /\ vol'[name] = archive.shared[name]
        /\ \A m \in DOMAIN vol : m # name => vol'[m] = vol[m]
    BY <1>7, PutEffect, Zenon DEF CopyEnd
  <2>3. QED
    BY <2>1, <2>2
<1>8. ASSUME Copied PROVE CopyInv'
  BY <1>8 DEF Copied, trees
<1>9. ASSUME MoveAside PROVE CopyInv'
  BY <1>9 DEF MoveAside
<1>10. ASSUME Install PROVE CopyInv'
  BY <1>10 DEF Install
<1>11. ASSUME InstallFails PROVE CopyInv'
  BY <1>11 DEF InstallFails
<1>12. ASSUME Clean PROVE CopyInv'
  BY <1>12 DEF Clean
<1>13. ASSUME RestoreFails PROVE CopyInv'
  BY <1>13 DEF RestoreFails, trees
<1>14. ASSUME KillAgent PROVE CopyInv'
  BY <1>14 DEF KillAgent
<1>15. ASSUME AskAgain PROVE CopyInv'
  BY <1>15 DEF AskAgain, trees
<1>16. CASE UNCHANGED vars
  BY <1>16 DEF vars, toolVars
<1>17. QED
  BY <1>1, <1>2, <1>3, <1>4, <1>5, <1>6, <1>7, <1>8, <1>9, <1>10, <1>11, <1>12, <1>13, <1>14,
      <1>15, <1>16 DEF Next

\* A running pod without an archive satisfies the invariant.
LEMMA InitHolds == Init => IInv
  BY DEF Init, VolInit, IInv, ShapeInv, IsFcn, HasParts, ArchiveInv, TreeInv, CopyInv,
         NoArchive, Steps, OldPod, Judged, Moved

\* The invariant of checkpoint and restore: where the whole tree is, what the archive
\* holds and how far the copy has come.
THEOREM InvHolds == Spec => []IInv
<1>1. IInv /\ [Next]_vars => IInv'
  BY ShapeStep, ArchiveStep, TreeStep, CopyStep DEF IInv
<1>2. QED
  BY <1>1, InitHolds, PTL DEF Spec

\* At every moment of a restore the pod has a whole state tree, in place or moved aside
\* (installClaudeState).
THEOREM TreeIsNeverLost == Spec => []OldUntilNew
<1>1. IInv => OldUntilNew
  BY DEF IInv, TreeInv, OldUntilNew, OldPod
<1>2. QED
  BY <1>1, InvHolds, PTL

\* A restore that succeeds leaves the checkpointed tree and volume, one that refuses its
\* archive leaves everything as it found it (restoreStateArchive, copyRestoredTree).
THEOREM AllOrNothing == Spec => []RestoreIsAllOrNothing
<1>1. ASSUME IInv, phase = "restored" PROVE live = source \ Excluded /\ vol = archive.shared
  <2>1. live = source \ Excluded
    BY <1>1 DEF IInv, TreeInv, ArchiveInv, Judged
  <2>2. DOMAIN vol = DOMAIN archive.shared /\ \A m \in DOMAIN vol : vol[m] = archive.shared[m]
    BY <1>1 DEF IInv, CopyInv, Judged, Moved, OldPod
  <2>3. QED
    BY <1>1, <2>1, <2>2 DEF IInv, ShapeInv, IsFcn
<1>2. IInv => RestoreIsAllOrNothing
  BY <1>1 DEF IInv, CopyInv, RestoreIsAllOrNothing
<1>3. QED
  BY <1>2, InvHolds, PTL

-----------------------------------------------------------------------------
(***************************************************************************)
(* The files the tools report, from the volume they are put on, through    *)
(* the archive, to the volume of the new pod.                              *)
(***************************************************************************)

\* A call has its seven parts, and its steps are those of its kind.
Shaped(x) ==
    x = [kind |-> x.kind, pc |-> x.pc, overwrite |-> x.overwrite, n |-> x.n, gap |-> x.gap,
         offset |-> x.offset, resumes |-> x.resumes]

SoundCall(x, files) ==
    /\ Shaped(x) /\ x.kind \in Kinds \cup {"none"}
    /\ x.kind = "none" => x.pc = "idle"
    /\ x.pc = "idle" => x.kind = "none" /\ x.n = 1
    /\ x.kind = "drop_upload" => x.pc \in {"send", "done", "failed"}
    /\ x.kind \in {"spill", "clone"} =>
         x.n = 1 /\ x.pc \in {"look", "fetch", "receive", "rename", "done", "failed"}
    /\ x.kind = "drop_download" =>
         x.n \in 1 .. files /\ x.pc \in {"look", "fetch", "receive", "check", "rename", "done", "failed"}

CallInv ==
    /\ listing \in Drops /\ calls = [c \in Calls |-> calls[c]]
    /\ \A c \in Calls : SoundCall(calls[c], Len(listing))
    /\ phase \notin OldPod => \A c \in Calls : calls[c].pc = "idle"

\* What a call has reported it has placed: under the name that is its alone when it is
\* done, and at the place of each file of a drop that it is past.
ToldBy(r, x, places, files) ==
    \/ x.kind \in {"spill", "clone"} /\ x.pc = "done" /\ r.name = Own(r.file.by)
    \/ /\ x.kind = "drop_download" /\ r.file.n \in 1 .. files /\ r.name = places[r.file.n]
       /\ x.pc \in {"done", "failed"} \/ r.file.n < x.n

TellInv ==
    \A r \in reported :
        r.file.by \in Calls /\ (phase \in OldPod => ToldBy(r, calls[r.file.by], Places, Len(listing)))

\* It is on the old pod's volume, and from the checkpoint on in the archive.
AllOn(files, volume) == \A r \in files : r.name \in DOMAIN volume /\ volume[r.name] = r.file

HoldInv ==
    /\ phase \in OldPod => AllOn(reported, vol)
    /\ phase \notin {"run", "frozen"} => AllOn(reported, archive.shared)

\* A download that may not overwrite and is about to rename was told of a file there.
Warned(x, place, names) ==
    x.pc = "rename" /\ x.kind = "drop_download" /\ ~x.overwrite /\ place \in names => x.gap

GapInv == \A c \in Calls : Warned(calls[c], Places[calls[c].n], DOMAIN vol)

FileInv == CallInv /\ TellInv /\ HoldInv /\ GapInv

\* One step of the loop that gives the files of a drop their places.
Held(f, n, k) == \E m \in 1 .. n - 1 : f[m] = Numbered(dropSafeName(listing[n], n), n, k)
FirstFree(f, n) == CHOOSE k \in 0 .. n : ~Held(f, n, k) /\ \A j \in 0 .. k - 1 : Held(f, n, j)
PlaceStep(f) == [n \in 1 .. Len(listing) |-> Numbered(dropSafeName(listing[n], n), n, FirstFree(f, n))]

\* The parts of a name.
LEMMA NameParts ==
  ASSUME NEW b, NEW t, NEW a
  PROVE  Name(b, t, a).pre = b /\ Name(b, t, a).text = t /\ Name(b, t, a).post = a
  BY DEF Name

\* The places are the ones the loop gives, if it gives any.
LEMMA PlacesLoop ==
  ASSUME NEW f, f = PlaceStep(f)
  PROVE  Places = PlaceStep(Places)
<1> DEFINE it == CHOOSE g : g = PlaceStep(g)
<1>1. it = PlaceStep(it)
  <2>1. \E g : g = PlaceStep(g)
    OBVIOUS
  <2>2. QED
    BY <2>1
<1>2. Places = it
  BY DEF Places, PlaceStep, FirstFree, Held
<1>3. QED
  BY <1>1, <1>2

\* Every name of a drop is made one that may stand in a directory.
LEMMA SafeNames ==
  ASSUME listing \in Drops
  PROVE  /\ Len(listing) \in Nat /\ Len(listing) >= 1
         /\ \A n \in 1 .. Len(listing) :
              /\ dropSafeName(listing[n], n).pre \in Seq(Nat)
              /\ dropSafeName(listing[n], n).text \in {"x", "file", "_.part"}
<1>1. listing \in Seq(DropNames) /\ listing # << >>
  BY VolumeToolsAssumption
<1>2. Len(listing) \in Nat /\ Len(listing) >= 1
  BY <1>1
<1>3. ASSUME NEW n \in 1 .. Len(listing)
      PROVE  /\ dropSafeName(listing[n], n).pre \in Seq(Nat)
             /\ dropSafeName(listing[n], n).text \in {"x", "file", "_.part"}
  <2>1. listing[n] \in DropNames
    BY <1>1
  <2>2. listing[n].pre \in Seq(Nat) /\ listing[n].text \in {"x", "file", "_.part", ".part", ".."}
    <3>1. << >> \in Seq(Nat)
      OBVIOUS
    <3>2. CASE listing[n] \in [pre: Seq(Nat), text: {"x", "file", "_.part"}, post: Seq(Nat)]
      BY <3>2
    <3>3. CASE listing[n] \in [pre: {<< >>}, text: {".part", ".."}, post: Seq(Nat)]
      BY <3>1, <3>3
    <3>4. QED
      BY <2>1, <3>2, <3>3 DEF DropNames
  <2>3. CASE listing[n].text = ".."
    <3>1. dropSafeName(listing[n], n) = Name(<< >>, "file", <<n - 1>>)
      BY <2>3 DEF dropSafeName
    <3>2. << >> \in Seq(Nat)
      OBVIOUS
    <3>3. QED
      BY <3>1, <3>2 DEF Name
  <2>4. CASE listing[n].text = ".part"
    <3>1. dropSafeName(listing[n], n) = Name(<< >>, "_.part", listing[n].post)
      BY <2>4 DEF dropSafeName
    <3>2. << >> \in Seq(Nat)
      OBVIOUS
    <3>3. QED
      BY <3>1, <3>2 DEF Name
  <2>5. CASE listing[n].text \in {"x", "file", "_.part"}
    BY <2>2, <2>5 DEF dropSafeName
  <2>6. QED
    BY <2>2, <2>3, <2>4, <2>5
<1>4. QED
  BY <1>2, <1>3

\* A name numbered a different number of times is a different name.
LEMMA CandidatesApart ==
  ASSUME NEW b, b.pre \in Seq(Nat), NEW n \in Nat, n > 0, NEW j \in Nat, NEW k \in Nat,
         Numbered(b, n, j) = Numbered(b, n, k)
  PROVE  j = k
<1> DEFINE digits(i) == [x \in 1 .. i |-> n - 1]
<1>1. ASSUME NEW i \in Nat PROVE digits(i) \in Seq(Nat) /\ Len(digits(i)) = i
  <2>1. digits(i) \in [1 .. i -> Nat]
    OBVIOUS
  <2>2. QED
    BY <2>1
<1>2. Numbered(b, n, j).pre = digits(j) \o b.pre /\ Numbered(b, n, k).pre = digits(k) \o b.pre
  BY DEF Numbered, Name
<1> HIDE DEF digits
<1>3. digits(j) \in Seq(Nat) /\ Len(digits(j)) = j /\ digits(k) \in Seq(Nat) /\ Len(digits(k)) = k
  BY <1>1
<1>4. Len(digits(j) \o b.pre) = j + Len(b.pre) /\ Len(digits(k) \o b.pre) = k + Len(b.pre)
  <2>1. \A s, t \in Seq(Nat) : Len(s \o t) = Len(s) + Len(t)
    OBVIOUS
  <2>2. QED
    BY <1>3, <2>1
<1>5. Len(b.pre) \in Nat
  OBVIOUS
<1>6. QED
  BY <1>2, <1>4, <1>5

\* The files before the n-th hold fewer names than it has candidates, so one is free.
LEMMA SomeFree ==
  ASSUME listing \in Drops, NEW n \in 1 .. Len(listing), NEW f
  PROVE  \E k \in 0 .. n : ~Held(f, n, k)
<1> DEFINE safe == dropSafeName(listing[n], n)
           S == 0 .. n - 1
           T == 1 .. n - 1
<1>0. n \in Nat /\ n > 0 /\ safe.pre \in Seq(Nat)
  BY SafeNames
<1>1. SUFFICES ASSUME \A k \in 0 .. n : Held(f, n, k) PROVE FALSE
  OBVIOUS
<1>2. \A k \in S : \E m \in T : f[m] = Numbered(safe, n, k)
  BY <1>0, <1>1 DEF Held
<1> HIDE DEF safe
<1> DEFINE g == [k \in S |-> CHOOSE m \in T : f[m] = Numbered(safe, n, k)]
<1>3. \A k \in S : g[k] \in T /\ f[g[k]] = Numbered(safe, n, k)
  BY <1>2
<1>4. IsFiniteSet(S) /\ IsFiniteSet(T) /\ Cardinality(S) = n /\ Cardinality(T) = n - 1
  <2>1. 0 \in Int /\ 1 \in Int /\ n - 1 \in Int
    BY <1>0
  <2>2. /\ IsFiniteSet(S) /\ Cardinality(S) = IF 0 > n - 1 THEN 0 ELSE n - 1 - 0 + 1
        /\ IsFiniteSet(T) /\ Cardinality(T) = IF 1 > n - 1 THEN 0 ELSE n - 1 - 1 + 1
    BY <2>1, FS_Interval
  <2>3. QED
    BY <1>0, <2>2
<1>5. g \in [S -> T]
  BY <1>3
<1>6. \E x, y \in S : x # y /\ g[x] = g[y]
  <2>1. Cardinality(T) < Cardinality(S)
    BY <1>0, <1>4
  <2> HIDE DEF g, S, T
  <2>2. QED
    BY <1>4, <1>5, <2>1, FS_PigeonHole
<1>7. PICK x \in S, y \in S : x # y /\ g[x] = g[y]
  BY <1>6
<1>8. Numbered(safe, n, x) = Numbered(safe, n, y)
  BY <1>3, <1>7
<1>9. x \in Nat /\ y \in Nat
  BY <1>0
<1>10. QED
  BY <1>0, <1>7, <1>8, <1>9, CandidatesApart

\* Every set of numbers has a least one.
LEMMA LeastNatural == ASSUME NEW T, T \subseteq Nat, T # {} PROVE \E x \in T : \A y \in T : x <= y
<1>1. IsWellFoundedOn(OpToRel(<, Nat), Nat)
  BY NatLessThanWellFounded
<1>2. \E x \in T : \A y \in T : ~(<<y, x>> \in OpToRel(<, Nat))
  BY <1>1, WFMin
<1>3. \A x, y \in Nat : y < x => <<y, x>> \in OpToRel(<, Nat)
  BY SMT DEF OpToRel
<1>4. PICK x \in T : \A y \in T : ~(<<y, x>> \in OpToRel(<, Nat))
  BY <1>2
<1>5. ASSUME NEW y \in T PROVE x <= y
  <2>1. x \in Nat /\ y \in Nat /\ ~(y < x)
    BY <1>3, <1>4
  <2>2. QED
    BY <2>1
<1>6. QED
  BY <1>5

\* The name a file is given is the first of its candidates that is free.
IsFree(f, n, k) == ~Held(f, n, k) /\ \A j \in 0 .. k - 1 : Held(f, n, j)

LEMMA FirstIsFree ==
  ASSUME listing \in Drops, NEW n \in 1 .. Len(listing), NEW f
  PROVE  FirstFree(f, n) \in 0 .. n /\ IsFree(f, n, FirstFree(f, n))
<1> DEFINE T == {k \in 0 .. n : ~Held(f, n, k)}
<1>0. n \in Nat
  BY SafeNames
<1>1. T # {} /\ T \subseteq Nat
  BY <1>0, SomeFree
<1>2. PICK k \in T : \A j \in T : k <= j
  <2> HIDE DEF T
  <2>1. QED
    BY <1>1, LeastNatural
<1>3. k \in 0 .. n /\ IsFree(f, n, k)
  BY <1>0, <1>2 DEF IsFree
<1>4. \E i \in 0 .. n : IsFree(f, n, i)
  BY <1>3
<1>5. FirstFree(f, n) = CHOOSE i \in 0 .. n : IsFree(f, n, i)
  BY DEF FirstFree, IsFree
<1>6. QED
  BY <1>4, <1>5

\* It depends on the names of the files before alone.
LEMMA FirstAgrees ==
  ASSUME listing \in Drops, NEW n \in 1 .. Len(listing), NEW f, NEW g, \A m \in 1 .. n - 1 : f[m] = g[m]
  PROVE  FirstFree(f, n) = FirstFree(g, n)
<1>0. n \in Nat
  BY SafeNames
<1>1. \A k : Held(f, n, k) <=> Held(g, n, k)
  BY DEF Held
<1>2. /\ FirstFree(f, n) \in 0 .. n /\ IsFree(f, n, FirstFree(f, n))
      /\ FirstFree(g, n) \in 0 .. n /\ IsFree(f, n, FirstFree(g, n))
  BY <1>1, FirstIsFree DEF IsFree
<1>3. \A j, k \in 0 .. n : IsFree(f, n, j) /\ IsFree(f, n, k) => ~(j < k)
  BY <1>0 DEF IsFree
<1>4. QED
  BY <1>0, <1>2, <1>3

\* The loop gives a place to every file: were there a first one it gives none to, the
\* places of those before it would be extended by one.
Upto(f, i) == f = [n \in 1 .. i |-> Numbered(dropSafeName(listing[n], n), n, FirstFree(f, n))]

LEMMA LoopGives ==
  ASSUME listing \in Drops
  PROVE  \E f : f = PlaceStep(f)
<1> DEFINE T == {i \in 0 .. Len(listing) : ~\E f : Upto(f, i)}
<1>0. Len(listing) \in Nat
  BY SafeNames
<1>1. SUFFICES ASSUME T # {} PROVE FALSE
  <2>1. T = {} => \E f : Upto(f, Len(listing))
    BY <1>0
  <2>2. QED
    BY <1>1, <2>1 DEF Upto, PlaceStep
<1>2. PICK i \in T : \A j \in T : i <= j
  <2>1. T \subseteq Nat
    BY <1>0
  <2> HIDE DEF T
  <2>2. QED
    BY <1>1, <2>1, LeastNatural
<1>3. i \in Nat /\ i <= Len(listing) /\ ~\E f : Upto(f, i)
  BY <1>0, <1>2
<1>4. i > 0
  <2>1. SUFFICES ASSUME i = 0 PROVE FALSE
    BY <1>3
  <2> DEFINE e == [n \in 1 .. 0 |-> 0]
  <2>2. e = [n \in 1 .. 0 |-> Numbered(dropSafeName(listing[n], n), n, FirstFree(e, n))]
    OBVIOUS
  <2>3. Upto(e, 0)
    BY <2>2 DEF Upto
  <2>4. QED
    BY <1>3, <2>1, <2>3
<1>5. i - 1 \in 0 .. Len(listing) /\ i - 1 \notin T
  BY <1>0, <1>2, <1>3, <1>4
<1>6. PICK f : Upto(f, i - 1)
  BY <1>5
<1> DEFINE new == Numbered(dropSafeName(listing[i], i), i, FirstFree(f, i))
           g == [n \in 1 .. i |-> IF n < i THEN f[n] ELSE new]
<1>7. ASSUME NEW n \in 1 .. i PROVE FirstFree(g, n) = FirstFree(f, n)
  <2>1. n \in 1 .. Len(listing) /\ \A m \in 1 .. n - 1 : g[m] = f[m]
    BY <1>0, <1>3
  <2> HIDE DEF g
  <2>2. QED
    BY <2>1, FirstAgrees
<1>8. ASSUME NEW n \in 1 .. i PROVE g[n] = Numbered(dropSafeName(listing[n], n), n, FirstFree(g, n))
  <2>1. CASE n = i
    <3>1. g[n] = new
      BY <1>3, <1>4, <2>1
    <3>2. FirstFree(g, n) = FirstFree(f, i)
      BY <1>7, <2>1
    <3>3. QED
      BY <2>1, <3>1, <3>2
  <2>2. CASE n # i
    <3>1. n \in 1 .. i - 1 /\ n < i
      BY <1>3, <2>2
    <3>2. g[n] = f[n]
      BY <3>1
    <3>3. f[n] = Numbered(dropSafeName(listing[n], n), n, FirstFree(f, n))
      BY <1>6, <3>1 DEF Upto
    <3>4. FirstFree(g, n) = FirstFree(f, n)
      BY <1>7
    <3>5. QED
      BY <3>2, <3>3, <3>4
  <2>3. QED
    BY <2>1, <2>2
<1>9. g = [n \in 1 .. i |-> g[n]]
  OBVIOUS
<1> HIDE DEF g
<1>10. Upto(g, i)
  BY <1>8, <1>9 DEF Upto
<1>11. QED
  BY <1>3, <1>10

\* Two files of a drop never share a place, and no place is a name the tools keep for
\* themselves (dropSafeName, callDropDownload).
LEMMA PlacesApart ==
  ASSUME listing \in Drops
  PROVE  /\ Len(listing) \in Nat /\ Len(listing) >= 1
         /\ \A n \in 1 .. Len(listing) : Places[n].text \in {"x", "file", "_.part"}
         /\ \A m, n \in 1 .. Len(listing) : Places[m] = Places[n] => m = n
<1>1. Places = PlaceStep(Places)
  BY LoopGives, PlacesLoop
<1>2. ASSUME NEW n \in 1 .. Len(listing)
      PROVE  Places[n] = Numbered(dropSafeName(listing[n], n), n, FirstFree(Places, n))
  BY <1>1 DEF PlaceStep
<1>3. ASSUME NEW n \in 1 .. Len(listing) PROVE Places[n].text \in {"x", "file", "_.part"}
  <2>1. Places[n].text = dropSafeName(listing[n], n).text
    <3>1. \A b, k : Numbered(b, n, k).text = b.text
      BY DEF Numbered, Name
    <3>2. Places[n] = Numbered(dropSafeName(listing[n], n), n, FirstFree(Places, n))
      BY <1>2
    <3>3. QED
      BY <3>1, <3>2
  <2>2. QED
    BY <2>1, SafeNames
<1>4. ASSUME NEW m \in 1 .. Len(listing), NEW n \in 1 .. Len(listing), m < n
      PROVE  Places[m] # Places[n]
  <2>1. ~Held(Places, n, FirstFree(Places, n))
    BY FirstIsFree DEF IsFree
  <2>2. m \in 1 .. n - 1
    BY <1>4, SafeNames
  <2>3. QED
    BY <1>2, <2>1, <2>2 DEF Held
<1>5. ASSUME NEW m \in 1 .. Len(listing), NEW n \in 1 .. Len(listing), Places[m] = Places[n]
      PROVE  m = n
  <2>1. m \in Nat /\ n \in Nat /\ ~(m < n) /\ ~(n < m)
    BY <1>4, <1>5, SafeNames
  <2>2. QED
    BY <2>1
<1>6. QED
  BY <1>3, <1>5, SafeNames

\* The names a call keeps for itself are nobody else's.
LEMMA OwnNames ==
  ASSUME NEW c, NEW d
  PROVE  /\ Temp(c) # Own(d) /\ (Own(c) = Own(d) => c = d)
         /\ Temp(c).text = ".part" /\ Own(c).text = "req"
<1>1. <<c>> = <<d>> => c = d
  OBVIOUS
<1>2. QED
  BY <1>1, NameParts DEF Temp, Own, Name

\* The listing never changes, and with it the places.
LEMMA PlacesStay == ASSUME listing' = listing PROVE Places' = Places /\ Len(listing') = Len(listing)
  BY DEF Places, Numbered, dropSafeName, Name

\* Two calls of one kind at one file.
Alike(x, y) == Shaped(y) /\ y.kind = x.kind /\ y.overwrite = x.overwrite /\ y.n = x.n

\* One call of the function changes.
Only(c) == calls' = [d \in Calls |-> calls'[d]] /\ \A d \in Calls : d # c => calls'[d] = calls[d]

LEMMA PcMoves ==
  ASSUME CallInv, NEW c \in Calls, NEW p, calls' = [calls EXCEPT ![c].pc = p]
  PROVE  Only(c) /\ Alike(calls[c], calls'[c]) /\ calls'[c].pc = p /\ calls'[c].gap = calls[c].gap
<1>1. calls'[c] = [calls[c] EXCEPT !.pc = p] /\ Only(c)
  BY DEF CallInv, Only
<1>2. Shaped(calls[c])
  BY DEF CallInv, SoundCall
<1>3. QED
  BY <1>1, <1>2 DEF Shaped, Alike

\* A step that leaves the volume alone, and what the calls have reported true.
QuietStep ==
    /\ vol' = vol /\ reported' = reported /\ listing' = listing
    /\ calls' = [d \in Calls |-> calls'[d]]
    /\ \A d \in Calls :
         /\ SoundCall(calls'[d], Len(listing))
         /\ \A r : ToldBy(r, calls[d], Places, Len(listing)) => ToldBy(r, calls'[d], Places, Len(listing))
         /\ calls'[d].pc = "rename" => calls'[d] = calls[d]

LEMMA QuietKeeps ==
  ASSUME FileInv, phase \in {"run", "frozen"}, phase' = phase, archive' = archive, QuietStep
  PROVE  FileInv'
<1>1. Places' = Places /\ Len(listing') = Len(listing)
  BY PlacesStay DEF QuietStep
<1>2. CallInv'
  BY <1>1 DEF FileInv, CallInv, QuietStep, OldPod
<1>3. TellInv'
  BY <1>1 DEF FileInv, TellInv, QuietStep, OldPod
<1>4. HoldInv'
  BY DEF FileInv, HoldInv, QuietStep, OldPod
<1>5. GapInv'
  BY <1>1 DEF FileInv, GapInv, Warned, QuietStep
<1>6. QED
  BY <1>2, <1>3, <1>4, <1>5 DEF FileInv

\* A step of a transfer before its rename: it touches its own staging name only.
SameBut(name, v, w) == \A m : m # name => (m \in DOMAIN w <=> m \in DOMAIN v) /\ (m \in DOMAIN v => w[m] = v[m])

SideStep(c) ==
    /\ listing' = listing /\ reported' = reported
    /\ Only(c) /\ Alike(calls[c], calls'[c])
    /\ calls[c].kind \in {"drop_download", "spill", "clone"} /\ calls[c].pc \notin {"idle", "done", "failed"}
    /\ \/ calls'[c].pc \in {"fetch", "receive", "rename", "failed"}
       \/ calls'[c].pc = "check" /\ calls[c].kind = "drop_download"
    /\ calls[c].kind = "drop_download" /\ calls'[c].pc = "rename" =>
         (calls[c].overwrite \/ Places[calls[c].n] \notin DOMAIN vol) /\ vol' = vol
    /\ SameBut(Staging(c), vol, vol')

\* No report names what a transfer stages.
LEMMA StagingIsFree ==
  ASSUME CallInv, NEW c \in Calls, calls[c].pc # "done",
         NEW r, r.file.by \in Calls, ToldBy(r, calls[r.file.by], Places, Len(listing))
  PROVE  r.name # Temp(c) /\ r.name # Staging(c)
<1>1. CASE /\ calls[r.file.by].kind \in {"spill", "clone"} /\ calls[r.file.by].pc = "done"
           /\ r.name = Own(r.file.by)
  <2>1. r.file.by # c
    BY <1>1
  <2>2. QED
    BY <1>1, <2>1, OwnNames DEF Staging
<1>2. CASE r.file.n \in 1 .. Len(listing) /\ r.name = Places[r.file.n]
  <2>1. r.name.text \in {"x", "file", "_.part"}
    BY <1>2, PlacesApart DEF CallInv
  <2>2. QED
    BY <2>1, OwnNames DEF Staging
<1>3. QED
  BY <1>1, <1>2 DEF ToldBy

LEMMA SideKeeps ==
  ASSUME FileInv, phase \in {"run", "frozen"}, phase' = phase, archive' = archive, NEW c \in Calls, SideStep(c)
  PROVE  FileInv'
<1> USE DEF FileInv
<1>1. Places' = Places /\ Len(listing') = Len(listing)
  BY PlacesStay DEF SideStep
<1>2. SoundCall(calls'[c], Len(listing))
  BY DEF CallInv, SoundCall, SideStep, Alike
<1>3. CallInv'
  BY <1>1, <1>2 DEF CallInv, SideStep, Only, OldPod
<1>4. ASSUME NEW r \in reported PROVE ToldBy(r, calls'[r.file.by], Places, Len(listing)) /\ r.file.by \in Calls
  <2>1. ToldBy(r, calls[r.file.by], Places, Len(listing)) /\ r.file.by \in Calls
    BY DEF TellInv, OldPod
  <2>2. CASE r.file.by # c
    BY <2>1, <2>2 DEF SideStep, Only
  <2>3. CASE r.file.by = c
    BY <2>1, <2>3 DEF SideStep, Alike, ToldBy
  <2>4. QED
    BY <2>2, <2>3
<1>5. TellInv'
  BY <1>1, <1>4 DEF TellInv, SideStep
<1>6. AllOn(reported, vol')
  <2>1. ASSUME NEW r \in reported PROVE r.name # Staging(c) /\ r.name \in DOMAIN vol /\ vol[r.name] = r.file
    <3>1. r.file.by \in Calls /\ ToldBy(r, calls[r.file.by], Places, Len(listing))
      BY DEF TellInv, OldPod
    <3>2. QED
      BY <3>1, StagingIsFree DEF SideStep, HoldInv, AllOn, OldPod
  <2>2. QED
    BY <2>1 DEF AllOn, SideStep, SameBut
<1>7. HoldInv'
  BY <1>6 DEF HoldInv, SideStep
<1>8. GapInv'
  <2>1. ASSUME NEW d \in Calls PROVE Warned(calls'[d], Places[calls'[d].n], DOMAIN vol')
    <3>1. CASE d = c
      BY <3>1 DEF SideStep, Alike, Warned
    <3>2. CASE d # c /\ calls[d].kind = "drop_download"
      <4>1. Places[calls[d].n].text \in {"x", "file", "_.part"}
        BY <3>2, PlacesApart DEF CallInv, SoundCall
      <4>2. Places[calls[d].n] # Staging(c)
        BY <4>1, OwnNames DEF Staging
      <4>3. Places[calls[d].n] \in DOMAIN vol' <=> Places[calls[d].n] \in DOMAIN vol
        BY <4>2 DEF SideStep, SameBut
      <4>4. QED
        BY <3>2, <4>3 DEF GapInv, Warned, SideStep, Only
    <3>3. CASE d # c /\ calls[d].kind # "drop_download"
      BY <3>3 DEF SideStep, Only, Warned
    <3>4. QED
      BY <3>1, <3>2, <3>3
  <2>2. QED
    BY <1>1, <2>1 DEF GapInv
<1>9. QED
  BY <1>3, <1>5, <1>7, <1>8

\* The effect of putting a file on the volume, and of taking one off it.
LEMMA PutTouches == ASSUME NEW name, NEW file, vol' = Put(name, file) PROVE SameBut(name, vol, vol')
  BY DEF Put, SameBut

LEMMA WithoutTouches == ASSUME NEW name, vol' = Without({name}) PROVE SameBut(name, vol, vol')
  BY DEF Without, SameBut

\* Every step of a transfer before its rename is such a step.
LEMMA TransferSteps ==
  ASSUME CallInv, NEW c \in Calls,
         Prepare(c) \/ PrepareOwn(c) \/ OpenTemp(c) \/ Receive(c) \/ SecondLook(c)
  PROVE  SideStep(c)
<1> DEFINE x == calls[c]
<1>0. SoundCall(x, Len(listing))
  BY DEF CallInv
<1>a. SameBut(Staging(c), vol, vol)
  BY DEF SameBut
<1>1. CASE Prepare(c)
  <2>1. PICK p \in {"failed", "fetch"} : calls' = [calls EXCEPT ![c].pc = p]
    BY <1>1 DEF Prepare
  <2>2. Only(c) /\ Alike(x, calls'[c]) /\ calls'[c].pc = p
    BY <2>1, PcMoves
  <2>3. vol' = vol /\ listing' = listing /\ reported' = reported /\ x.kind = "drop_download" /\ x.pc = "look"
    BY <1>1 DEF Prepare, In
  <2>4. QED
    BY <1>a, <2>2, <2>3 DEF SideStep
<1>2. CASE PrepareOwn(c)
  <2>1. calls' = [calls EXCEPT ![c].pc = "fetch"]
    BY <1>2 DEF PrepareOwn
  <2>2. Only(c) /\ Alike(x, calls'[c]) /\ calls'[c].pc = "fetch"
    BY <2>1, PcMoves
  <2>3. vol' = vol /\ listing' = listing /\ reported' = reported /\ x.kind \in {"spill", "clone"} /\ x.pc = "look"
    BY <1>2 DEF PrepareOwn
  <2>4. QED
    BY <1>a, <2>2, <2>3 DEF SideStep
<1>3. CASE OpenTemp(c)
  <2>1. calls' = [calls EXCEPT ![c].pc = "receive"]
    BY <1>3 DEF OpenTemp
  <2>2. Only(c) /\ Alike(x, calls'[c]) /\ calls'[c].pc = "receive"
    BY <2>1, PcMoves
  <2>3. SameBut(Staging(c), vol, vol')
    BY <1>3, PutTouches DEF OpenTemp
  <2>4. listing' = listing /\ reported' = reported /\ x.pc = "fetch"
    BY <1>3 DEF OpenTemp
  <2>5. x.kind \in {"drop_download", "spill", "clone"}
    BY <1>0, <2>4 DEF SoundCall, Kinds
  <2>6. QED
    BY <2>2, <2>3, <2>4, <2>5 DEF SideStep
<1>4. CASE Receive(c)
  <2>1. listing' = listing /\ reported' = reported /\ x.pc = "receive"
    BY <1>4 DEF Receive
  <2>2. x.kind \in {"drop_download", "spill", "clone"}
    BY <1>0, <2>1 DEF SoundCall, Kinds
  <2>3. SameBut(Staging(c), vol, vol')
    <3>1. vol' = Put(Staging(c), File(c)) \/ vol' = Without({Staging(c)})
      BY <1>4 DEF Receive
    <3>2. QED
      BY <3>1, PutTouches, WithoutTouches
  <2>4. PICK p \in {"failed", IF x.kind = "drop_download" THEN "check" ELSE "rename"} :
            calls' = [calls EXCEPT ![c].pc = p]
    BY <1>4 DEF Receive
  <2>5. Only(c) /\ Alike(x, calls'[c]) /\ calls'[c].pc = p
    BY <2>4, PcMoves
  <2>6. QED
    BY <2>1, <2>2, <2>3, <2>5 DEF SideStep
<1>5. CASE SecondLook(c)
  <2>1. listing' = listing /\ reported' = reported /\ x.pc = "check"
    BY <1>5 DEF SecondLook
  <2>2. x.kind = "drop_download"
    BY <1>0, <2>1 DEF SoundCall, Kinds
  <2>3. Staging(c) = Temp(c) /\ Place(c) = Places[x.n]
    BY <2>2 DEF Staging, Place
  <2>4. CASE Place(c) \in DOMAIN vol /\ ~calls[c].overwrite
    <3>1. vol' = Without({Temp(c)}) /\ calls' = [calls EXCEPT ![c].pc = "failed"]
      BY <1>5, <2>4 DEF SecondLook
    <3>2. Only(c) /\ Alike(x, calls'[c]) /\ calls'[c].pc = "failed"
      BY <3>1, PcMoves
    <3>3. SameBut(Staging(c), vol, vol')
      BY <2>3, <3>1, WithoutTouches
    <3>4. QED
      BY <2>1, <2>2, <3>2, <3>3 DEF SideStep
  <2>5. CASE ~(Place(c) \in DOMAIN vol /\ ~calls[c].overwrite)
    <3>1. vol' = vol /\ calls' = [calls EXCEPT ![c].pc = "rename", ![c].gap = FALSE]
      BY <1>5, <2>5 DEF SecondLook
    <3>2. calls'[c] = [calls[c] EXCEPT !.pc = "rename", !.gap = FALSE] /\ Only(c)
      BY <3>1 DEF CallInv, Only
    <3>3. Alike(x, calls'[c]) /\ calls'[c].pc = "rename"
      BY <1>0, <3>2 DEF SoundCall, Shaped, Alike
    <3>4. QED
      BY <1>a, <2>1, <2>2, <2>3, <2>5, <3>1, <3>2, <3>3 DEF SideStep
  <2>6. QED
    BY <2>4, <2>5
<1>6. QED
  BY <1>1, <1>2, <1>3, <1>4, <1>5

\* Another's file is noticed by a call that is about to rename to its name.
LEMMA Noticed ==
  ASSUME CallInv, NEW d \in Calls, NEW name
  PROVE  LET y == Notice(name, d)
         IN  /\ Alike(calls[d], y) /\ y.pc = calls[d].pc
             /\ y.gap = calls[d].gap \/ y.gap = TRUE
             /\ calls[d].pc = "rename" /\ Place(d) = name => y.gap = TRUE
<1>1. Shaped(calls[d])
  BY DEF CallInv, SoundCall
<1>2. QED
  BY <1>1 DEF Notice, Alike, Shaped

\* A call that differs only in what it has noticed is as sound, and has told as much.
LEMMA AlikeIsSound ==
  ASSUME NEW x, NEW y, NEW files, Alike(x, y), y.pc = x.pc, SoundCall(x, files)
  PROVE  SoundCall(y, files) /\ \A r, places : ToldBy(r, x, places, files) => ToldBy(r, y, places, files)
  BY DEF Alike, SoundCall, ToldBy

\* The agent's own file: what was said of its name is forgotten, who is about to rename
\* to it is told.
LEMMA AgentKeeps ==
  ASSUME FileInv, phase \in {"run", "frozen"}, phase' = phase, archive' = archive, AgentWrites
  PROVE  FileInv'
<1> USE DEF FileInv
<1>1. listing' = listing /\ Places' = Places /\ Len(listing') = Len(listing)
  BY PlacesStay DEF AgentWrites
<1>2. calls' = [c \in Calls |-> Notice(AgentFile, c)]
  BY DEF AgentWrites
<1>3. ASSUME NEW d \in Calls
      PROVE  /\ Alike(calls[d], calls'[d]) /\ calls'[d].pc = calls[d].pc
             /\ calls'[d].gap = calls[d].gap \/ calls'[d].gap = TRUE
             /\ calls[d].pc = "rename" /\ Place(d) = AgentFile => calls'[d].gap = TRUE
  BY <1>2, Noticed
<1>4. ASSUME NEW d \in Calls
      PROVE  /\ SoundCall(calls'[d], Len(listing))
             /\ \A r : ToldBy(r, calls[d], Places, Len(listing)) => ToldBy(r, calls'[d], Places, Len(listing))
  BY <1>3, AlikeIsSound DEF CallInv
<1>5. CallInv'
  BY <1>1, <1>2, <1>4 DEF CallInv, OldPod
<1>6. reported' \subseteq reported /\ \A r \in reported' : r.name # AgentFile
  <2>1. 0 \notin Calls
    BY DEF Calls
  <2>2. reported' = {r \in reported : r.name # AgentFile \/ r.file.by = 0}
    BY DEF AgentWrites, Forget
  <2>3. QED
    BY <2>1, <2>2 DEF TellInv
<1>7. TellInv'
  BY <1>1, <1>4, <1>6 DEF TellInv, OldPod
<1>8. SameBut(AgentFile, vol, vol')
  BY PutTouches DEF AgentWrites
<1>9. HoldInv'
  BY <1>6, <1>8 DEF HoldInv, AllOn, SameBut, OldPod
<1>10. GapInv'
  <2>1. ASSUME NEW d \in Calls PROVE Warned(calls'[d], Places[calls'[d].n], DOMAIN vol')
    <3>1. CASE Places[calls[d].n] = AgentFile
      BY <1>3, <3>1 DEF Warned, Alike, Place
    <3>2. CASE Places[calls[d].n] # AgentFile
      BY <1>3, <1>8, <3>2 DEF GapInv, Warned, Alike, SameBut
    <3>3. QED
      BY <3>1, <3>2
  <2>2. QED
    BY <1>1, <2>1 DEF GapInv
<1>11. QED
  BY <1>5, <1>7, <1>9, <1>10

\* A rename puts a file where no other report of the same call is.
LEMMA RenameKeeps ==
  ASSUME FileInv, phase \in {"run", "frozen"}, phase' = phase, archive' = archive, NEW c \in Calls, Rename(c)
  PROVE  FileInv'
<1> USE DEF FileInv
<1> DEFINE x == calls[c]
           last == x.n = Files(c)
           place == Place(c)
<1>1. listing' = listing /\ Places' = Places /\ Len(listing') = Len(listing) /\ x.pc = "rename"
  BY PlacesStay DEF Rename
<1>2. SoundCall(x, Len(listing)) /\ x.kind \in {"drop_download", "spill", "clone"}
  BY <1>1 DEF CallInv, SoundCall, Kinds
<1>3. /\ calls' = [d \in Calls |-> calls'[d]]
      /\ \A d \in Calls : d # c => calls'[d] = Notice(place, d)
      /\ calls'[c] = [x EXCEPT !.pc = IF last THEN "done" ELSE "fetch", !.n = IF last THEN @ ELSE @ + 1]
  BY DEF Rename
<1>4. /\ Shaped(calls'[c]) /\ calls'[c].kind = x.kind /\ calls'[c].overwrite = x.overwrite
      /\ last => calls'[c].pc = "done" /\ calls'[c].n = x.n
      /\ ~last => calls'[c].pc = "fetch" /\ calls'[c].n = x.n + 1
  BY <1>2, <1>3 DEF SoundCall, Shaped
<1>5. Len(listing) \in Nat /\ (x.kind = "drop_download" => x.n \in 1 .. Len(listing) /\ Files(c) = Len(listing))
  BY <1>2, PlacesApart DEF SoundCall, Files, CallInv
<1>6. x.kind \in {"spill", "clone"} => last
  BY <1>2 DEF SoundCall, Files
<1>7. SoundCall(calls'[c], Len(listing))
  <2>1. x.kind = "drop_download" /\ ~last => x.n + 1 \in 1 .. Len(listing)
    BY <1>5
  <2>2. QED
    BY <1>2, <1>4, <1>5, <1>6, <2>1 DEF SoundCall
<1>8. ASSUME NEW d \in Calls, d # c
      PROVE  /\ Alike(calls[d], calls'[d]) /\ calls'[d].pc = calls[d].pc
             /\ calls'[d].gap = calls[d].gap \/ calls'[d].gap = TRUE
             /\ calls[d].pc = "rename" /\ Place(d) = place => calls'[d].gap = TRUE
  <2>1. calls'[d] = Notice(place, d)
    BY <1>3, <1>8
  <2>2. QED
    BY <2>1, Noticed
<1>9. ASSUME NEW d \in Calls, d # c
      PROVE  /\ SoundCall(calls'[d], Len(listing))
             /\ \A r : ToldBy(r, calls[d], Places, Len(listing)) => ToldBy(r, calls'[d], Places, Len(listing))
  BY <1>8, <1>9, AlikeIsSound DEF CallInv
<1>10. CallInv'
  BY <1>1, <1>3, <1>7, <1>9 DEF CallInv, OldPod
<1> DEFINE new == [name |-> place, file |-> File(c)]
<1>11. new.name = place /\ new.file = File(c) /\ new.file.by = c /\ new.file.n = x.n
  BY DEF File
<1>12. ASSUME NEW r, ToldBy(r, x, Places, Len(listing)) PROVE ToldBy(r, calls'[c], Places, Len(listing))
  BY <1>1, <1>4, <1>5, <1>12 DEF ToldBy
<1>13. ToldBy(new, calls'[c], Places, Len(listing))
  <2>1. CASE x.kind = "drop_download"
    <3>1. place = Places[x.n]
      BY <2>1 DEF Place
    <3>2. calls'[c].pc = "done" \/ x.n < calls'[c].n
      BY <1>4, <1>5, <2>1
    <3>3. QED
      BY <1>4, <1>5, <1>11, <2>1, <3>1, <3>2 DEF ToldBy
  <2>2. CASE x.kind \in {"spill", "clone"}
    BY <1>4, <1>6, <1>11, <2>2 DEF ToldBy, Place
  <2>3. QED
    BY <1>2, <2>1, <2>2
<1>14. ASSUME NEW r \in reported' PROVE r = new \/ (r \in reported /\ (r.name # place \/ r.file.by = c))
  BY <1>14 DEF Rename, Forget
<1>15. ASSUME NEW r \in reported PROVE r.file.by \in Calls /\ ToldBy(r, calls[r.file.by], Places, Len(listing))
  BY <1>15 DEF TellInv, OldPod
<1>16. TellInv'
  <2>1. ASSUME NEW r \in reported'
        PROVE  r.file.by \in Calls /\ ToldBy(r, calls'[r.file.by], Places, Len(listing))
    <3>1. CASE r = new
      BY <1>11, <1>13, <3>1
    <3>2. CASE r \in reported /\ r.file.by = c
      BY <1>12, <1>15, <3>2
    <3>3. CASE r \in reported /\ r.file.by # c
      BY <1>9, <1>15, <3>3
    <3>4. QED
      BY <1>14, <2>1, <3>1, <3>2, <3>3
  <2>2. QED
    BY <1>1, <2>1 DEF TellInv
\* What the call has reported before is elsewhere.
<1>17. ASSUME NEW r \in reported, r.file.by = c PROVE r.name # place
  <2>1. ToldBy(r, x, Places, Len(listing))
    BY <1>15, <1>17
  <2>2. x.kind = "drop_download" /\ r.file.n \in 1 .. Len(listing) /\ r.name = Places[r.file.n] /\ r.file.n < x.n
    BY <1>1, <2>1 DEF ToldBy
  <2>3. place = Places[x.n] /\ r.file.n # x.n /\ x.n \in 1 .. Len(listing)
    BY <1>5, <2>2 DEF Place
  <2>4. QED
    BY <2>2, <2>3, PlacesApart DEF CallInv
<1>18. /\ DOMAIN vol' = (DOMAIN vol \ {Temp(c)}) \cup {place} /\ vol'[place] = File(c)
       /\ \A m \in DOMAIN vol : m # Temp(c) /\ m # place => vol'[m] = vol[m]
  BY DEF Rename
<1>19. AllOn(reported', vol')
  <2>1. ASSUME NEW r \in reported' PROVE r.name \in DOMAIN vol' /\ vol'[r.name] = r.file
    <3>1. CASE r = new
      BY <1>11, <1>18, <3>1
    <3>2. CASE r \in reported /\ r.name # place
      <4>1. r.name # Temp(c)
        BY <1>1, <1>15, <3>2, StagingIsFree
      <4>2. r.name \in DOMAIN vol /\ vol[r.name] = r.file
        BY <3>2 DEF HoldInv, AllOn, OldPod
      <4>3. QED
        BY <1>18, <3>2, <4>1, <4>2
    <3>3. QED
      BY <1>14, <1>17, <2>1, <3>1, <3>2
  <2>2. QED
    BY <2>1 DEF AllOn
<1>20. HoldInv'
  BY <1>19 DEF HoldInv
<1>21. GapInv'
  <2>1. ASSUME NEW d \in Calls PROVE Warned(calls'[d], Places[calls'[d].n], DOMAIN vol')
    <3>1. CASE d = c
      BY <1>4, <3>1 DEF Warned
    <3>2. CASE d # c
      BY <1>8, <1>18, <3>2 DEF GapInv, Warned, Alike, Place
    <3>3. QED
      BY <3>1, <3>2
  <2>2. QED
    BY <1>1, <2>1 DEF GapInv
<1>22. QED
  BY <1>10, <1>16, <1>20, <1>21

\* A call that begins, an upload and a death of the helper touch no file.
LEMMA OneCallMoves ==
  ASSUME CallInv, NEW c \in Calls, vol' = vol, reported' = reported, listing' = listing, Only(c),
         SoundCall(calls'[c], Len(listing)), calls[c].kind \in {"none", "drop_upload"}, calls'[c].pc # "rename"
  PROVE  QuietStep
<1>1. \A r : ~ToldBy(r, calls[c], Places, Len(listing))
  BY DEF ToldBy
<1>2. QED
  BY <1>1 DEF QuietStep, Only, CallInv

LEMMA CallIsQuiet == ASSUME CallInv, NEW c \in Calls, Call(c) PROVE QuietStep
<1>1. PICK kind \in Kinds, overwrite \in BOOLEAN :
          calls' = [calls EXCEPT ![c].kind = kind, ![c].overwrite = overwrite,
                                 ![c].pc = IF kind = "drop_upload" THEN "send" ELSE "look"]
  BY DEF Call
<1>2. /\ vol' = vol /\ reported' = reported /\ listing' = listing /\ calls[c].pc = "idle"
  BY DEF Call
<1>3. SoundCall(calls[c], Len(listing))
  BY DEF CallInv
<1>4. /\ calls'[c] = [calls[c] EXCEPT !.kind = kind, !.overwrite = overwrite,
                                      !.pc = IF kind = "drop_upload" THEN "send" ELSE "look"]
      /\ Only(c)
  BY <1>1 DEF CallInv, Only
<1>5. /\ Shaped(calls'[c]) /\ calls'[c].kind = kind /\ calls'[c].n = calls[c].n
      /\ calls'[c].pc = IF kind = "drop_upload" THEN "send" ELSE "look"
  BY <1>3, <1>4 DEF SoundCall, Shaped
<1>6. calls[c].n = 1 /\ calls[c].kind = "none" /\ 1 \in 1 .. Len(listing)
  BY <1>2, <1>3, PlacesApart DEF SoundCall, CallInv
<1>7. SoundCall(calls'[c], Len(listing))
  BY <1>5, <1>6 DEF SoundCall, Kinds
<1>8. QED
  BY <1>2, <1>4, <1>5, <1>6, <1>7, OneCallMoves

LEMMA UploadIsQuiet ==
  ASSUME CallInv, NEW c \in Calls, Upload(c) \/ SendTwice(c) \/ StoreForgets(c)
  PROVE  QuietStep
<1> DEFINE x == calls[c]
<1>1. /\ vol' = vol /\ reported' = reported /\ listing' = listing /\ x.kind = "drop_upload" /\ x.pc = "send"
  BY DEF Upload, SendChunk, Resume, Complete, SendTwice, StoreForgets, In
<1>2. SoundCall(x, Len(listing))
  BY DEF CallInv
<1>3. Only(c) /\ Shaped(calls'[c]) /\ calls'[c].kind = x.kind /\ calls'[c].pc \in {"send", "done", "failed"}
  <2>1. CASE calls' = calls
    BY <1>1, <1>2, <2>1 DEF Only, CallInv, SoundCall
  <2>2. CASE \E p \in {"done", "failed"} : calls' = [calls EXCEPT ![c].pc = p]
    BY <2>2, PcMoves DEF Alike
  <2>3. CASE \E o : calls' = [calls EXCEPT ![c].offset = o]
    <3>1. PICK o : calls' = [calls EXCEPT ![c].offset = o]
      BY <2>3
    <3>2. calls'[c] = [x EXCEPT !.offset = o] /\ Only(c)
      BY <3>1 DEF CallInv, Only
    <3>3. QED
      BY <1>1, <1>2, <3>2 DEF SoundCall, Shaped
  <2>4. CASE \E o, m : calls' = [calls EXCEPT ![c].offset = o, ![c].resumes = m]
    <3>1. PICK o, m : calls' = [calls EXCEPT ![c].offset = o, ![c].resumes = m]
      BY <2>4
    <3>2. calls'[c] = [x EXCEPT !.offset = o, !.resumes = m] /\ Only(c)
      BY <3>1 DEF CallInv, Only
    <3>3. QED
      BY <1>1, <1>2, <3>2 DEF SoundCall, Shaped
  <2>5. CASE SendChunk(c)
    BY <2>5, <2>2, <2>3 DEF SendChunk
  <2>6. CASE Resume(c)
    <3>1. CASE x.resumes + 1 > MaxResumes
      BY <2>2, <2>6, <3>1 DEF Resume
    <3>2. CASE ~(x.resumes + 1 > MaxResumes)
      <4>1. calls' = [calls EXCEPT ![c].offset = store[c], ![c].resumes = calls[c].resumes + 1]
        BY <2>6, <3>2 DEF Resume
      <4>2. QED
        BY <2>4, <4>1
    <3>3. QED
      BY <3>1, <3>2
  <2>7. CASE Complete(c)
    BY <2>2, <2>7 DEF Complete
  <2>8. CASE SendTwice(c) \/ StoreForgets(c)
    BY <2>1, <2>8 DEF SendTwice, StoreForgets
  <2>9. QED
    BY <2>5, <2>6, <2>7, <2>8 DEF Upload
<1>4. SoundCall(calls'[c], Len(listing))
  BY <1>1, <1>3 DEF SoundCall, Kinds
<1>5. QED
  BY <1>1, <1>3, <1>4, OneCallMoves

LEMMA KillIsQuiet == ASSUME CallInv, KillHelper PROVE QuietStep
<1>1. /\ vol' = vol /\ reported' = reported /\ listing' = listing
      /\ calls' = [c \in Calls |-> [calls[c] EXCEPT !.pc = IF calls[c].pc \in {"idle", "done"} THEN calls[c].pc ELSE "failed"]]
  BY DEF KillHelper
<1>2. ASSUME NEW d \in Calls
      PROVE  /\ SoundCall(calls'[d], Len(listing)) /\ calls'[d].pc # "rename"
             /\ \A r : ToldBy(r, calls[d], Places, Len(listing)) => ToldBy(r, calls'[d], Places, Len(listing))
  <2>1. SoundCall(calls[d], Len(listing))
    BY DEF CallInv
  <2>2. /\ Alike(calls[d], calls'[d])
        /\ calls'[d].pc = IF calls[d].pc \in {"idle", "done"} THEN calls[d].pc ELSE "failed"
    BY <1>1, <2>1 DEF SoundCall, Shaped, Alike
  <2>3. QED
    BY <2>1, <2>2 DEF SoundCall, Alike, ToldBy
<1>3. QED
  BY <1>1, <1>2 DEF QuietStep

\* Whatever the tools and the agent do beside each other.
LEMMA ToolsKeepFiles ==
  ASSUME FileInv, Tools
  PROVE  FileInv'
<1>1. phase \in {"run", "frozen"} /\ phase' = phase /\ archive' = archive /\ ToolNext
  BY DEF Tools, Beside
<1>2. CASE AgentWrites
  BY <1>1, <1>2, AgentKeeps
<1>3. CASE KillHelper
  BY <1>1, <1>3, KillIsQuiet, QuietKeeps DEF FileInv
<1>4. ASSUME NEW c \in Calls, Call(c) \/ Upload(c) \/ SendTwice(c) \/ StoreForgets(c) PROVE FileInv'
  BY <1>1, <1>4, CallIsQuiet, UploadIsQuiet, QuietKeeps DEF FileInv
<1>5. ASSUME NEW c \in Calls, Transfer(c) PROVE FileInv'
  BY <1>1, <1>5, TransferSteps, SideKeeps, RenameKeeps DEF FileInv, Transfer
<1>6. QED
  BY <1>1, <1>2, <1>3, <1>4, <1>5 DEF ToolNext

\* A restore leaves the calls alone, and what the archive holds.
LEMMA RestoreKeepsFiles ==
  ASSUME FileInv, phase \notin OldPod, phase' \notin OldPod, UNCHANGED toolRest, archive' = archive
  PROVE  FileInv'
<1>1. listing' = listing /\ calls' = calls /\ reported' = reported
  BY DEF toolRest
<1>2. Places' = Places /\ Len(listing') = Len(listing)
  BY <1>1, PlacesStay
<1>3. CallInv'
  BY <1>1, <1>2 DEF FileInv, CallInv
<1>4. TellInv' /\ HoldInv'
  BY <1>1 DEF FileInv, TellInv, HoldInv, OldPod
<1>5. GapInv'
  <2>1. \A c \in Calls : calls'[c].pc # "rename"
    BY <1>1 DEF FileInv, CallInv
  <2>2. QED
    BY <2>1 DEF GapInv, Warned
<1>6. QED
  BY <1>3, <1>4, <1>5 DEF FileInv

LEMMA FileStep == ASSUME IInv, FileInv, [Next]_vars PROVE FileInv'
<1>1. CASE Tools
  BY <1>1, ToolsKeepFiles
<1>2. CASE Freeze \/ WriteArchive \/ UNCHANGED vars
  <2>1. listing' = listing /\ calls' = calls /\ reported' = reported /\ vol' = vol
    BY <1>2 DEF Freeze, WriteArchive, vars, toolVars, toolRest
  <2>2. Places' = Places /\ Len(listing') = Len(listing)
    BY <2>1, PlacesStay
  <2>3. phase' \in OldPod => phase \in OldPod
    BY <1>2 DEF Freeze, WriteArchive, Go, vars, OldPod
  <2>4. phase' \notin OldPod => phase \notin OldPod
    BY <1>2 DEF Freeze, WriteArchive, Go, vars, OldPod
  <2>5. phase' \notin {"run", "frozen"} => AllOn(reported, archive'.shared)
    <3>1. CASE UNCHANGED vars
      BY <3>1 DEF vars, FileInv, HoldInv
    <3>2. CASE Freeze
      BY <3>2 DEF Freeze, Go
    <3>3. CASE WriteArchive
      <4>1. phase = "frozen" /\ (phase' \notin {"run", "frozen"} => archive'.shared = vol)
        BY <3>3 DEF WriteArchive, Go, NoArchive
      <4>2. QED
        BY <4>1 DEF FileInv, HoldInv, OldPod
    <3>4. QED
      BY <1>2, <3>1, <3>2, <3>3
  <2>6. CallInv' /\ TellInv' /\ GapInv'
    BY <2>1, <2>2, <2>3, <2>4 DEF FileInv, CallInv, TellInv, GapInv
  <2>7. HoldInv'
    BY <2>1, <2>3, <2>5 DEF FileInv, HoldInv
  <2>8. QED
    BY <2>6, <2>7 DEF FileInv
<1>3. CASE NewPod
  <2>1. /\ phase = "kept" /\ phase' = "waiting" /\ listing' = listing /\ reported' = reported
        /\ calls' = [c \in Calls |-> NewCall]
    BY <1>3 DEF NewPod, Go
  <2>2. Places' = Places /\ Len(listing') = Len(listing)
    BY <2>1, PlacesStay
  <2>3. archive'.shared = archive.shared
    BY <1>3, DamageKeeps DEF NewPod, IInv, ShapeInv
  <2>4. SoundCall(NewCall, Len(listing)) /\ NewCall.pc = "idle"
    BY DEF SoundCall, NewCall, Shaped, Kinds
  <2>5. CallInv'
    BY <2>1, <2>2, <2>4 DEF FileInv, CallInv
  <2>6. TellInv' /\ HoldInv'
    BY <2>1, <2>3 DEF FileInv, TellInv, HoldInv, OldPod
  <2>7. GapInv'
    BY <2>1, <2>4 DEF GapInv, Warned
  <2>8. QED
    BY <2>5, <2>6, <2>7 DEF FileInv
<1>4. CASE \/ Extract \/ (\E name \in DOMAIN archive.shared : CopyBegin(name) \/ CopyEnd(name))
           \/ Copied \/ MoveAside \/ Install \/ InstallFails \/ Clean \/ RestoreFails \/ KillAgent \/ AskAgain
  <2>1. phase \notin OldPod /\ phase' \notin OldPod
    BY <1>4 DEF Extract, CopyBegin, CopyEnd, Copied, MoveAside, Install, InstallFails, Clean, RestoreFails,
        KillAgent, AskAgain, Go, OldPod
  <2>2. UNCHANGED toolRest /\ archive' = archive
    BY <1>4 DEF Extract, CopyBegin, CopyEnd, Copied, MoveAside, Install, InstallFails, Clean, RestoreFails,
        KillAgent, AskAgain
  <2>3. QED
    BY <2>1, <2>2, RestoreKeepsFiles
<1>5. QED
  BY <1>1, <1>2, <1>3, <1>4 DEF Next

LEMMA FileInit == Init => FileInv
<1> SUFFICES ASSUME Init PROVE FileInv
  OBVIOUS
<1>1. listing \in Drops /\ calls = [c \in Calls |-> NewCall] /\ reported = {} /\ phase = "run"
  BY DEF Init, VolInit
<1>2. SoundCall(NewCall, Len(listing)) /\ NewCall.pc = "idle"
  BY DEF SoundCall, NewCall, Shaped, Kinds
<1>3. CallInv /\ GapInv
  BY <1>1, <1>2 DEF CallInv, GapInv, Warned, OldPod
<1>4. TellInv /\ HoldInv
  BY <1>1 DEF TellInv, HoldInv, AllOn
<1>5. QED
  BY <1>3, <1>4 DEF FileInv

\* The invariant of the reported files: who has told what, and where it is.
THEOREM FileInvHolds == Spec => []FileInv
<1>1. IInv /\ FileInv /\ [Next]_vars => FileInv'
  BY FileStep
<1>2. QED
  BY <1>1, FileInit, InvHolds, PTL DEF Spec

\* What the agent was told of a file stays true, on the volume it was put on and on the
\* new pod's after a restore, unless somebody wrote there since (callDropDownload,
\* spillBody, runClone, writeStateArchive, copyRestoredTree).
THEOREM ReportsHold == Spec => []ReportedIsThere
<1>1. FileInv /\ RestoreIsAllOrNothing => ReportedIsThere
  BY DEF FileInv, HoldInv, AllOn, OldPod, RestoreIsAllOrNothing, ReportedIsThere
<1>2. QED
  BY <1>1, FileInvHolds, AllOrNothing, PTL

\* A download that was not told to overwrite replaces a file only when the file came to
\* be between its second look and its rename (fetchInto).
THEOREM GapIsOne == Spec => GapIsOneStep
<1> DEFINE Told ==
      \A c \in Calls : (Renames(c) /\ calls[c].kind = "drop_download" /\ ~calls[c].overwrite /\ Place(c) \in DOMAIN vol)
                            => calls[c].gap
<1>1. FileInv => Told
  BY DEF FileInv, GapInv, Warned, Renames, Place
<1>2. FileInv /\ [Next]_vars => [Told]_toolVars
  BY <1>1
<1>3. QED
  BY <1>2, FileInvHolds, PTL DEF Spec, GapIsOneStep

-----------------------------------------------------------------------------
(***************************************************************************)
(* The plugin skills of HOME, which goes through the archive (SkillSync).  *)
(***************************************************************************)

Dirs == Versions \cup {"absent", "half", "user", "left"}

\* A note of kind k is right about a skill that was a when the last turn ended and is b now.
Right(k, a, b) ==
    /\ a # b => k # "none"
    /\ k = "added"   => ~Exists(a) /\ Exists(b)
    /\ k = "removed" => Exists(a) /\ ~Exists(b)
    /\ k = "updated" => Exists(a) /\ Exists(b)

States  == {"bootstrapping", "unconfigured", "ready", "failed"}
Seeders == [state: States, plugins: Seeds, failed: 0 .. Attempts, busy: BOOLEAN]
Homes   == [dir: [Skills -> Dirs], note: [Skills -> ChangeKinds], hasRun: BOOLEAN, seen: [Skills -> Dirs],
            missed: SUBSET Skills]

\* The types of what is no part of TypeOK.
PastTypeOK == seen \in [Skills -> Dirs] /\ homeArchive \in Homes

\* Changes are there only while a sync runs, and of what it has done.
SyncInv ==
    /\ pc \notin {"sync", "record"} => changes = Quiet
    /\ pc = "sync" => \A s \in todo : changes[s] = "none"

\* The note and the changes since it was written are together right about every skill
\* that no failure has touched; and so is the note in the archive.
NoteInv ==
    /\ hasRun => \A s \in Skills \ missed : Right(foldCodexSkillChange(note[s], changes[s]), seen[s], dir[s])
    /\ homeArchive.hasRun =>
         \A s \in Skills \ homeArchive.missed :
             Right(homeArchive.note[s], homeArchive.seen[s], homeArchive.dir[s])

\* What a refresh syncs to was read since it was asked for.
SeedInv ==
    /\ seeder.state = "unconfigured" => ~configured
    /\ ~configured => seeder.state = "unconfigured" /\ ~seeder.busy
    /\ seeder.state = "bootstrapping" => seeder.failed < Attempts
    /\ why = "refresh" => configured
    /\ why = "refresh" /\ pc = "probe" /\ seeder.state = "ready" => seeder.plugins \in served
    /\ why = "refresh" /\ pc = "sync" => target \in served

SkillInv == SkillTypeOK /\ PastTypeOK /\ SyncInv /\ NoteInv /\ SeedInv

-----------------------------------------------------------------------------
\* What the marketplace may hold is something a directory may hold.
LEMMA SeedsAreDirs == Seeds \subseteq [Skills -> Dirs]
  BY DEF Seeds, Dirs

\* So is a marketplace that holds nothing; and a note may say nothing.
LEMMA NoneIsSeed == None \in Seeds /\ Quiet \in [Skills -> ChangeKinds]
  BY DEF None, Seeds, Quiet, ChangeKinds

\* The records of the sidecar.
LEMMA SeederParts ==
  ASSUME NEW x \in Seeders
  PROVE  x.state \in States /\ x.plugins \in Seeds /\ x.failed \in 0 .. Attempts /\ x.busy \in BOOLEAN
  BY DEF Seeders

\* A clone that failed is counted, and may be the last.
FailedAs(y, x, f, st) ==
    y \in Seeders /\ y.state = st /\ y.plugins = x.plugins /\ y.failed = f /\ y.busy = x.busy

\* So a failed clone leaves a sidecar.
LEMMA SeederFails ==
  ASSUME NEW x \in Seeders, NEW f \in 0 .. Attempts, NEW st \in States
  PROVE  FailedAs([x EXCEPT !.failed = f, !.state = st], x, f, st)
<1> HIDE DEF Seeds, States
<1>1. QED
  BY DEF Seeders, FailedAs

\* A sidecar that has just started has read nothing.
LEMMA NewSeederIs ==
  ASSUME configured \in BOOLEAN
  PROVE  /\ NewSeeder \in Seeders /\ NewSeeder.failed = 0 /\ NewSeeder.plugins = None /\ ~NewSeeder.busy
         /\ NewSeeder.state = IF configured THEN "bootstrapping" ELSE "unconfigured"
<1>1. None \in Seeds /\ 0 \in 0 .. Attempts
  BY SkillSyncAssumption, NoneIsSeed
<1> HIDE DEF None, Seeds
<1>2. QED
  BY <1>1 DEF NewSeeder, Seeders, States

\* What a reading of the marketplace does to the sidecar.
WasRead ==
    /\ seeder' \in Seeders /\ seeder'.state = "ready" /\ seeder'.plugins = market /\ seeder'.failed = seeder.failed
    /\ served' = IF why = "refresh" THEN served \cup {market} ELSE served

\* A reading takes the marketplace as it is.
LEMMA ReadIs == ASSUME SkillTypeOK, Read PROVE WasRead
<1>1. seeder \in Seeders /\ market \in Seeds
  BY DEF SkillTypeOK, Seeders, States
<1> HIDE DEF Seeds
<1>2. QED
  BY <1>1 DEF Read, WasRead, Seeders, States

\* The parts of a HOME in the archive.
LEMMA HomeParts ==
  ASSUME NEW h \in Homes
  PROVE  h.dir \in [Skills -> Dirs] /\ h.note \in [Skills -> ChangeKinds] /\ h.hasRun \in BOOLEAN
         /\ h.seen \in [Skills -> Dirs] /\ h.missed \subseteq Skills
  BY DEF Homes

\* Folding changes together gives a change, and nothing changes nothing.
LEMMA FoldIsKind ==
  ASSUME NEW a \in ChangeKinds, NEW b \in ChangeKinds
  PROVE  foldCodexSkillChange(a, b) \in ChangeKinds /\ foldCodexSkillChange(a, "none") = a
  BY DEF foldCodexSkillChange, ChangeKinds

\* One skill's step of the sync, on top of a note that was right.
LEMMA FoldRemoved ==
  ASSUME NEW k \in ChangeKinds, NEW a \in Dirs, NEW b \in Versions \cup {"half"}, Right(k, a, b)
  PROVE  Right(foldCodexSkillChange(k, "removed"), a, "absent")
  BY SkillSyncAssumption DEF Right, foldCodexSkillChange, ChangeKinds, Exists, Dirs

\* The same for a skill that is replaced.
LEMMA FoldUpdated ==
  ASSUME NEW k \in ChangeKinds, NEW a \in Dirs, NEW b \in Versions \cup {"half"}, NEW v \in Versions, Right(k, a, b)
  PROVE  Right(foldCodexSkillChange(k, "updated"), a, v)
  BY SkillSyncAssumption DEF Right, foldCodexSkillChange, ChangeKinds, Exists, Dirs

\* The same for a skill that is installed.
LEMMA FoldAdded ==
  ASSUME NEW k \in ChangeKinds, NEW a \in Dirs, NEW v \in Versions, Right(k, a, "absent")
  PROVE  Right(foldCodexSkillChange(k, "added"), a, v)
  BY SkillSyncAssumption DEF Right, foldCodexSkillChange, ChangeKinds, Exists, Dirs
-----------------------------------------------------------------------------
\* The types.

\* The types of all but the sidecar.
RestTypeOK ==
    /\ configured \in BOOLEAN /\ market \in Seeds /\ served \subseteq Seeds
    /\ dir \in [Skills -> Dirs]
    /\ note \in [Skills -> ChangeKinds] /\ hasRun \in BOOLEAN
    /\ pc \in {"probe", "sync", "record", "idle", "asked", "turn", "frozen"} /\ why \in {"boot", "refresh"}
    /\ target \in Seeds /\ todo \subseteq Skills /\ changes \in [Skills -> ChangeKinds] /\ noticed \in BOOLEAN
    /\ missed \subseteq Skills /\ seen \in [Skills -> Dirs] /\ homeArchive \in Homes

Typed == RestTypeOK /\ seeder \in Seeders

\* Every action keeps the types.
LEMMA SkillTypeStep == ASSUME SkillInv, SkillNext \/ UNCHANGED skillVars PROVE Typed'
<1>a. SkillTypeOK /\ PastTypeOK /\ SeedInv
  BY DEF SkillInv
<1>b. seeder \in Seeders /\ RestTypeOK
  BY <1>a DEF SkillTypeOK, PastTypeOK, RestTypeOK, Seeders, States, Dirs
<1>c. /\ Seeds \subseteq [Skills -> Dirs] /\ None \in Seeds /\ Quiet \in [Skills -> ChangeKinds]
      /\ {"none", "added", "updated", "removed"} \subseteq ChangeKinds
      /\ {"absent", "half", "left", "user"} \subseteq Dirs
      /\ Changed \subseteq Skills
  BY SeedsAreDirs, NoneIsSeed DEF ChangeKinds, Dirs, Changed
<1>d. \A t \in Seeds, s \in Skills : t[s] \in Dirs
  BY <1>c
<1> HIDE DEF Seeds, None, Quiet, Seeders, ChangeKinds, Homes, Dirs, Changed, NewSeeder
<1>1. CASE Bootstrap
  <2>1. CASE Read
    BY <1>1, <1>a, <1>b, <2>1, ReadIs DEF Bootstrap, WasRead, Typed, RestTypeOK, home, syncing, past
  <2>2. CASE ~Read
    <3>1. /\ UNCHANGED served /\ seeder.state = "bootstrapping"
          /\ seeder' = [seeder EXCEPT !.failed = @ + 1,
                                      !.state = IF seeder.failed + 1 = Attempts THEN "failed" ELSE @]
      BY <1>1, <2>2 DEF Bootstrap
    <3>2. seeder.failed + 1 \in 0 .. Attempts
      BY SkillSyncAssumption, <1>a, <1>b, <3>1, SeederParts DEF SeedInv
    <3>4. (IF seeder.failed + 1 = Attempts THEN "failed" ELSE seeder.state) \in States
      BY <1>b, SeederParts DEF States
    <3>5. seeder' \in Seeders
      BY <1>b, <3>1, <3>2, <3>4, SeederFails DEF FailedAs
    <3>6. QED
      BY <1>1, <1>b, <3>1, <3>5 DEF Bootstrap, Typed, RestTypeOK, home, syncing, past
  <2>3. QED
    BY <2>1, <2>2
<1>2. CASE MarketMoves
  <2>1. market' \in Seeds
    BY <1>2, <1>b DEF MarketMoves, RestTypeOK, Seeds
  <2>2. QED
    BY <1>2, <1>b, <2>1 DEF MarketMoves, Typed, RestTypeOK, home, syncing, past
<1>3. CASE Refreshed
  <2>1. CASE Read
    BY <1>3, <1>a, <1>b, <2>1, ReadIs DEF Refreshed, WasRead, Typed, RestTypeOK, home, syncing, past
  <2>2. CASE ~Read
    <3>1. seeder' \in Seeders
      BY <1>3, <1>b, <2>2 DEF Refreshed, Seeders
    <3>2. QED
      BY <1>3, <1>b, <2>2, <3>1 DEF Refreshed, Typed, RestTypeOK, home, syncing, past
  <2>3. QED
    BY <2>1, <2>2
<1>4. CASE RestartSidecar
  <2>1. NewSeeder \in Seeders
    BY <1>b, NewSeederIs DEF RestTypeOK
  <2>2. QED
    BY <1>4, <1>b, <2>1 DEF RestartSidecar, Typed, RestTypeOK, home, syncing, past
<1>5. CASE Refresh
  <2>1. seeder' \in Seeders
    BY <1>5, <1>b DEF Refresh, Seeders
  <2>2. QED
    BY <1>5, <1>b, <2>1 DEF Refresh, Typed, RestTypeOK, home, past
<1>6. CASE Probe
  <2>1. seeder.plugins \in Seeds
    BY <1>b, SeederParts
  <2>2. QED
    BY <1>6, <1>b, <1>c, <2>1 DEF Probe, Sync, Typed, RestTypeOK, sidecar, home, past
<1>7. CASE Synced
  BY <1>7, <1>b, <1>c DEF Synced, RestTypeOK, Typed, sidecar, home, syncing, past, bounds
<1>8. CASE Record
  <2>1. note' \in [Skills -> ChangeKinds]
    BY <1>8, <1>b, FoldIsKind DEF Record, RestTypeOK
  <2>2. QED
    BY <1>8, <1>b, <1>c, <2>1 DEF Record, Typed, RestTypeOK, sidecar, past
<1>9. CASE SyncFails
  <2>1. /\ pc' \in {"probe", "idle", "frozen"} /\ why' \in {"boot", "refresh"}
        /\ target' = None /\ changes' = Quiet /\ todo' = {}
    BY <1>9, <1>b DEF SyncFails, Broken, RestTypeOK
  <2>2. QED
    BY <1>9, <1>b, <1>c, <2>1 DEF SyncFails, Typed, RestTypeOK, sidecar, home
<1>10. ASSUME NEW s \in Skills, SyncSkill(s) PROVE Typed'
  <2>1. dir' \in [Skills -> Dirs]
    BY <1>10, <1>b, <1>d DEF SyncSkill, RestTypeOK
  <2>2. changes' \in [Skills -> ChangeKinds]
    BY <1>10, <1>b, <1>c DEF SyncSkill, RestTypeOK
  <2>3. QED
    BY <1>10, <1>b, <2>1, <2>2 DEF SyncSkill, Typed, RestTypeOK, sidecar, past
<1>11. ASSUME NEW s \in Skills, InstallStops(s) PROVE Typed'
  <2>1. /\ pc' \in {"probe", "idle", "frozen"} /\ why' \in {"boot", "refresh"}
        /\ target' = None /\ changes' = Quiet /\ todo' = {}
    BY <1>11, <1>b DEF InstallStops, Broken, RestTypeOK
  <2>2. dir' \in [Skills -> Dirs]
    BY <1>11, <1>b, <1>c DEF InstallStops, RestTypeOK
  <2>3. QED
    BY <1>11, <1>b, <1>c, <2>1, <2>2 DEF InstallStops, Typed, RestTypeOK, sidecar
<1>12. CASE BeginTurn
  <2>1. noticed' \in BOOLEAN
    BY <1>12 DEF BeginTurn, turnNotice
  <2>2. QED
    BY <1>12, <1>b, <2>1 DEF BeginTurn, Typed, RestTypeOK, sidecar, home, syncing, past
<1>13. CASE ByHand
  <2>1. dir' \in [Skills -> Dirs] /\ missed' \subseteq Skills
    BY <1>13, <1>b, <1>c DEF ByHand, RestTypeOK
  <2>2. QED
    BY <1>13, <1>b, <2>1 DEF ByHand, Typed, RestTypeOK, sidecar, syncing
<1>14. CASE FailTurn
  BY <1>14, <1>b, <1>c DEF FailTurn, RestTypeOK, Typed, sidecar, home, syncing, past, bounds
<1>15. CASE EndTurn
  BY <1>15, <1>b, <1>c DEF EndTurn, RestTypeOK, Typed, sidecar, home, syncing, past, bounds
<1>16. CASE Kill
  BY <1>16, <1>b, <1>c DEF Kill, RestTypeOK, Typed, sidecar, home, syncing, past, bounds
<1>17. CASE SkillFreeze
  <2>1. homeArchive' \in Homes
    BY <1>17, <1>b DEF SkillFreeze, RestTypeOK, Homes
  <2>2. QED
    BY <1>17, <1>b, <2>1 DEF SkillFreeze, Typed, RestTypeOK, sidecar, home, syncing, past
<1>18. CASE Restore
  <2>1. NewSeeder \in Seeders
    BY <1>b, NewSeederIs DEF RestTypeOK
  <2>2. QED
    BY <1>18, <1>b, <2>1, HomeParts DEF Restore, Typed, RestTypeOK
<1>19. CASE UNCHANGED skillVars
  BY <1>19, <1>b, <1>c DEF skillVars, RestTypeOK, Typed, sidecar, home, syncing, past, bounds
<1>20. QED
  BY <1>1, <1>2, <1>3, <1>4, <1>5, <1>6, <1>7, <1>8, <1>9, <1>10, <1>11, <1>12, <1>13, <1>14,
     <1>15, <1>16, <1>17, <1>18, <1>19 DEF SkillNext

\* Every action keeps what is said of the changes.
LEMMA SyncStep == ASSUME SkillInv, SkillNext \/ UNCHANGED skillVars PROVE SyncInv'
<1>a. RestTypeOK /\ SyncInv
  BY DEF SkillInv, SkillTypeOK, PastTypeOK, RestTypeOK, Dirs
<1> HIDE DEF Seeds, None, ChangeKinds, Homes, Dirs, Changed, NewSeeder
<1>1. CASE Bootstrap
  BY <1>1, <1>a DEF Bootstrap, SyncInv, RestTypeOK, sidecar, home, syncing, past, bounds
<1>2. CASE MarketMoves
  BY <1>2, <1>a DEF MarketMoves, SyncInv, RestTypeOK, sidecar, home, syncing, past, bounds
<1>3. CASE Refreshed
  BY <1>3, <1>a DEF Refreshed, SyncInv, RestTypeOK, sidecar, home, syncing, past, bounds
<1>4. CASE RestartSidecar
  BY <1>4, <1>a DEF RestartSidecar, SyncInv, RestTypeOK, sidecar, home, syncing, past, bounds
<1>5. CASE Refresh
  BY <1>5, <1>a DEF Refresh, SyncInv, RestTypeOK, sidecar, home, syncing, past, bounds
<1>6. CASE Probe
  BY <1>6, <1>a DEF Probe, Sync, SyncInv, RestTypeOK, Quiet, sidecar, home, past
<1>7. CASE Synced
  BY <1>7, <1>a DEF Synced, SyncInv, RestTypeOK, sidecar, home, syncing, past, bounds
<1>8. CASE Record
  BY <1>8, <1>a DEF Record, SyncInv, RestTypeOK, sidecar, home, syncing, past, bounds
<1>9. CASE SyncFails
  BY <1>9, <1>a DEF SyncFails, Broken, SyncInv, RestTypeOK, sidecar, home, syncing, past, bounds
<1>10. ASSUME NEW s \in Skills, SyncSkill(s) PROVE SyncInv'
  <2>1. \A r \in todo' : r # s /\ r \in todo
    BY <1>10 DEF SyncSkill
  <2>2. QED
    BY <1>10, <1>a, <2>1 DEF SyncSkill, SyncInv, RestTypeOK
<1>11. ASSUME NEW s \in Skills, InstallStops(s) PROVE SyncInv'
  BY <1>11, <1>a DEF InstallStops, Broken, SyncInv, RestTypeOK, sidecar, home, syncing, past, bounds
<1>12. CASE BeginTurn
  BY <1>12, <1>a DEF BeginTurn, SyncInv, RestTypeOK, sidecar, home, syncing, past, bounds
<1>13. CASE ByHand
  BY <1>13, <1>a DEF ByHand, SyncInv, RestTypeOK, sidecar, home, syncing, past, bounds
<1>14. CASE FailTurn
  BY <1>14, <1>a DEF FailTurn, SyncInv, RestTypeOK, sidecar, home, syncing, past, bounds
<1>15. CASE EndTurn
  BY <1>15, <1>a DEF EndTurn, SyncInv, RestTypeOK, sidecar, home, syncing, past, bounds
<1>16. CASE Kill
  BY <1>16, <1>a DEF Kill, SyncInv, RestTypeOK, sidecar, home, syncing, past, bounds
<1>17. CASE SkillFreeze
  BY <1>17, <1>a DEF SkillFreeze, SyncInv, RestTypeOK, sidecar, home, syncing, past, bounds
<1>18. CASE Restore
  BY <1>18, <1>a DEF Restore, SyncInv, RestTypeOK, sidecar, home, syncing, past, bounds
<1>19. CASE UNCHANGED skillVars
  BY <1>19, <1>a DEF skillVars, SyncInv, RestTypeOK, sidecar, home, syncing, past, bounds
<1>20. QED
  BY <1>1, <1>2, <1>3, <1>4, <1>5, <1>6, <1>7, <1>8, <1>9, <1>10, <1>11, <1>12, <1>13, <1>14,
     <1>15, <1>16, <1>17, <1>18, <1>19 DEF SkillNext

\* Every action keeps the note right.
LEMMA NoteStep == ASSUME SkillInv, SkillNext \/ UNCHANGED skillVars PROVE NoteInv'
<1>a. RestTypeOK /\ SyncInv /\ NoteInv
  BY DEF SkillInv, SkillTypeOK, PastTypeOK, RestTypeOK, Dirs
<1>b. \A a \in ChangeKinds : foldCodexSkillChange(a, "none") = a
  BY FoldIsKind DEF ChangeKinds
<1>c. \A s \in Skills : Quiet[s] = "none"
  BY DEF Quiet
<1> HIDE DEF Seeds, None, Quiet, ChangeKinds, Homes, Dirs, Right, foldCodexSkillChange, NewSeeder, Changed
<1>1. CASE Bootstrap
  BY <1>1, <1>a DEF Bootstrap, NoteInv, RestTypeOK, SyncInv, sidecar, home, syncing, past, bounds
<1>2. CASE MarketMoves
  BY <1>2, <1>a DEF MarketMoves, NoteInv, RestTypeOK, SyncInv, sidecar, home, syncing, past, bounds
<1>3. CASE Refreshed
  BY <1>3, <1>a DEF Refreshed, NoteInv, RestTypeOK, SyncInv, sidecar, home, syncing, past, bounds
<1>4. CASE RestartSidecar
  BY <1>4, <1>a DEF RestartSidecar, NoteInv, RestTypeOK, SyncInv, sidecar, home, syncing, past, bounds
<1>5. CASE Refresh
  BY <1>5, <1>a DEF Refresh, NoteInv, RestTypeOK, SyncInv, sidecar, home, syncing, past, bounds
<1>6. CASE Probe
  <2>1. UNCHANGED <<note, seen, hasRun, homeArchive, missed, dir, changes>>
    BY <1>6, <1>a DEF Probe, Sync, SyncInv, home, past
  <2>2. QED
    BY <1>a, <2>1 DEF NoteInv
<1>7. CASE Synced
  BY <1>7, <1>a DEF Synced, NoteInv, RestTypeOK, SyncInv, sidecar, home, syncing, past, bounds
<1>8. CASE Record
  <2>1. UNCHANGED <<seen, dir, hasRun, homeArchive, missed>> /\ changes' = Quiet
    BY <1>8 DEF Record, past
  <2>2. \A s \in Skills : foldCodexSkillChange(note[s], changes[s]) \in ChangeKinds
    BY <1>a, FoldIsKind DEF RestTypeOK
  <2>3. \A s \in Skills : foldCodexSkillChange(note'[s], changes'[s]) = foldCodexSkillChange(note[s], changes[s])
    BY <1>8, <1>b, <1>c, <2>1, <2>2 DEF Record
  <2>4. QED
    BY <1>a, <2>1, <2>3 DEF NoteInv
<1>9. CASE SyncFails
  <2>1. \A s \in Skills \ missed' : s \notin missed /\ changes[s] = "none" /\ changes'[s] = "none"
    BY <1>9, <1>a, <1>c DEF SyncFails, Broken, RestTypeOK, Changed
  <2>2. UNCHANGED <<note, seen, hasRun, dir, homeArchive>>
    BY <1>9 DEF SyncFails, home
  <2>3. QED
    BY <1>a, <2>1, <2>2 DEF NoteInv, RestTypeOK
<1>10. ASSUME NEW s \in Skills, SyncSkill(s) PROVE NoteInv'
  <2>a. /\ changes[s] = "none" /\ note[s] \in ChangeKinds /\ seen[s] \in Dirs /\ dir[s] \in Dirs
        /\ target[s] \in Versions \cup {"absent"}
    BY <1>10, <1>a DEF SyncSkill, SyncInv, RestTypeOK, Seeds
  <2>b. UNCHANGED <<note, seen, hasRun, homeArchive, missed>>
    BY <1>10 DEF SyncSkill, past
  <2>c. \A r \in Skills : r # s => dir'[r] = dir[r] /\ changes'[r] = changes[r]
    BY <1>10, <1>a DEF SyncSkill, RestTypeOK
  <2>d. SUFFICES ASSUME hasRun, s \notin missed
                 PROVE  Right(foldCodexSkillChange(note[s], changes'[s]), seen[s], dir'[s])
    BY <1>a, <2>b, <2>c DEF NoteInv
  <2>e. Right(note[s], seen[s], dir[s])
    BY <1>a, <1>b, <2>a, <2>d DEF NoteInv
  <2>1. CASE Stale(s)
    <3>1. dir'[s] = "absent" /\ changes'[s] = "removed"
      BY <1>10, <1>a, <2>1 DEF SyncSkill, Stale, ToInstall, RestTypeOK
    <3>2. QED
      BY <2>a, <2>e, <2>1, <3>1, FoldRemoved DEF Stale, Managed
  <2>2. CASE ~Stale(s) /\ ToInstall(s)
    <3>1. dir'[s] = target[s] /\ target[s] \in Versions
      BY <1>10, <1>a, <2>a, <2>2 DEF SyncSkill, ToInstall, RestTypeOK
    <3>2. CASE Managed(s)
      <4>1. changes'[s] = "updated"
        BY <1>10, <1>a, <2>2, <3>2 DEF SyncSkill, RestTypeOK
      <4>2. QED
        BY <2>a, <2>e, <3>1, <3>2, <4>1, FoldUpdated DEF Managed
    <3>3. CASE ~Managed(s)
      <4>1. changes'[s] = "added" /\ dir[s] = "absent"
        BY <1>10, <1>a, <2>a, <2>2, <3>3 DEF SyncSkill, ToInstall, Managed, RestTypeOK, Dirs
      <4>2. QED
        BY <2>a, <2>e, <3>1, <4>1, FoldAdded
    <3>4. QED
      BY <3>2, <3>3
  <2>3. CASE ~Stale(s) /\ ~ToInstall(s)
    <3>1. dir'[s] = dir[s] /\ changes'[s] = "none"
      BY <1>10, <1>a, <2>3 DEF SyncSkill, RestTypeOK
    <3>2. QED
      BY <1>b, <2>a, <2>e, <3>1
  <2>4. QED
    BY <2>1, <2>2, <2>3
<1>11. ASSUME NEW s \in Skills, InstallStops(s) PROVE NoteInv'
  <2>1. \A r \in Skills \ missed' : r # s /\ r \notin missed /\ changes[r] = "none" /\ changes'[r] = "none"
    BY <1>11, <1>a, <1>c DEF InstallStops, Broken, RestTypeOK, Changed
  <2>2. UNCHANGED <<note, seen, hasRun, homeArchive>> /\ \A r \in Skills : r # s => dir'[r] = dir[r]
    BY <1>11, <1>a DEF InstallStops, RestTypeOK
  <2>3. QED
    BY <1>a, <2>1, <2>2 DEF NoteInv, RestTypeOK
<1>12. CASE BeginTurn
  BY <1>12, <1>a DEF BeginTurn, NoteInv, RestTypeOK, SyncInv, sidecar, home, syncing, past, bounds
<1>13. CASE ByHand
  <2>1. \A r \in Skills \ missed' : r \notin missed /\ dir'[r] = dir[r]
    BY <1>13, <1>a DEF ByHand, RestTypeOK
  <2>2. UNCHANGED <<note, seen, hasRun, homeArchive, changes>>
    BY <1>13 DEF ByHand, syncing
  <2>3. QED
    BY <1>a, <2>1, <2>2 DEF NoteInv, RestTypeOK
<1>14. CASE FailTurn
  BY <1>14, <1>a DEF FailTurn, NoteInv, RestTypeOK, SyncInv, sidecar, home, syncing, past, bounds
<1>15. CASE EndTurn
  <2>1. \A r \in Skills \ missed' : note'[r] = "none" /\ changes'[r] = "none" /\ seen'[r] = dir'[r]
    BY <1>15, <1>a, <1>c DEF EndTurn, RestTypeOK, SyncInv, syncing
  <2>2. "none" \in ChangeKinds /\ UNCHANGED homeArchive
    BY <1>15 DEF EndTurn, ChangeKinds
  <2>3. \A r \in Skills \ missed' : Right(foldCodexSkillChange(note'[r], changes'[r]), seen'[r], dir'[r])
    BY <1>b, <2>1, <2>2 DEF Right
  <2>4. QED
    BY <1>a, <2>2, <2>3 DEF NoteInv
<1>16. CASE Kill
  <2>1. \A s \in Skills \ missed' : s \notin missed /\ changes[s] = "none" /\ changes'[s] = "none"
    BY <1>16, <1>a, <1>c DEF Kill, RestTypeOK, Changed
  <2>2. UNCHANGED <<note, seen, hasRun, dir, homeArchive>>
    BY <1>16 DEF Kill, home
  <2>3. QED
    BY <1>a, <2>1, <2>2 DEF NoteInv, RestTypeOK
<1>17. CASE SkillFreeze
  <2>1. \A s \in Skills : foldCodexSkillChange(note[s], changes[s]) = note[s]
    BY <1>17, <1>a, <1>b, <1>c DEF SkillFreeze, SyncInv, RestTypeOK
  <2>2. UNCHANGED <<note, seen, hasRun, dir, missed, changes>>
    BY <1>17 DEF SkillFreeze, home, syncing, past
  <2>3. /\ homeArchive'.dir = dir /\ homeArchive'.note = note /\ homeArchive'.hasRun = hasRun
        /\ homeArchive'.seen = seen /\ homeArchive'.missed = missed
    BY <1>17 DEF SkillFreeze
  <2>4. QED
    BY <1>a, <2>1, <2>2, <2>3 DEF NoteInv
<1>18. CASE Restore
  <2>1. \A s \in Skills : foldCodexSkillChange(note'[s], changes'[s]) = homeArchive.note[s]
    BY <1>18, <1>a, <1>b, <1>c, HomeParts DEF Restore, SyncInv, RestTypeOK
  <2>2. QED
    BY <1>18, <1>a, <2>1 DEF Restore, NoteInv
<1>19. CASE UNCHANGED skillVars
  BY <1>19, <1>a DEF skillVars, NoteInv, RestTypeOK, SyncInv, sidecar, home, syncing, past, bounds
<1>20. QED
  BY <1>1, <1>2, <1>3, <1>4, <1>5, <1>6, <1>7, <1>8, <1>9, <1>10, <1>11, <1>12, <1>13, <1>14,
     <1>15, <1>16, <1>17, <1>18, <1>19 DEF SkillNext

\* Every action keeps what is said of the seed.
LEMMA SeedStep == ASSUME SkillInv, SkillNext \/ UNCHANGED skillVars PROVE SeedInv'
<1>a. RestTypeOK /\ SeedInv /\ seeder \in Seeders /\ SkillTypeOK
  BY DEF SkillInv, SkillTypeOK, PastTypeOK, RestTypeOK, Dirs, Seeders, States
<1> HIDE DEF Seeds, None, ChangeKinds, Homes, Dirs, Changed, Quiet, NewSeeder
<1>1. CASE Bootstrap
  <2>1. CASE Read
    BY <1>1, <1>a, <2>1, ReadIs DEF Bootstrap, WasRead, SeedInv, RestTypeOK, syncing
  <2>2. CASE ~Read
    <3>1. /\ UNCHANGED served /\ seeder.state = "bootstrapping"
          /\ seeder' = [seeder EXCEPT !.failed = @ + 1,
                                      !.state = IF seeder.failed + 1 = Attempts THEN "failed" ELSE @]
      BY <1>1, <2>2 DEF Bootstrap
    <3>2. seeder.failed + 1 \in 0 .. Attempts
      BY SkillSyncAssumption, <1>a, <3>1, SeederParts DEF SeedInv
    <3>3. (IF seeder.failed + 1 = Attempts THEN "failed" ELSE seeder.state) \in States
      BY <1>a, SeederParts DEF States
    <3> DEFINE f == seeder.failed + 1
               st == IF f = Attempts THEN "failed" ELSE seeder.state
    <3>4. seeder' = [seeder EXCEPT !.failed = f, !.state = st]
      BY <3>1
    <3>5. f \in 0 .. Attempts /\ st \in States
      BY <3>2, <3>3
    <3>6. seeder'.state = st /\ seeder'.failed = f
      <4> HIDE DEF f, st, Seeders, States
      <4>1. seeder \in Seeders
        BY <1>a
      <4>2. FailedAs(seeder', seeder, f, st)
        BY <4>1, <3>4, <3>5, SeederFails
      <4>3. QED
        BY <4>2 DEF FailedAs
    <3>7. QED
      BY SkillSyncAssumption, <1>1, <1>a, <3>1, <3>2, <3>6 DEF Bootstrap, SeedInv, syncing
  <2>3. QED
    BY <2>1, <2>2
<1>2. CASE MarketMoves
  BY <1>2, <1>a DEF MarketMoves, SeedInv, RestTypeOK, sidecar, home, syncing, past, bounds
<1>3. CASE Refreshed
  <2>1. CASE Read
    BY <1>3, <1>a, <2>1, ReadIs DEF Refreshed, WasRead, SeedInv, RestTypeOK, syncing, SeederParts
  <2>2. CASE ~Read
    <3>1. seeder'.state = seeder.state /\ seeder'.plugins = seeder.plugins /\ seeder'.failed = seeder.failed
      BY <1>3, <1>a, <2>2 DEF Refreshed, Seeders
    <3>2. QED
      BY <1>3, <1>a, <2>2, <3>1 DEF Refreshed, SeedInv, RestTypeOK, syncing
  <2>3. QED
    BY <2>1, <2>2
<1>4. CASE RestartSidecar
  BY SkillSyncAssumption, <1>4, <1>a, NewSeederIs DEF RestartSidecar, SeedInv, RestTypeOK, syncing
<1>5. CASE Refresh
  <2>1. /\ seeder'.state = seeder.state /\ seeder'.plugins = seeder.plugins /\ seeder'.failed = seeder.failed
        /\ (seeder'.busy = seeder.busy \/ seeder.state # "unconfigured")
    BY <1>5, <1>a DEF Refresh, Seeders
  <2>2. (seeder.state # "unconfigured" => configured) /\ UNCHANGED configured
    BY <1>5, <1>a, SeederParts DEF Refresh, SeedInv, States, RestTypeOK
  <2>3. QED
    BY <1>5, <1>a, <2>1, <2>2 DEF Refresh, SeedInv
<1>6. CASE Probe
  BY <1>6, <1>a DEF Probe, Sync, SeedInv, RestTypeOK, sidecar, home, syncing, past, bounds
<1>7. CASE Synced
  BY <1>7, <1>a DEF Synced, SeedInv, RestTypeOK, sidecar, home, syncing, past, bounds
<1>8. CASE Record
  BY <1>8, <1>a DEF Record, SeedInv, RestTypeOK, sidecar, home, syncing, past, bounds
<1>9. CASE SyncFails
  BY <1>9, <1>a DEF SyncFails, Broken, SeedInv, RestTypeOK, sidecar, home, syncing, past, bounds
<1>10. ASSUME NEW s \in Skills, SyncSkill(s) PROVE SeedInv'
  BY <1>10, <1>a DEF SyncSkill, SeedInv, RestTypeOK, sidecar, home, syncing, past, bounds
<1>11. ASSUME NEW s \in Skills, InstallStops(s) PROVE SeedInv'
  BY <1>11, <1>a DEF InstallStops, Broken, SeedInv, RestTypeOK, sidecar, home, syncing, past, bounds
<1>12. CASE BeginTurn
  BY <1>12, <1>a DEF BeginTurn, SeedInv, RestTypeOK, sidecar, home, syncing, past, bounds
<1>13. CASE ByHand
  BY <1>13, <1>a DEF ByHand, SeedInv, RestTypeOK, sidecar, home, syncing, past, bounds
<1>14. CASE FailTurn
  BY <1>14, <1>a DEF FailTurn, SeedInv, RestTypeOK, sidecar, home, syncing, past, bounds
<1>15. CASE EndTurn
  BY <1>15, <1>a DEF EndTurn, SeedInv, RestTypeOK, sidecar, home, syncing, past, bounds
<1>16. CASE Kill
  BY <1>16, <1>a DEF Kill, SeedInv, RestTypeOK, sidecar, home, syncing, past, bounds
<1>17. CASE SkillFreeze
  BY <1>17, <1>a DEF SkillFreeze, SeedInv, RestTypeOK, sidecar, home, syncing, past, bounds
<1>18. CASE Restore
  BY SkillSyncAssumption, <1>18, <1>a, NewSeederIs DEF Restore, SeedInv, RestTypeOK
<1>19. CASE UNCHANGED skillVars
  BY <1>19, <1>a DEF skillVars, SeedInv, RestTypeOK, sidecar, home, syncing, past, bounds
<1>20. QED
  BY <1>1, <1>2, <1>3, <1>4, <1>5, <1>6, <1>7, <1>8, <1>9, <1>10, <1>11, <1>12, <1>13, <1>14,
     <1>15, <1>16, <1>17, <1>18, <1>19 DEF SkillNext

-----------------------------------------------------------------------------
\* A first boot satisfies the invariant.
LEMMA SkillInitHolds == ASSUME SkillInit PROVE SkillInv
<1>1. configured \in BOOLEAN /\ market \in Seeds
  BY DEF SkillInit
<1>2. NewSeeder \in Seeders /\ NewSeeder.failed = 0 /\ ~NewSeeder.busy
      /\ NewSeeder.state = IF configured THEN "bootstrapping" ELSE "unconfigured"
  BY <1>1, NewSeederIs
<1>3. Seeds \subseteq [Skills -> Dirs] /\ None \in Seeds /\ Quiet \in [Skills -> ChangeKinds]
  BY SeedsAreDirs, NoneIsSeed
<1>4. homeArchive \in Homes
  <2> HIDE DEF None, Quiet, ChangeKinds, Dirs
  <2>1. QED
    BY <1>3 DEF SkillInit, Homes
<1>5. RestTypeOK /\ seeder \in Seeders
  <2> HIDE DEF None, Quiet, Seeds, Seeders, ChangeKinds, Dirs, Homes, NewSeeder
  <2>1. QED
    BY <1>1, <1>2, <1>3, <1>4 DEF SkillInit, RestTypeOK
<1>6. SkillTypeOK /\ PastTypeOK
  BY <1>5 DEF SkillTypeOK, PastTypeOK, RestTypeOK, Seeders, States, Dirs
<1>7. SyncInv /\ NoteInv /\ SeedInv
  <2> HIDE DEF None, Quiet, NewSeeder
  <2>1. QED
    BY SkillSyncAssumption, <1>2 DEF SkillInit, SyncInv, NoteInv, SeedInv
<1>8. QED
  BY <1>6, <1>7 DEF SkillInv

\* The inductive invariant of the skills, with every type.
THEOREM SkillInvHolds == SkillSpec => []SkillInv
<1>1. SkillInit => SkillInv
  BY SkillInitHolds
<1>2. SkillInv /\ [SkillNext]_skillVars => SkillInv'
  <2>1. ASSUME SkillInv, SkillNext \/ UNCHANGED skillVars PROVE SkillInv'
    <3>1. Typed'
      BY <2>1, SkillTypeStep
    <3>2. SkillTypeOK' /\ PastTypeOK'
      BY <3>1 DEF Typed, SkillTypeOK, PastTypeOK, RestTypeOK, Seeders, States, Dirs
    <3>3. SyncInv' /\ NoteInv' /\ SeedInv'
      BY <2>1, SyncStep, NoteStep, SeedStep
    <3>4. QED
      BY <3>2, <3>3 DEF SkillInv
  <2>2. QED
    BY <2>1
<1>3. QED
  BY <1>1, <1>2, PTL DEF SkillSpec

\* Between turns the note says of every skill how it changed since the last successful
\* turn (recordCodexSkillChanges, foldCodexSkillChange, clearTurnNotice).
THEOREM NotesAreRight == SkillSpec => []NoteNamesChanges
<1>1. SkillInv => NoteNamesChanges
  <2> SUFFICES ASSUME SkillInv, pc = "idle", hasRun, NEW s \in Skills \ missed
               PROVE  Right(note[s], seen[s], dir[s])
    BY DEF NoteNamesChanges, Right
  <2>1. changes[s] = "none" /\ note[s] \in ChangeKinds
    BY DEF SkillInv, SyncInv, Quiet, SkillTypeOK
  <2>2. foldCodexSkillChange(note[s], changes[s]) = note[s]
    BY <2>1, FoldIsKind DEF ChangeKinds
  <2>3. QED
    BY <2>2 DEF SkillInv, NoteInv
<1>2. QED
  BY <1>1, SkillInvHolds, PTL

\* A refresh takes a skill away only when a marketplace without it was read since it was
\* asked for (refresh, refreshPlugins).
THEOREM RefreshesKeepSkills == SkillSpec => RefreshKeepsSkills
<1> DEFINE Kept == why = "refresh" =>
                      \A s \in Skills : changes[s] # "removed" /\ changes'[s] = "removed"
                                          => \E m \in served : m[s] = "absent"
<1>1. SkillInv /\ SkillInv' /\ [SkillNext]_skillVars => [Kept]_skillVars
  <2> SUFFICES ASSUME SkillInv, SkillNext, why = "refresh", NEW s \in Skills,
                      changes[s] # "removed", changes'[s] = "removed"
               PROVE  \E m \in served : m[s] = "absent"
    OBVIOUS
  <2>1. changes' # Quiet /\ changes' # changes
    BY DEF Quiet
  <2>2. ~(\/ Bootstrap \/ MarketMoves \/ Refreshed \/ RestartSidecar \/ Refresh \/ Probe \/ Synced \/ Record
          \/ SyncFails \/ BeginTurn \/ ByHand \/ FailTurn \/ EndTurn \/ Kill \/ SkillFreeze \/ Restore)
    <3> HIDE DEF Quiet
    <3>1. QED
      BY <2>1 DEF Bootstrap, MarketMoves, Refreshed, RestartSidecar, Refresh, Probe, Sync, Synced, Record,
          SyncFails, Broken, BeginTurn, ByHand, FailTurn, EndTurn, Kill, SkillFreeze, Restore, syncing
  <2>3. PICK r \in Skills : SyncSkill(r) \/ InstallStops(r)
    BY <2>2 DEF SkillNext
  <2>4. SyncSkill(r)
    BY <2>1, <2>3 DEF InstallStops, Broken
  <2>5. r = s /\ Stale(s)
    BY <2>4 DEF SyncSkill, SkillInv, SkillTypeOK
  <2>6. target \in served /\ target[s] = "absent"
    BY <2>4, <2>5 DEF SyncSkill, Stale, SkillInv, SeedInv
  <2>7. QED
    BY <2>6
<1>2. QED
  BY <1>1, SkillInvHolds, PTL DEF SkillSpec, RefreshKeepsSkills
=============================================================================
