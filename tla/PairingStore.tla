----------------------------- MODULE PairingStore -----------------------------
(***************************************************************************)
(* The host's paired-device list and the file behind it                    *)
(* (crates/transport/src/pairing.rs), as its two users work it: the accept *)
(* loop (accept_with, rename) and the window's "Paired devices" panel      *)
(* (crates/host-ui/src/pairing.rs), on threads that share only the file.   *)
(*                                                                         *)
(* A save is the four system calls of write_private: open the one shared   *)
(* temporary name with O_TRUNC, write, fsync, rename.  Files are sequences *)
(* of lines, and all lines have one length, so that a text written over    *)
(* another replaces a whole number of lines.  Written data is durable only *)
(* after fsync; a rename only once the system has written the folder back, *)
(* which nothing in the code waits for.  The host has a PIN set.           *)
(***************************************************************************)
EXTENDS Naturals, Sequences, FiniteSets

CONSTANTS
  Devices,     \* the keys of client devices
  Inodes,      \* files of the config folder, named or still open
  Overlap,     \* TRUE: one thread may start a save while the other is in one
  MaxFaults,   \* bound of the model: power cuts, failed reads and writes,
               \* removals and edits by hand
  MaxEarlier,  \* bound of the model: changes of the file a power cut may undo
  NoFile       \* a name that is not there; io::ErrorKind::NotFound

(* Without Overlap two inodes suffice, the file and its replacement.       *)
ASSUME StoreAssumption ==
  /\ IsFiniteSet(Devices)
  /\ NoFile \notin Inodes
  /\ Inodes # {} /\ \A i \in Inodes : \E j \in Inodes : j # i
  /\ Overlap \in BOOLEAN
  /\ MaxFaults \in Nat
  /\ MaxEarlier \in Nat

VARIABLES
  dir,       \* what the names "path" and "tmp" refer to
  data,      \* the lines of each inode
  synced,    \* the inodes whose data would survive a power cut
  earlier,   \* what "path" held under the folders a power cut may bring back
  save,      \* per thread, the save it is in
  loop,      \* the accept loop: where it is, for which device, its PairingStore
  panel,     \* where the panel is
  minted,    \* identities generated and saved so far
  fate,      \* history: how each device was last forgotten
  removed,   \* history: somebody has removed the file by hand
  faults     \* power cuts, failures, removals and edits so far

fs      == <<dir, data, synced, earlier>>
past    == <<fate, removed, faults>>
store   == <<dir, data, synced, earlier, save, loop, panel, minted, fate, removed, faults>>

Procs == {"loop", "panel"}
MaxIds == 2 * (1 + MaxFaults)

IdentityLine(i) == [identity |-> i]
PeerLine(d, named) == [peer |-> d, named |-> named]
Torn     == [torn |-> TRUE]      \* half a line
Rejected == [rejected |-> TRUE]  \* a line of a corrupt or newer file

Peers  == {PeerLine(d, n) : d \in Devices, n \in BOOLEAN}
Keys(peers) == {peers[i].peer : i \in DOMAIN peers}
(* Lists that name a device once.                                          *)
Lists  == {s \in UNION {[1..n -> Peers] : n \in 0..Cardinality(Devices)} :
             \A i, j \in DOMAIN s : s[i].peer = s[j].peer => i = j}
TextOf(id, peers) == <<IdentityLine(id)>> \o peers
Texts  == {TextOf(i, l) : i \in 1..MaxIds, l \in Lists}

Lines  == {IdentityLine(i) : i \in 1..MaxIds} \cup Peers \cup {Torn, Rejected}

Corrupt == <<Rejected>>
Files   == Texts \cup {Corrupt}

ASSUME NoText == NoFile \notin Files

(* parse: an identity, and no line it rejects.                             *)
Parses(t) == t # <<>> /\ \A i \in DOMAIN t : t[i] \notin {Torn, Rejected}

(* Mutant: a device that pairs again is listed twice.                      *)
Without_Nobody(peers, d) == peers

(* retain(|p| p.key != key), of a list that names a device once.           *)
Without(peers, d) ==
  LET at == CHOOSE i \in DOMAIN peers : peers[i].peer = d
  IN IF d \in Keys(peers) THEN SubSeq(peers, 1, at - 1) \o SubSeq(peers, at + 1, Len(peers)) ELSE peers
Renamed(peers, d) == [i \in DOMAIN peers |-> IF peers[i].peer = d THEN PeerLine(d, TRUE) ELSE peers[i]]

(* What is left of `old` past the end of `new` stays in the file.          *)
WrittenOver(new, old) == new \o SubSeq(old, Len(new) + 1, Len(old))

-----------------------------------------------------------------------------
(* The file as read_to_string and parse see it.                            *)
Missing  == dir.path = NoFile
Content  == IF Missing THEN NoFile ELSE data[dir.path]
Readable == ~Missing /\ Parses(Content)
DiskPeers    == IF Readable THEN Tail(Content) ELSE <<>>
DiskIdentity == IF Readable THEN Content[1].identity ELSE 0

(* A save ends "done" or "failed", until the thread has seen which.        *)
NotSaving   == [step |-> "none", text |-> <<>>, fd |-> NoFile]
Returned(p) == save[p].step \in {"done", "failed"}
Writing(p)  == save[p].step \in {"open", "write", "sync", "rename"}
MayStart    == Overlap \/ \A p \in Procs : ~Writing(p)

BeginSave(p, text) == save' = [save EXCEPT ![p] = [step |-> "open", text |-> text, fd |-> NoFile]]
EndSave(p, how)    == save' = [save EXCEPT ![p] = [NotSaving EXCEPT !.step = how]]
Seen(p)            == Returned(p) /\ EndSave(p, "none")

FreeInode == CHOOSE i \in Inodes : i \notin {dir.path, dir.tmp, save["loop"].fd, save["panel"].fd}

(* open(tmp) with create and truncate.                                     *)
SaveOpen(p) ==
  /\ save[p].step = "open"
  /\ LET i == IF dir.tmp = NoFile THEN FreeInode ELSE dir.tmp IN
       /\ dir' = [dir EXCEPT !.tmp = i]
       /\ data' = [data EXCEPT ![i] = <<>>]
       /\ synced' = synced \ {i}
       /\ save' = [save EXCEPT ![p].step = "write", ![p].fd = i]
  /\ UNCHANGED <<earlier, loop, panel, minted, past>>

SaveWrite(p) ==
  /\ save[p].step = "write"
  /\ data' = [data EXCEPT ![save[p].fd] = WrittenOver(save[p].text, @)]
  /\ synced' = synced \ {save[p].fd}
  /\ save' = [save EXCEPT ![p].step = "sync"]
  /\ UNCHANGED <<dir, earlier, loop, panel, minted, past>>

Fault == faults < MaxFaults /\ faults' = faults + 1

(* A full disk: write_all has written some of it, and the save returns.    *)
SaveFails(p) ==
  /\ save[p].step = "write"
  /\ Fault
  /\ \E n \in {0, Len(save[p].text) - 1} :
       data' = [data EXCEPT ![save[p].fd] = WrittenOver(SubSeq(save[p].text, 1, n), @)]
  /\ synced' = synced \ {save[p].fd}
  /\ EndSave(p, "failed")
  /\ UNCHANGED <<dir, earlier, loop, panel, minted, fate, removed>>

(* Mutant: no fsync before the rename.                                     *)
SaveSync_Skipped(p) ==
  /\ save[p].step = "sync"
  /\ save' = [save EXCEPT ![p].step = "rename"]
  /\ UNCHANGED <<fs, loop, panel, minted, past>>

SaveSync(p) ==
  /\ save[p].step = "sync"
  /\ synced' = synced \cup {save[p].fd}
  /\ save' = [save EXCEPT ![p].step = "rename"]
  /\ UNCHANGED <<dir, data, earlier, loop, panel, minted, past>>

(* What is left of an inode: of unsynced data any prefix reached the disk, *)
(* perhaps with half a line more.                                          *)
Remains(i) ==
  IF i \in synced THEN {data[i]}
  ELSE {SubSeq(data[i], 1, n) : n \in 0..Len(data[i])}
         \cup {Append(SubSeq(data[i], 1, n), Torn) : n \in 0..(Len(data[i]) - 1)}

(* What a power cut would leave under "path" if the folder were written.   *)
OnDisk == IF Missing THEN {NoFile} ELSE Remains(dir.path)

(* The bound: the system writes the folder back every so often.            *)
Replaced == Cardinality(earlier) < MaxEarlier /\ earlier' = earlier \cup OnDisk

(* The loop has read a list it may yet write back, or admit d from.        *)
InHand(d) == \/ loop.at \in {"reloading", "pairing", "remembering", "naming", "renaming"}
             \/ loop.at = "known" /\ loop.dev = d

Forgotten == [d \in Devices |-> IF InHand(d) THEN "raced" ELSE "firm"]

(* rename(tmp, path): whatever tmp refers to by now, or NotFound.          *)
SaveRename(p) ==
  /\ save[p].step = "rename"
  /\ EndSave(p, IF dir.tmp = NoFile THEN "failed" ELSE "done")
  /\ dir'  = IF dir.tmp = NoFile THEN dir ELSE [path |-> dir.tmp, tmp |-> NoFile]
  /\ data' = IF dir.tmp = NoFile \/ Missing THEN data ELSE [data EXCEPT ![dir.path] = <<>>]
  /\ fate' = IF p = "panel" /\ panel = "forgetting" /\ dir.tmp # NoFile
             THEN Forgotten
             ELSE fate
  /\ synced' = IF dir.tmp = NoFile THEN synced ELSE synced \ {dir.path}
  /\ IF dir.tmp = NoFile THEN UNCHANGED earlier ELSE Replaced
  /\ UNCHANGED <<loop, panel, minted, removed, faults>>

-----------------------------------------------------------------------------
(* The accept loop.  loop = [at, dev, then, backed, id, peers]: the last   *)
(* three are its PairingStore (backed: it has a file).                     *)

Down == [at |-> "down", dev |-> NoFile, then |-> "idle", backed |-> FALSE, id |-> 0, peers |-> <<>>]

(* A read of the file can fail for reasons of its own.                     *)
Reading(ok) == IF ok THEN UNCHANGED faults ELSE Fault

OpenStore(create, ok) ==
  /\ loop' = [loop EXCEPT !.at     = IF create THEN "creating" ELSE "idle",
                          !.backed = create \/ (ok /\ Readable),
                          !.id     = IF create THEN minted + 1 ELSE IF ok THEN DiskIdentity ELSE 0,
                          !.peers  = IF ok THEN DiskPeers ELSE <<>>]
  /\ IF create THEN /\ minted' = minted + 1
                    /\ BeginSave("loop", TextOf(minted + 1, <<>>))
     ELSE UNCHANGED <<minted, save>>

(* Mutant: a file that does not parse is taken for one that is not there.  *)
LoopStarts_Replaces ==
  /\ loop.at = "down"
  /\ MayStart
  /\ OpenStore(~Readable, TRUE)
  /\ UNCHANGED <<fs, panel, past>>

(* pairing_store: open the file, create it, or fall back to memory.        *)
LoopStarts ==
  /\ loop.at = "down"
  /\ MayStart
  /\ \E ok \in BOOLEAN : Reading(ok) /\ OpenStore(ok /\ Missing, ok)
  /\ UNCHANGED <<fs, panel, fate, removed>>

(* The new file is there, or could not be written and the store is in      *)
(* memory only.                                                            *)
LoopCreated ==
  /\ loop.at = "creating"
  /\ Seen("loop")
  /\ loop' = [loop EXCEPT !.at = "idle", !.backed = save["loop"].step = "done"]
  /\ UNCHANGED <<fs, panel, minted, past>>

(* reload: take the file's word; deleted underneath us, forget everyone    *)
(* and write it back before going on with `then`.  A file that cannot be   *)
(* read or parsed is an error, and the list is as it was: go on with `or`. *)
Unread(ok) == loop.backed /\ ~(ok /\ (Missing \/ Readable))

Reload(dev, then, or, ok) ==
  IF loop.backed /\ ok /\ Missing
  THEN /\ MayStart
       /\ loop' = [loop EXCEPT !.at = "reloading", !.dev = dev, !.then = then, !.peers = <<>>]
       /\ BeginSave("loop", TextOf(loop.id, <<>>))
  ELSE /\ loop' = IF loop.backed /\ ~Unread(ok)
                  THEN [loop EXCEPT !.at = then, !.dev = dev, !.id = DiskIdentity, !.peers = DiskPeers]
                  ELSE [loop EXCEPT !.at = IF Unread(ok) THEN or ELSE then, !.dev = dev]
       /\ UNCHANGED save

(* Mutant: a connection is judged by the list as the loop last knew it.    *)
Connects_NoReload(d, mode) ==
  /\ loop.at = "idle"
  /\ loop' = [loop EXCEPT !.at = mode, !.dev = d]
  /\ UNCHANGED <<fs, save, panel, minted, past>>

(* Whoever was firmly forgotten and is on the list still in hand.          *)
StillInHand == [d \in Devices |-> IF fate[d] = "firm" /\ d \in Keys(loop.peers) THEN "raced" ELSE fate[d]]

(* accept_v2 reads the mode and reloads, and `let _ = store.reload()`: an   *)
(* error is ignored, and the client judged by the list the loop has.       *)
Connects(d, mode) ==
  /\ loop.at = "idle"
  /\ \E ok \in BOOLEAN :
       /\ Reading(ok)
       /\ Reload(d, mode, mode, ok)
       /\ fate' = IF Unread(ok) THEN StillInHand ELSE fate
  /\ UNCHANGED <<fs, panel, minted, removed>>

Reloaded ==
  /\ loop.at = "reloading"
  /\ Seen("loop")
  /\ loop' = [loop EXCEPT !.at = loop.then, !.then = "idle"]
  /\ UNCHANGED <<fs, panel, minted, past>>

(* The client never proves itself, or leaves; so does a session end.       *)
HangsUp ==
  /\ loop.at \in {"pairing", "known", "greeting", "session"}
  /\ loop' = [loop EXCEPT !.at = "idle", !.dev = NoFile]
  /\ UNCHANGED <<fs, save, panel, minted, past>>

(* The PIN is proven: remember(key, address), in memory and then on disk.  *)
PinProven ==
  /\ loop.at = "pairing"
  /\ LET listed == Append(Without(loop.peers, loop.dev), PeerLine(loop.dev, FALSE)) IN
       /\ loop' = [loop EXCEPT !.at = IF loop.backed THEN "remembering" ELSE "greeting",
                               !.peers = listed]
       /\ IF loop.backed
          THEN MayStart /\ BeginSave("loop", TextOf(loop.id, listed))
          ELSE UNCHANGED save
  /\ fate' = [fate EXCEPT ![loop.dev] = "no"]
  /\ UNCHANGED <<fs, panel, minted, removed, faults>>

(* Best effort: the session goes on whatever became of the save.           *)
Remembered ==
  /\ loop.at = "remembering"
  /\ Seen("loop")
  /\ loop' = [loop EXCEPT !.at = "greeting"]
  /\ UNCHANGED <<fs, panel, minted, past>>

(* A remembered key: let in if the list in hand has it.                    *)
KeyChecked ==
  /\ loop.at = "known"
  /\ loop' = IF loop.dev \in Keys(loop.peers)
             THEN [loop EXCEPT !.at = "greeting"]
             ELSE [loop EXCEPT !.at = "idle", !.dev = NoFile]
  /\ UNCHANGED <<fs, save, panel, minted, past>>

(* Mutant: the hello's name is filed without re-reading the list.          *)
HelloRead_NoReload ==
  /\ loop.at = "greeting"
  /\ loop' = [loop EXCEPT !.at = "naming"]
  /\ UNCHANGED <<fs, save, panel, minted, past>>

(* The hello's device name: rename re-reads the list first, and gives up   *)
(* if it cannot ...                                                        *)
HelloRead ==
  /\ loop.at = "greeting"
  /\ \E ok \in BOOLEAN : Reading(ok) /\ Reload(loop.dev, "naming", "session", ok)
  /\ UNCHANGED <<fs, panel, minted, fate, removed>>

(* ... and relabels the device if it is (still) listed under its address.  *)
Relabel ==
  /\ loop.at = "naming"
  /\ LET named == Renamed(loop.peers, loop.dev) IN
       IF loop.backed /\ named # loop.peers
       THEN /\ MayStart
            /\ loop' = [loop EXCEPT !.at = "renaming", !.peers = named]
            /\ BeginSave("loop", TextOf(loop.id, named))
       ELSE /\ loop' = [loop EXCEPT !.at = "session", !.peers = named]
            /\ UNCHANGED save
  /\ UNCHANGED <<fs, panel, minted, past>>

RelabelSaved ==
  /\ loop.at = "renaming"
  /\ Seen("loop")
  /\ loop' = [loop EXCEPT !.at = "session"]
  /\ UNCHANGED <<fs, panel, minted, past>>

-----------------------------------------------------------------------------
(* The panel: open on every refresh, and open-then-clear for the button.   *)

PanelRefreshes ==
  /\ panel = "idle"
  /\ Missing
  /\ MayStart
  /\ minted' = minted + 1
  /\ BeginSave("panel", TextOf(minted + 1, <<>>))
  /\ panel' = "creating"
  /\ UNCHANGED <<fs, loop, past>>

PanelCreated ==
  /\ panel = "creating"
  /\ Seen("panel")
  /\ panel' = "idle"
  /\ UNCHANGED <<fs, loop, minted, past>>

(* Mutant: forgetting everyone starts a new store.                         *)
ForgetAll_NewStore ==
  /\ panel = "idle"
  /\ Readable
  /\ MayStart
  /\ minted < MaxIds
  /\ BeginSave("panel", TextOf(minted + 1, <<>>))
  /\ minted' = minted + 1
  /\ panel' = "forgetting"
  /\ UNCHANGED <<fs, loop, past>>

(* "Forget all paired devices": a file that does not open is left alone.   *)
ForgetAll ==
  /\ panel = "idle"
  /\ Readable
  /\ MayStart
  /\ BeginSave("panel", TextOf(DiskIdentity, <<>>))
  /\ panel' = "forgetting"
  /\ UNCHANGED <<fs, loop, minted, past>>

(* "Forgotten. Each device needs the PIN on its next connection."          *)
Forgot ==
  /\ panel = "forgetting"
  /\ Seen("panel")
  /\ panel' = "idle"
  /\ UNCHANGED <<fs, loop, minted, past>>

-----------------------------------------------------------------------------
(* The world: the system's caches, power cuts, a person's file manager.    *)

(* The folder is written back, and its renames are durable.                *)
FolderSynced ==
  /\ earlier # {}
  /\ earlier' = {}
  /\ UNCHANGED <<dir, data, synced, save, loop, panel, minted, past>>

(* The folder that comes back has the last text or an earlier one.  What   *)
(* becomes of the temporary name is the same to the next save, which       *)
(* truncates it.  Whoever is listed again was not forgotten after all.     *)
PowerCut ==
  /\ Fault
  /\ \E kept \in OnDisk \cup earlier :
       LET i == IF Missing THEN FreeInode ELSE dir.path IN
       /\ dir' = [dir EXCEPT !.path = IF kept = NoFile THEN NoFile ELSE i]
       /\ data' = [j \in Inodes |-> IF kept # NoFile /\ j = i THEN kept ELSE <<>>]
  /\ synced' = {dir'.path} \ {NoFile}
  /\ earlier' = {}
  /\ fate' = [d \in Devices |-> IF fate[d] # "no" /\ d \in Keys(DiskPeers') THEN "undone" ELSE fate[d]]
  /\ save' = [p \in Procs |-> NotSaving]
  /\ loop' = Down
  /\ panel' = "idle"
  /\ UNCHANGED <<minted, removed>>

Delete ==
  /\ Fault
  /\ ~Missing
  /\ removed' = TRUE
  /\ dir' = [dir EXCEPT !.path = NoFile]
  /\ data' = [data EXCEPT ![dir.path] = <<>>]
  /\ synced' = synced \ {dir.path}
  /\ Replaced
  /\ fate' = Forgotten
  /\ UNCHANGED <<save, loop, panel, minted>>

(* An edit, or a newer release, leaves a file this one does not parse; the *)
(* editor sees it to the disk.  The bound: not inside the one call that    *)
(* reads, changes and saves the list, nor inside a save.                   *)
InRename == loop.at \in {"naming", "renaming"} \/ (loop.at = "reloading" /\ loop.then = "naming")

Damage ==
  /\ Fault
  /\ ~Missing
  /\ ~InRename /\ \A p \in Procs : ~Writing(p)
  /\ data' = [data EXCEPT ![dir.path] = Corrupt]
  /\ earlier' = {}
  /\ UNCHANGED <<dir, synced, save, loop, panel, minted, fate, removed>>

-----------------------------------------------------------------------------
StoreInit ==
  /\ dir \in [path : {NoFile, CHOOSE i \in Inodes : TRUE}, tmp : {NoFile}]
  /\ \E text \in {TextOf(1, <<>>), Corrupt} :
       data = [i \in Inodes |-> IF i = dir.path THEN text ELSE <<>>]
  /\ synced = {dir.path} \ {NoFile}
  /\ earlier = {}
  /\ save = [p \in Procs |-> NotSaving]
  /\ loop = Down
  /\ panel = "idle"
  /\ minted = IF Missing THEN 0 ELSE 1
  /\ fate = [d \in Devices |-> "no"]
  /\ removed = FALSE
  /\ faults = 0

Saving(p) == SaveOpen(p) \/ SaveWrite(p) \/ SaveFails(p) \/ SaveSync(p) \/ SaveRename(p)

Loop ==
  \/ LoopStarts \/ LoopCreated \/ Reloaded \/ HangsUp
  \/ \E d \in Devices, mode \in {"pairing", "known"} : Connects(d, mode)
  \/ PinProven \/ Remembered \/ KeyChecked \/ HelloRead \/ Relabel \/ RelabelSaved

Panel == PanelRefreshes \/ PanelCreated \/ ForgetAll \/ Forgot

World == FolderSynced \/ PowerCut \/ Delete \/ Damage

StoreNext == (\E p \in Procs : Saving(p)) \/ Loop \/ Panel \/ World

StoreSpec == StoreInit /\ [][StoreNext]_store

-----------------------------------------------------------------------------
(* Properties                                                              *)

Places == {"down", "creating", "idle", "reloading", "pairing", "known", "remembering",
           "greeting", "naming", "renaming", "session"}

StoreTypes ==
  /\ dir \in [path : Inodes \cup {NoFile}, tmp : Inodes \cup {NoFile}]
  /\ \A i \in Inodes : data[i] \in Seq(Lines)
  /\ synced \subseteq Inodes
  /\ \A t \in earlier : t = NoFile \/ t \in Seq(Lines)
  /\ \A p \in Procs : /\ save[p].step \in {"none", "open", "write", "sync", "rename", "done", "failed"}
                      /\ save[p].text \in Texts \cup {<<>>}
                      /\ save[p].fd \in Inodes \cup {NoFile}
  /\ loop.at \in Places /\ loop.peers \in Lists
  /\ panel \in {"idle", "creating", "forgetting"}
  /\ minted \in 0..MaxIds
  /\ fate \in [Devices -> {"no", "firm", "raced", "undone"}]

Listed(d) == d \in Keys(DiskPeers)

(* write_private's promise: readers see whole texts only, each replaced at one *)
(* moment by a whole save, and a crash or a failed write leaves the old one,   *)
(* or one from before a rename that had not reached the disk.                  *)
Atomic == INSTANCE AtomicFile WITH
  Texts   <- Files,
  Nothing <- <<>>,
  content <- Content,
  pending <- [p \in Procs |-> IF Writing(p) THEN save[p].text ELSE <<>>]
AtomicReplace == Atomic!Spec

(* A device forgotten - in the window or by deleting the file - is listed again *)
(* only by proving the PIN again, if the loop had no list in hand at the time,  *)
(* has not gone on since with a list it could not re-read, and no power cut has *)
(* brought back the folder from before: a session already under way does not   *)
(* bring it back when it files its name.                                       *)
ForgottenStayOff == \A d \in Devices : fate[d] = "firm" => ~Listed(d)

LetInUnproven == loop.at = "known" /\ loop'.at = "greeting"

(* ... nor, with the same exceptions, does it reconnect without the PIN, to a  *)
(* loop that has its file.                                                     *)
ForgottenNeedPin == [][LetInUnproven /\ loop.backed => fate[loop.dev] # "firm"]_store

(* A forgotten device stays forgotten.                                         *)
ForgetHolds == []ForgottenStayOff /\ ForgottenNeedPin

(* Until somebody removes or damages the file by hand, the identity every      *)
(* paired device recognises this host by survives every pairing, relabelling,  *)
(* forget, failed read or save, and every power cut once the folder that first *)
(* named the file is on the disk.                                              *)
IdentityKept ==
  [][Readable /\ NoFile \notin earlier /\ ~removed' => DiskIdentity' = DiskIdentity \/ Content' = Corrupt]_store

(* A file that does not parse is replaced in one case: a loop that had opened  *)
(* it before it was damaged remembers a device that has just proven the PIN.   *)
CorruptKept == [][Content = Corrupt /\ ~Missing' => Content' = Corrupt \/ loop.at = "remembering"]_store

(* The file is never lost to a write of the host's own.                        *)
FileKept == IdentityKept /\ CorruptKept

(* "Forgotten. Each device needs the PIN on its next connection." - said of    *)
(* every device on the list, whatever the loop is doing at that moment.        *)
ForgetIsFinal == \A d \in Devices : fate[d] # "no" => ~Listed(d)

(* "A corrupt file is reported, never overwritten" (PairingStore::open).       *)
CorruptNeverOverwritten == [][Content = Corrupt /\ ~Missing' => Content' = Corrupt]_store

(* "A crash mid-write leaves the old file rather than half of a new one."      *)
CrashLeavesWholeFile == loop.at = "down" /\ ~Missing => Readable \/ Content = Corrupt
=============================================================================
