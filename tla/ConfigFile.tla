----------------------------- MODULE ConfigFile ------------------------------
(***************************************************************************)
(* SyncWgConfig (services/configs.service.go) and the two names it uses:   *)
(* wg0.conf and wg0.conf.tmp.  A request reads the active peers, renders   *)
(* them, writes the .tmp file with os.WriteFile (an open with O_TRUNC, a   *)
(* write) and renames it over wg0.conf.  No lock orders two requests, and  *)
(* both use the same .tmp name, so each system call is a step.             *)
(*                                                                         *)
(* The text is abstracted to the [Peer] blocks it holds.  A file that was  *)
(* opened as .tmp may have been renamed to wg0.conf by another request, or *)
(* replaced there, before the write: at[p] follows the name of the file    *)
(* that p has open.                                                        *)
(***************************************************************************)
CONSTANTS
    ConfKeys,       \* keys a [Peer] block may have
    ConfAddrs,      \* addresses it may have
    NoAddr,         \* the key has no [Peer] block
    Syncers         \* requests that may run SyncWgConfig

VARIABLES
    tmp,            \* wg0.conf.tmp
    conf,           \* wg0.conf
    step,           \* where a request is in SyncWgConfig
    snap,           \* the peers it read
    at              \* the name of the file it has open for writing

fileVars == <<tmp, conf>>
syncVars == <<step, snap, at>>
confVars == <<tmp, conf, step, snap, at>>

Blocks == [ConfKeys -> ConfAddrs \cup {NoAddr}]
NoBlocks == [k \in ConfKeys |-> NoAddr]

\* A file is whole (one rendering), empty (truncated), torn (part of a rendering, or
\* the end of a longer one after a shorter one) or absent.  A torn file has the blocks
\* that are complete in it; that its seam may run through a block, and give the last one
\* before it a second address, is not told apart.
Whole(b) == [kind |-> "whole", blocks |-> b]
Torn(b) == [kind |-> "torn", blocks |-> b]
NotWhole(kind) == [kind |-> kind, blocks |-> NoBlocks]
File == [kind : {"whole", "empty", "torn", "absent"}, blocks : Blocks]

ConfInit ==
    /\ tmp = NotWhole("absent")
    /\ conf = Whole(NoBlocks)                 \* the bootstrap file of README.md
    /\ step = [p \in Syncers |-> "none"]
    /\ snap = [p \in Syncers |-> NoBlocks]
    /\ at = [p \in Syncers |-> "closed"]

-----------------------------------------------------------------------------
Included(b, c) == \A k \in ConfKeys : b[k] # NoAddr => c[k] = b[k]

\* the blocks of a file that begins with b and ends as f did
Spliced(f, b) ==
    {g \in Blocks :
        \A k \in ConfKeys : g[k] = b[k] \/ (b[k] = NoAddr /\ g[k] = f.blocks[k])}

\* What a file holding f holds after b is written from its start, without truncation:
\* b whole unless f is a longer text, whose end then remains.
WrittenOver(f, b) ==
    LET longer == f.kind = "whole" /\ Included(b, f.blocks) /\ b # f.blocks
        covered == f.kind = "empty" \/ (f.kind = "whole" /\ Included(f.blocks, b))
    IN  (IF longer THEN {} ELSE {Whole(b)})
        \cup (IF covered THEN {} ELSE {Torn(g) : g \in Spliced(f, b)})

\* the same when the write stops short of the end of b
WrittenPartly(f, b) ==
    {Torn(g) : g \in {h \in Blocks :
        \A k \in ConfKeys : h[k] \in {b[k], f.blocks[k], NoAddr}}}

EndSync(p) ==
    /\ step' = [step EXCEPT ![p] = "none"]
    /\ snap' = [snap EXCEPT ![p] = NoBlocks]

\* Wrong: blocks of the present file that have no peer are kept, as hand edits.
SyncReadKeepsOld(p, b) ==
    /\ step[p] = "none"
    /\ step' = [step EXCEPT ![p] = "open"]
    /\ snap' = [snap EXCEPT ![p] =
          [k \in ConfKeys |-> IF b[k] # NoAddr THEN b[k] ELSE conf.blocks[k]]]
    /\ UNCHANGED <<tmp, conf, at>>

\* GetActivePeers has returned b
SyncRead(p, b) ==
    /\ step[p] = "none"
    /\ step' = [step EXCEPT ![p] = "open"]
    /\ snap' = [snap EXCEPT ![p] = b]
    /\ UNCHANGED <<tmp, conf, at>>

\* Wrong: wg0.conf itself is opened, not the .tmp file.
SyncOpenInPlace(p) ==
    /\ step[p] = "open"
    /\ step' = [step EXCEPT ![p] = "write"]
    /\ conf' = NotWhole("empty")
    /\ at' = [at EXCEPT ![p] = "conf"]
    /\ UNCHANGED <<tmp, snap>>

SyncOpen(p) ==
    /\ step[p] = "open"
    /\ step' = [step EXCEPT ![p] = "write"]
    /\ tmp' = NotWhole("empty")
    /\ at' = [at EXCEPT ![p] = "tmp"]
    /\ UNCHANGED <<conf, snap>>

\* the write of f into the file p has open, under whatever name that file has now
PutText(p, f) ==
    /\ tmp' = IF at[p] = "tmp" THEN f ELSE tmp
    /\ conf' = IF at[p] = "conf" THEN f ELSE conf
    /\ at' = [at EXCEPT ![p] = "closed"]

OpenFile(p) == IF at[p] = "conf" THEN conf ELSE tmp

SyncWrite(p) ==
    /\ step[p] = "write"
    /\ \E f \in WrittenOver(OpenFile(p), snap[p]) : PutText(p, f)
    /\ step' = [step EXCEPT ![p] = "rename"]
    /\ UNCHANGED snap

\* Wrong: the .tmp file is copied and stays.
SyncCopy(p) ==
    /\ step[p] = "rename"
    /\ tmp.kind # "absent"
    /\ conf' = tmp
    /\ EndSync(p)
    /\ UNCHANGED <<tmp, at>>

\* os.Rename: the .tmp name, whoever wrote the file, becomes wg0.conf
SyncRename(p) ==
    /\ step[p] = "rename"
    /\ tmp.kind # "absent"
    /\ conf' = tmp
    /\ tmp' = NotWhole("absent")
    /\ at' = [q \in Syncers |-> CASE at[q] = "tmp" -> "conf"
                                  [] at[q] = "conf" -> "replaced"
                                  [] OTHER -> at[q]]
    /\ EndSync(p)

\* another request has renamed the file already: ENOENT, which is only a warning
SyncRenameNothing(p) ==
    /\ step[p] = "rename"
    /\ tmp.kind = "absent"
    /\ EndSync(p)
    /\ UNCHANGED <<tmp, conf, at>>

\* The open, the write or the rename fails: the request gives up with a warning, and a
\* failed write leaves part of the text behind.
SyncFail(p) ==
    /\ step[p] # "none"
    /\ EndSync(p)
    /\ IF step[p] = "write"
       THEN \E f \in WrittenPartly(OpenFile(p), snap[p]) : PutText(p, f)
       ELSE UNCHANGED <<tmp, conf, at>>

\* the process dies: files stay as they are, open ones are closed
SyncCrash ==
    /\ step' = [p \in Syncers |-> "none"]
    /\ snap' = [p \in Syncers |-> NoBlocks]
    /\ at' = [p \in Syncers |-> "closed"]
    /\ UNCHANGED <<tmp, conf>>

ConfTypeOK ==
    /\ tmp \in File
    /\ conf \in File
    /\ step \in [Syncers -> {"none", "open", "write", "rename"}]
    /\ snap \in [Syncers -> Blocks]
    /\ at \in [Syncers -> {"closed", "tmp", "conf", "replaced"}]
=============================================================================
