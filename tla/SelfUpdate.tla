----------------------------- MODULE SelfUpdate -----------------------------
(***************************************************************************)
(* code-graph update: choosing a release, verifying its archive and        *)
(* replacing the running binary, where each command may be killed at every *)
(* step and what it leaves is found by the next.                           *)
(*                                                                         *)
(* A version is a base (its dotted numbers, as one) and a prerelease, 0    *)
(* for none.  A binary is the version it reports, and whether it starts.   *)
(***************************************************************************)
EXTENDS Integers, FiniteSets, FiniteSetsExt

CONSTANTS
    Version,     \* the versions there are: [base : Nat, pre : Nat]
    Current,     \* the one that is installed
    MaxUpdates,  \* bound: update commands
    NoFile

\* Binaries: what they report, whether they start, and the file's mode.
Binary == [version : Version, starts : BOOLEAN, mode : {"run", "write", "read-only"}]

\* What the code fixes or guarantees of the constants.
UpdateAssumption == MaxUpdates \in Nat /\ Current \in Version /\ NoFile \notin Binary

VARIABLES
    published,  \* the releases of the server: their version and archive
    binary,     \* the file at binaryPath
    tmp,        \* binaryPath + ".tmp"
    bak,        \* binaryPath + ".bak"
    update,     \* the command
    updates,
    previous,   \* history: the binary that the last command began with
    flawed      \* history: it was killed before it verified, or had no backup

vars == <<published, binary, tmp, bak, update, updates, previous, flawed>>

NoUpdate == [pc |-> "idle", data |-> NoFile, copied |-> FALSE]
Build(v, starts) == [version |-> v, starts |-> starts, mode |-> "run"]
Cut == [version |-> Current, starts |-> FALSE, mode |-> "write"]
Archive == {"good", "faulty", "altered"}  \* altered: not what the checksums say

Init ==
    /\ published = {} /\ binary = Build(Current, TRUE) /\ tmp = NoFile /\ bak = NoFile
    /\ update = NoUpdate /\ updates = 0 /\ previous = binary /\ flawed = FALSE

\* CompareVersions(a, b) > 0: the base decides, and a prerelease precedes its
\* release.
NewerOrSame(a, b) == a.base > b.base \/ (a.base = b.base /\ (a.pre = 0 \/ (b.pre # 0 /\ a.pre >= b.pre)))
Newer(a, b) ==
    \/ a.base > b.base
    \/ a.base = b.base /\ b.pre # 0 /\ (a.pre = 0 \/ a.pre > b.pre)

\* FetchNewestRelease: the latest that is no prerelease, or, on the rc channel,
\* the newest of all.
FetchNewestRelease(channel) ==
    LET offered == {r \in published : channel = "rc" \/ r.version.pre = 0}
    IN  {r \in offered : \A o \in offered : ~Newer(o.version, r.version)}

Publish(v, archive) ==
    /\ \A r \in published : r.version # v
    /\ published' = published \cup {[version |-> v, archive |-> archive]}
    /\ UNCHANGED <<binary, tmp, bak, update, updates, previous, flawed>>

\* downloadAndVerify: the checksum, the release and the provenance.
Verified(r) == r.archive # "altered"

BeginUpdate(channel) ==
    /\ update.pc = "idle" /\ updates < MaxUpdates
    /\ binary.starts /\ binary.mode = "run"
    /\ updates' = updates + 1 /\ previous' = binary /\ flawed' = FALSE
    /\ \E r \in FetchNewestRelease(channel) :
          /\ Newer(r.version, binary.version)
          /\ Verified(r)
          /\ update' = [pc |-> "write", data |-> Build(r.version, r.archive = "good"),
                        copied |-> FALSE]
    /\ UNCHANGED <<published, binary, tmp, bak>>

\* os.WriteFile and Chmod(0o500): a .tmp that an earlier command made
\* read-only cannot be written again.
WriteTemp ==
    /\ update.pc = "write"
    /\ IF tmp # NoFile /\ tmp.mode = "read-only"
       THEN update' = NoUpdate /\ UNCHANGED tmp
       ELSE \/ tmp' = Cut /\ update' = NoUpdate
            \/ tmp' = [update.data EXCEPT !.mode = "read-only"]
               /\ update' = [update EXCEPT !.pc = "backup"]
    /\ UNCHANGED <<published, binary, bak, updates, previous, flawed>>

\* os.Create makes the copy, with the mode of a file that nobody may execute.
copyFile(b) == [b EXCEPT !.mode = "write"]

\* A backup that fails is a warning: what is at .bak then is older, or cut short.
Backup ==
    /\ update.pc = "backup"
    /\ \/ bak' = copyFile(binary) /\ update' = [update EXCEPT !.pc = "rename", !.copied = TRUE]
       \/ bak' \in {bak, Cut} /\ update' = [update EXCEPT !.pc = "rename"]
    /\ UNCHANGED <<published, binary, tmp, updates, previous, flawed>>

Rename ==
    /\ update.pc = "rename"
    /\ \/ binary' = [tmp EXCEPT !.mode = "run"] /\ update' = [update EXCEPT !.pc = "verify"]
       \/ UNCHANGED binary /\ update' = NoUpdate
    /\ tmp' = NoFile
    /\ UNCHANGED <<published, bak, updates, previous, flawed>>

\* verifyBinary runs the new binary; the old one comes back if it does not start.
RestoresNothing(starts) == FALSE
Restores(starts) == ~starts

VerifyBinary ==
    /\ update.pc = "verify" /\ update' = NoUpdate
    /\ IF Restores(binary.starts)
       THEN IF bak = NoFile THEN UNCHANGED <<binary, bak>> ELSE binary' = bak /\ bak' = NoFile
       ELSE bak' = NoFile /\ UNCHANGED binary
    /\ flawed' = (~binary.starts /\ ~update.copied)
    /\ UNCHANGED <<published, tmp, updates, previous>>

Killed ==
    /\ update.pc # "idle" /\ update' = NoUpdate
    /\ \/ UNCHANGED bak
       \/ update.pc = "backup" /\ bak' = Cut
    /\ flawed' = (update.pc = "verify")
    /\ UNCHANGED <<published, binary, tmp, updates, previous>>

Next ==
    \/ \E v \in Version, archive \in Archive : Publish(v, archive)
    \/ \E channel \in {"stable", "rc"} : BeginUpdate(channel)
    \/ WriteTemp \/ Backup \/ Rename \/ VerifyBinary \/ Killed

Spec == Init /\ [][Next]_vars

-----------------------------------------------------------------------------
\* After a command the binary is the one it began with, or a verified release
\* that is newer and runs, or, where the release did not start, a copy of the one
\* it began with, which has lost the mode to run: "Previous version restored."
\* -- unless it was killed between the rename and the verification, or had to
\* restore a backup that it could not write.
UpdateKeepsABinary ==
    update.pc = "idle" =>
        \/ binary = previous \/ flawed
        \/ /\ binary.starts /\ binary.mode = "run" /\ Newer(binary.version, previous.version)
           /\ \E r \in published : r.version = binary.version /\ r.archive = "good"
        \/ /\ binary = copyFile(previous)
           /\ \E r \in published : Newer(r.version, previous.version) /\ r.archive # "good"
=============================================================================
