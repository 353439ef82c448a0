------------------------------- MODULE Files -------------------------------
(* The files of a checkout as the system sees them: those that Discover      *)
(* hands to an indexing run, to the watcher and to index_health, through     *)
(* tables of names, .cgrignore and git's ignore rules (internal/discover),   *)
(* and the slice of one that an agent may read (internal/locagent/           *)
(* readfile.go).  A path is a sequence of names.  disk.rules[at, p] is what  *)
(* the rules written in directory "at" say of p, a sequence relative to it:  *)
(* "ignore", "keep" (a negated pattern) or "none"; the last line of a file   *)
(* that matches decides, which is the library's work.                        *)
EXTENDS Integers, FiniteSets, Sequences, SequencesExt

CONSTANTS
    ReadLines,      \* readFileMaxLines, 200
    ReadBytes,      \* readFileMaxBytes, 1 MB
    HintLines,      \* lines shown to one who asks past the end, 50
    FastSize,       \* the size limit of fast mode, 512 KB
    JSONSize        \* the size limit of a JSON file, 100 KB

\* The directories above a path, but for the root.
Above(p) == {SubSeq(p, 1, n) : n \in 1..(Len(p) - 1)}
Under(p, at) == SubSeq(p, Len(at) + 1, Len(p))

-----------------------------------------------------------------------------
(* gitignore.go                                                              *)

\* Those that are asked, nearest first: the .gitignore of each directory above,
\* up to the root's, and .git/info/exclude last.
Exclude == <<".git/info/exclude">>
MatchersOf(p) ==
    [k \in 1..(Len(p) + 1) |-> IF k <= Len(p) THEN SubSeq(p, 1, Len(p) - k) ELSE Exclude]

Relative(disk, at, p) == disk.rules[at, IF at = Exclude THEN p ELSE Under(p, at)]

\* The first that has a say decides.
ignoresTopDown(disk, p) ==
    \E k \in DOMAIN MatchersOf(p) :
        /\ Relative(disk, MatchersOf(p)[k], p) = "ignore"
        /\ \A j \in (k + 1)..(Len(p) + 1) : Relative(disk, MatchersOf(p)[j], p) = "none"
ignores(disk, p) ==
    \E k \in DOMAIN MatchersOf(p) :
        /\ Relative(disk, MatchersOf(p)[k], p) = "ignore"
        /\ \A j \in 1..(k - 1) : Relative(disk, MatchersOf(p)[j], p) = "none"

\* An ignored parent ignores what is under it, whatever is said of that.
matchRel(disk, p) ==
    LET ignored[n \in 0..Len(p)] ==
            n > 0 /\ (ignored[n - 1] \/ ignores(disk, SubSeq(p, 1, n)))
    IN  ignored[Len(p)]

\* .gitignore counts where .git is a directory, .cbmignore anywhere.
shouldIgnore(disk, p) == (disk.git = "directory" /\ matchRel(disk, p)) \/ p \in disk.cbmignore

-----------------------------------------------------------------------------
(* discover.go                                                               *)

\* Names of directories: "built in" is in IGNORE_PATTERNS, "generated" in
\* fastIgnoreDirs, "hidden" begins with a dot.
shouldSkipDir(disk, p, mode) ==
    \/ disk.kind[p] = "built in"
    \/ mode = "fast" /\ disk.kind[p] \in {"hidden", "generated"}
    \/ p \in disk.cgrignore

shouldSkipFile(f, opts) ==
    \/ opts.max > 0 /\ f.size > opts.max
    \/ opts.mode = "fast" /\ f.generated

\* What becomes of a file: a source, no grammar for it, or left out.  "tooling"
\* are the JSON files of ignoredJSONFiles.
classifyFileEarly(f, opts) ==
    IF f.language = "none" THEN "unsupported"
    ELSE IF f.compiled \/ shouldSkipFile(f, opts) THEN "skipped" ELSE "source"
classifyFile(f, opts) ==
    CASE f.compiled \/ shouldSkipFile(f, opts) -> "skipped"
      [] ~(f.compiled \/ shouldSkipFile(f, opts)) /\ f.language = "none" -> "unsupported"
      [] ~(f.compiled \/ shouldSkipFile(f, opts)) /\ f.language # "none" ->
           IF f.language = "json" /\ (f.tooling \/ f.size > JSONSize) THEN "skipped" ELSE "source"

\* The walk enters no link, no directory it skips, ignores or cannot read.
Walked(disk, opts) ==
    {f \in disk.files :
        /\ \A d \in Above(f.path) :
              ~shouldSkipDir(disk, d, opts.mode) /\ ~shouldIgnore(disk, d)
              /\ d \notin disk.unreadable /\ d \notin disk.links
        /\ f.path \notin disk.links /\ ~shouldIgnore(disk, f.path)}

Discover(disk, opts) == {f \in Walked(disk, opts) : classifyFile(f, opts) = "source"}
UnsupportedTally(disk, opts) == {f \in Walked(disk, opts) : classifyFile(f, opts) = "unsupported"}

\* The limit of CBM_MAX_FILE_BYTES, 1 MB if it is not set, none if it is 0.
fullModeMaxFileSize(disk) == disk.maxFileBytes
PipelineOptions(disk, mode) ==
    [mode |-> mode, max |-> IF mode = "fast" THEN FastSize ELSE fullModeMaxFileSize(disk)]
HealthOptions(disk) == [mode |-> "full", max |-> fullModeMaxFileSize(disk)]
SnapshotOptions(disk) == [mode |-> "full", max |-> fullModeMaxFileSize(disk)]

Paths(files) == {f.path : f \in files}

\* index_health, when the hashes of a run over "indexed" are in the store.
handleIndexHealth(disk, indexed) ==
    LET found == Paths(Discover(disk, HealthOptions(disk)))
    IN  [missing |-> found \ indexed, orphaned |-> indexed \ found,
         unsupported |-> UnsupportedTally(disk, HealthOptions(disk))]

-----------------------------------------------------------------------------
(* readfile.go                                                               *)

\* The path is relative, without "..", and leads, links resolved, to a file
\* below the root.
Readable(path) == ~path.dots /\ ~path.absolute /\ path.leads = "file"

\* A text is its size and the places of its newlines, of which only those in the
\* first megabyte separate lines that can be read.
LinesOf(newlines) == Cardinality(newlines) + 1
Kept(text) == {b \in text.newlines : b <= ReadBytes}

\* The lines that are shown, or "panic": lines[start-1:end] of Go with
\* end < start - 1.
readFile(path, text, from, to) ==
    LET total  == LinesOf(Kept(text))
        start0 == IF from <= 0 THEN 1 ELSE from
        end0   == IF to <= 0 THEN start0 + ReadLines - 1 ELSE to
        past   == start0 > total
        start  == IF ~past THEN start0 ELSE IF total > HintLines THEN total - HintLines + 1 ELSE 1
        end1   == IF past \/ end0 > total THEN total ELSE end0
        end    == IF end1 - start + 1 > ReadLines THEN start + ReadLines - 1 ELSE end1
    IN  IF ~Readable(path) THEN "error"
        ELSE IF end < start - 1 THEN "panic"
        ELSE [start |-> start, end |-> end, truncated |-> text.size > ReadBytes \/ end - start + 1 >= ReadLines]

-----------------------------------------------------------------------------
\* Discovery leaves out what git would: a path is excluded when, of the rules
\* about it or about a directory above it, the deepest one says so.
IgnoredLikeGit(disk) ==
    \A f \in disk.files :
        LET chain == Above(f.path) \cup {f.path}
            depth(at) == IF at = Exclude THEN -1 ELSE Len(at)
            rulesOn(q) == {at \in Above(q) \cup {<<>>, Exclude} : Relative(disk, at, q) # "none"}
            excluded(q) == \E at \in rulesOn(q) :
                               /\ Relative(disk, at, q) = "ignore"
                               /\ \A other \in rulesOn(q) : depth(other) <= depth(at)
        IN  matchRel(disk, f.path) <=> \E q \in chain : excluded(q)

\* index_health and the watcher see a project as its full indexing run does:
\* nothing is reported that the run left out on purpose, and what came, went or
\* changed size since is.
HealthIsExact(disk, later) ==
    LET indexed == Paths(Discover(disk, PipelineOptions(disk, "full")))
        now     == handleIndexHealth(later, indexed)
        anew    == Paths(Discover(later, PipelineOptions(later, "full")))
    IN  /\ Paths(Discover(disk, SnapshotOptions(disk))) = indexed
        /\ handleIndexHealth(disk, indexed).missing = {}
        /\ handleIndexHealth(disk, indexed).orphaned = {}
        /\ now.missing = anew \ indexed /\ now.orphaned = indexed \ anew

\* The files that are tallied as unsupported are those that a grammar would
\* bring in, and no others.
TallyIsTheRest(disk) ==
    LET taught(f) == IF f.language = "none" THEN [f EXCEPT !.language = "known"] ELSE f
        opts      == HealthOptions(disk)
    IN  Discover([disk EXCEPT !.files = {taught(f) : f \in @}], opts)
            = Discover(disk, opts) \cup {taught(f) : f \in UnsupportedTally(disk, opts)}

\* Reading on from the line after the last one shown, while the answer says
\* truncated, an agent sees every line of the first megabyte of a file once, the
\* last of them perhaps in part; an answer that does not say so ends the file.
ReadingOnSeesAll(text) ==
    LET total == LinesOf(Kept(text))
        file == [dots |-> FALSE, absolute |-> FALSE, leads |-> "file"]
        from[n \in 1..(total + 1)] == IF n = 1 THEN 1 ELSE from[n - 1] + ReadLines
        slice(n) == readFile(file, text, from[n], 0)
        seen == {n \in 1..(total + 1) : from[n] <= total}
    IN  /\ \A n \in seen : slice(n).start = from[n]
        /\ UNION {slice(n).start..slice(n).end : n \in seen} = 1..total
        /\ \A n \in seen : (n + 1) \in seen => slice(n).truncated
        /\ \A n \in seen : ~slice(n).truncated => slice(n).end = LinesOf(text.newlines)

\* A slice is of the file, within its first megabyte, of bounded length, and
\* starts where it was asked to, if there is such a line and the range does not
\* end before it.
SliceIsOfTheFile(path, text, from, to) ==
    LET total == LinesOf(Kept(text))
        s == readFile(path, text, from, to)
    IN  Readable(path) /\ (to <= 0 \/ to >= from) =>
            /\ s.start \in 1..total /\ s.end \in s.start..total /\ total <= LinesOf(text.newlines)
            /\ s.end - s.start < ReadLines
            /\ from \in 1..total => s.start = from
            /\ from \in 1..to /\ to <= total /\ to - from < ReadLines => s.end = to
=============================================================================
