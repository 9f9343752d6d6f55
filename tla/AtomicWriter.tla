----------------------------- MODULE AtomicWriter ---------------------------
(***************************************************************************)
(* upload/writer.go: a file is written under a temporary name and renamed. *)
(* The name is path + ".tmp" for every upload of the path, so two uploads  *)
(* at the same time share it, and may share the file behind it.            *)
(*                                                                         *)
(* A temporary file holds "all" of an upload or only "part".  The file     *)
(* players read is "whole" (or not there), "mixed" if it holds part of     *)
(* uploads that overlapped, or "torn".  An open file is followed by where  *)
(* its directory entry went: it is still the temporary file, it is the     *)
(* file players read, or it has no name any more.                          *)
(***************************************************************************)
CONSTANTS
    Paths,    \* files that are written
    Writers   \* calls of WriteFile and CopyFile

VARIABLES
    tmp,      \* path + ".tmp"
    file,     \* path
    fd,       \* the file a writer has open
    apart     \* history: writers that nobody has overlapped so far

writer == <<tmp, file, fd, apart>>

NotOpen == [path |-> <<>>, at |-> "none"]

WriterInit ==
    /\ tmp = [p \in Paths |-> "none"]
    /\ file = [p \in Paths |-> "whole"]
    /\ fd = [w \in Writers |-> NotOpen]
    /\ apart = {}

\* What the file of a path is when w gives it the content.
shown(w, content) ==
    IF content = "all" THEN "whole" ELSE IF w \in apart THEN "torn" ELSE "mixed"

others(w, p) == {v \in Writers \ {w} : fd[v].path = p}

\* The open files of p go where `to` says; w has closed its own.
moved(w, p, to) ==
    [v \in Writers |->
        IF v = w THEN NotOpen
        ELSE IF fd[v].path = p /\ fd[v].at \in DOMAIN to THEN [fd[v] EXCEPT !.at = to[@]]
        ELSE fd[v]]

\* open: O_CREATE|O_TRUNC, so whoever has the temporary file open shares it.
open(w, p) ==
    /\ tmp' = [tmp EXCEPT ![p] = "part"]
    /\ fd' = [fd EXCEPT ![w] = [path |-> p, at |-> "tmp"]]
    /\ apart' = IF others(w, p) = {} THEN apart \cup {w} ELSE apart \ others(w, p)
    /\ UNCHANGED file

\* write, copy: the data goes into the file that was opened, which another
\* open may truncate meanwhile.
write(w) ==
    LET p == fd[w].path IN
    \E content \in {"all"} \cup (IF w \in apart THEN {} ELSE {"part"}) :
    /\ tmp' = IF fd[w].at = "tmp" THEN [tmp EXCEPT ![p] = content] ELSE tmp
    /\ file' = IF fd[w].at = "file" THEN [file EXCEPT ![p] = shown(w, content)] ELSE file
    /\ UNCHANGED <<fd, apart>>

\* file.Close and os.Rename: whatever has the temporary name gets the path.
rename(w) ==
    LET p == fd[w].path IN
    /\ tmp[p] # "none"
    /\ file' = [file EXCEPT ![p] = shown(w, tmp[p])]
    /\ tmp' = [tmp EXCEPT ![p] = "none"]
    /\ fd' = moved(w, p, [tmp |-> "file", file |-> "gone"])
    /\ apart' = apart \ {w}

\* An error, of os.Rename too: os.Remove of whatever has the temporary name.
fail(w) ==
    LET p == fd[w].path IN
    /\ tmp' = [tmp EXCEPT ![p] = "none"]
    /\ fd' = moved(w, p, [tmp |-> "gone"])
    /\ apart' = apart \ {w}
    /\ UNCHANGED file

renameFails(w) == tmp[fd[w].path] = "none" /\ fail(w)

WriterTypeOK ==
    /\ tmp \in [Paths -> {"none", "part", "all"}]
    /\ file \in [Paths -> {"whole", "mixed", "torn"}]
    /\ fd \in [Writers -> {NotOpen} \cup [path: Paths, at: {"tmp", "file", "gone"}]]
    /\ apart \subseteq Writers
=============================================================================
