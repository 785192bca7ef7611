----------------------------- MODULE BuiltinTools -----------------------------
(***************************************************************************)
(* The tools that read, write, edit and search the files of a workspace,   *)
(* and the one that runs a command in it.  A file tool does not await, so   *)
(* a call is one step; but the model works on what an earlier call told it, *)
(* the user edits the same files, and the process may be killed in the      *)
(* middle of a write.                                                       *)
(*                                                                         *)
(* A file is a sequence of lines; whether its last one is terminated, and   *)
(* how lines end, is part of it.                                            *)
(***************************************************************************)
EXTENDS Naturals, Sequences, FiniteSets, SequencesExt

CONSTANTS
    Names,      \* of files
    Texts,      \* of lines
    Saved,      \* the contents that write_file and the user give to a file
    MaxLines,   \* max_bytes of read_file, write_file and edit_line, in lines
    MaxRoots    \* workspace_roots has 1..MaxRoots entries

VARIABLES
    roots,      \* how many workspace roots there are
    disk,       \* root -> name -> content
    debris,     \* a temporary file was left behind
    told,       \* the last answer that named a file: the path in it, and the file
    command     \* the run_command call

vars == <<roots, disk, debris, told, command>>

Absent == [is |-> "absent"]
Torn == [is |-> "torn"]
\* What a line becomes that another was written behind without a line end.
Lines == Texts \union {"joined"}
Content(lines, ends, open) == [is |-> "file", lines |-> lines, ends |-> ends, open |-> open]
Files == {c \in {Content(ls, e, o) : ls \in SeqOf(Lines, MaxLines), e \in {"lf", "crlf"},
                                     o \in BOOLEAN} : c.lines = <<>> => ~c.open}
Exists(c) == c.is = "file"

\* A path as a tool takes it: relative, "@root[n]/...", or absolute.
Paths == [is : {"relative", "prefixed", "absolute"}, root : 1..MaxRoots, name : Names]
Relative(name) == [is |-> "relative", root |-> 1, name |-> name]

Nothing == [tool |-> "none", path |-> Relative("none"), of |-> <<1, "none">>]
NoCommand == [phase |-> "idle", shell |-> FALSE, child |-> FALSE, result |-> "none"]

TypeOK ==
    /\ roots \in 1..MaxRoots /\ debris \in BOOLEAN
    /\ disk \in [1..MaxRoots -> [Names -> Files \union {Absent, Torn}]]
    /\ told \in {Nothing} \union
          [tool : {"read_file", "write_file", "edit_line", "search_code", "search_file"},
           path : Paths, of : (1..MaxRoots) \X Names]
    /\ command \in [phase : {"idle", "running", "killed"}, shell : BOOLEAN, child : BOOLEAN,
                    result : {"none", "done", "timeout", "cancelled", "refused"}]

Init ==
    /\ roots \in 1..MaxRoots
    /\ disk = [r \in 1..MaxRoots |-> [f \in Names |-> Absent]]
    /\ debris = FALSE /\ told = Nothing /\ command = NoCommand

-----------------------------------------------------------------------------
(* file_utils.                                                               *)

\* resolve_path: a relative path is of the first root, whichever holds the file.
Allowed(p) == p.root <= roots
Root(p) == IF p.is = "relative" THEN 1 ELSE p.root

\* Mutant of Display: the root is not told.
DisplayRelative(r, name) == Relative(name)

\* _display_relative_path of search_file; the other tools, search_code among
\* them, answer with relative_to_root.
Display(r, name) ==
    IF r = 1 THEN Relative(name) ELSE [is |-> "prefixed", root |-> r, name |-> name]

Tell(tool, r, name) ==
    told' = [tool |-> tool, of |-> <<r, name>>,
             path |-> IF tool = "search_file" THEN Display(r, name) ELSE Relative(name)]

\* Mutant of AtomicWrite: the file itself is opened and written.
WriteInPlace(r, name, c, tool) ==
    \/ disk' = [disk EXCEPT ![r][name] = c] /\ Tell(tool, r, name) /\ UNCHANGED debris
    \/ disk' = [disk EXCEPT ![r][name] = Torn] /\ UNCHANGED <<debris, told>>

\* A temporary file takes the place of the old one.  It is removed again when
\* that fails, and left behind when the process is killed.
AtomicWrite(r, name, c, tool) ==
    \/ disk' = [disk EXCEPT ![r][name] = c] /\ Tell(tool, r, name) /\ UNCHANGED debris
    \/ debris' = TRUE /\ UNCHANGED <<disk, told>>

-----------------------------------------------------------------------------
(* edit_line: what becomes of the content.  read_text() turns CRLF into LF,   *)
(* so that _detect_newline() never finds one and every line ends in LF.       *)

\* Mutant of Inserted: the number counts from zero.
InsertedAfter(c, n, text) ==
    Content(InsertAt(c.lines, IF n < Len(c.lines) THEN n + 1 ELSE Len(c.lines) + 1, text),
            "lf", c.open)

\* Behind an unterminated last line the text is joined to that line.
Inserted(c, n, text) ==
    IF c.open /\ n > Len(c.lines)
    THEN Content(Append(Front(c.lines), "joined"), "lf", FALSE)
    ELSE Content(InsertAt(c.lines, IF n <= Len(c.lines) THEN n ELSE Len(c.lines) + 1, text),
                 "lf", c.open)

\* A strict deletion with a text compares the line with it.
MayDelete(c, n, strict, text) ==
    n <= Len(c.lines) /\ (strict => c.lines[n] = text)

Deleted(c, n) ==
    Content(RemoveAt(c.lines, n), "lf", c.open /\ n < Len(c.lines))

-----------------------------------------------------------------------------
(* The file tools.  A call that is refused changes and names nothing.        *)

\* write_file: whatever is there is replaced; parents are made.
Write(p) ==
    /\ Allowed(p)
    /\ \E c \in Saved : AtomicWrite(Root(p), p.name, c, "write_file")
    /\ UNCHANGED <<roots, command>>

Edit(p, n, text) ==
    /\ Allowed(p)
    /\ LET old == disk[Root(p)][p.name]
       IN  /\ Exists(old)
           /\ \/ /\ Len(Inserted(old, n, text).lines) <= MaxLines
                 /\ AtomicWrite(Root(p), p.name, Inserted(old, n, text), "edit_line")
              \/ /\ \E strict \in BOOLEAN : MayDelete(old, n, strict, text)
                 /\ AtomicWrite(Root(p), p.name, Deleted(old, n), "edit_line")
    /\ UNCHANGED <<roots, command>>

Found(tool, p) ==
    /\ Allowed(p) /\ Exists(disk[Root(p)][p.name])
    /\ Tell(tool, Root(p), p.name)
    /\ UNCHANGED <<roots, disk, debris, command>>

ReadFile(p) == Found("read_file", p)

\* A search finds something in a file of the path's root.
SearchCode(p) == Found("search_code", p)
SearchFile(p) == Found("search_file", p)

\* The user's editor.
UserSaves(r, name) ==
    /\ r <= roots
    /\ \E c \in Saved \union {Absent} : disk' = [disk EXCEPT ![r][name] = c]
    /\ UNCHANGED <<roots, debris, told, command>>

-----------------------------------------------------------------------------
(* run_command.                                                              *)

\* _resolve_cwd and _is_allowed_path: no directory means the first root, a relative
\* one is taken from it, and none may lead outside the roots.
MayRunIn(where) == where \in {"none", "relative", "in a root"}

\* The shell, and possibly a child of it that holds its output open.
Launch ==
    /\ command.phase = "idle" /\ ~command.shell /\ ~command.child
    /\ \E c \in BOOLEAN, where \in {"none", "relative", "in a root", "outside"} :
          command' = IF MayRunIn(where)
                     THEN [phase |-> "running", shell |-> TRUE, child |-> c, result |-> "none"]
                     ELSE [NoCommand EXCEPT !.result = "refused"]
    /\ UNCHANGED <<roots, disk, debris, told>>

ProcessEnds ==
    /\ \/ command.shell /\ command' = [command EXCEPT !.shell = FALSE]
       \/ command.child /\ command' = [command EXCEPT !.child = FALSE]
    /\ UNCHANGED <<roots, disk, debris, told>>

\* communicate() returns when nobody holds the output.
CommandReturns ==
    /\ command.phase # "idle" /\ ~command.shell /\ ~command.child
    /\ command' = [NoCommand EXCEPT !.result = IF command.phase = "killed" THEN "timeout" ELSE "done"]
    /\ UNCHANGED <<roots, disk, debris, told>>

\* Mutant of TimesOut: the answer does not wait for the output to be closed.
TimesOutAtOnce ==
    /\ command.phase = "running"
    /\ command' = [command EXCEPT !.phase = "idle", !.shell = FALSE, !.result = "timeout"]
    /\ UNCHANGED <<roots, disk, debris, told>>

\* The shell is killed, its children are not; then communicate() once more.
TimesOut ==
    /\ command.phase = "running"
    /\ command' = [command EXCEPT !.phase = "killed", !.shell = FALSE]
    /\ UNCHANGED <<roots, disk, debris, told>>

\* The execution is interrupted: nobody ends the command.
Interrupted ==
    /\ command.phase # "idle"
    /\ command' = [command EXCEPT !.phase = "idle", !.result = "cancelled"]
    /\ UNCHANGED <<roots, disk, debris, told>>

Next ==
    \/ \E p \in Paths : Write(p) \/ ReadFile(p) \/ SearchCode(p) \/ SearchFile(p)
    \/ \E p \in Paths, n \in 1..MaxLines + 1, text \in Texts : Edit(p, n, text)
    \/ \E r \in 1..MaxRoots, name \in Names : UserSaves(r, name)
    \/ Launch \/ ProcessEnds \/ CommandReturns \/ TimesOut \/ Interrupted

Spec == Init /\ [][Next]_vars

-----------------------------------------------------------------------------

\* What an edit inserts, an edit of the same line takes out again and nothing
\* else has changed - but for the line ends of a CRLF file, and for a line put
\* behind an unterminated last one; and no kill leaves half a file
\* (_execute_edit, atomic_write).
EditsAreExact ==
    \A r \in 1..MaxRoots, name \in Names :
        LET c == disk[r][name]
        IN  /\ c # Torn
            /\ Exists(c) => \A n \in 1..Len(c.lines) + 1, t \in Texts :
                  \/ c.open /\ n > Len(c.lines)
                  \/ Deleted(Inserted(c, n, t), n) = [c EXCEPT !.ends = "lf"]

\* A path that search_file answers with leads every other tool to the file it
\* was found in; with one root, so does what the other tools answer
\* (_display_relative_path, _parse_prefixed_root_path, resolve_path).
PathsLeadBack ==
    told # Nothing /\ (told.tool = "search_file" \/ roots = 1) =>
        Allowed(told.path) /\ <<Root(told.path), told.path.name>> = told.of

\* A command whose call has answered is over, with everything it started that
\* holds its output; only an interrupted call leaves it behind (execute).
AnsweredIsOver ==
    command.phase = "idle" /\ command.result \in {"done", "timeout"} =>
        ~command.shell /\ ~command.child
=============================================================================
