------------------------------ MODULE SysInfo ------------------------------
(***************************************************************************)
(* base/sysinfo.cc: ProcMapsIterator, which reads /proc/self/maps through  *)
(* one fixed buffer, its line parser, the two writers that copy the map    *)
(* into a profile, and GetUniquePathFromEnv, which keeps the profiles of a *)
(* process and of the programs it starts apart.                            *)
(*                                                                         *)
(* Text is a sequence of characters; a number, a set of permissions and a  *)
(* piece of a path are one character each.                                 *)
(***************************************************************************)
EXTENDS Integers, Sequences, SequencesExt, FiniteSets

CONSTANTS
    kBufSize,      \* ProcMapsIterator::Buffer::kBufSize
    SiFiles,       \* the maps the kernel may show: sequences of mappings
    SiReads,       \* how many characters one read may return at most
    FillSizes,     \* sizes of the buffer FillProcSelfMaps is given
    FormatHead,    \* length of a formatted line without its path
    Pids           \* processes that read CPUPROFILE or HEAPPROFILE

VARIABLES
    siFile,          \* the mappings of this process
    unread,        \* characters of /proc/self/maps not read yet
    text,          \* ibuf_ .. etext_
    stext, nextline, \* offsets into the buffer, from 0
    siPc,          \* "next": NextExt is to look for a line, "fill": it reads
    entries,       \* what Next has returned
    broken,        \* a read has failed
    out,           \* the caller: FillProcSelfMaps or DumpProcSelfMaps
    marked,        \* process |-> is the high bit of the first character set?
    path           \* process |-> the path it has been given

siVars == <<siFile, unread, text, stext, nextline, siPc, entries, broken, out,
            marked, path>>
readerVars == <<siFile, unread, text, stext, nextline, siPc, entries, broken, out>>
envVars == <<marked, path>>

ASSUME SysInfoAssumption == kBufSize > 2 /\ \A n \in SiReads : n > 0

Digits == {"0", "1", "2", "3", "4", "5", "6", "7", "8", "9"}

\* The kernel's line for a mapping: start-end perms offset major:minor inode,
\* padding, path
Printed(l) ==
    <<l.start, "-", l.end, " ", "r", " ", "0", " ", "0", ":", "0", " ", "0">>
      \o [i \in 1 .. l.pad |-> " "] \o l.name

-----------------------------------------------------------------------------
(* ParseProcMapsLine                                                       *)

Failed == [at |-> 0, vals |-> <<>>]

\* ExtractUntilChar: where c is in s, from position i on; 0 if nowhere
ExtractUntilChar(s, i, c) ==
    IF \E j \in i .. Len(s) : s[j] = c
    THEN CHOOSE j \in i .. Len(s) : s[j] = c /\ \A k \in i .. j - 1 : s[k] # c
    ELSE 0

\* SkipWhileWhitespace: to the last of a run of spaces
SkipWhileWhitespace(s, i, c) ==
    IF c = " "
    THEN CHOOSE j \in i .. Len(s) :
           /\ \A k \in i + 1 .. j : s[k] = " "
           /\ j = Len(s) \/ s[j + 1] # " "
    ELSE i

\* What strtoull accepts to the end: nothing at all, or digits after any spaces
IsInteger(s) ==
    s = <<>> \/ \E j \in 1 .. Len(s) : /\ \A k \in 1 .. j - 1 : s[k] = " "
                                      /\ \A k \in j .. Len(s) : s[k] \in Digits

\* StringToIntegerUntilCharWithCheck and CopyStringUntilChar: one field of the
\* line, up to the character c, which is skipped
FieldUntil(s, p, c, integer) ==
    LET j == ExtractUntilChar(s, p.at, c)
        v == SubSeq(s, p.at, j - 1)
    IN  IF p.at = 0 \/ j = 0 \/ (integer /\ ~IsInteger(v))
        THEN Failed
        ELSE [at |-> SkipWhileWhitespace(s, j, c) + 1, vals |-> Append(p.vals, v)]

\* start-end flags offset major:minor inode, then the file name; the text of
\* a line that does not parse is nobody's mapping
ParseProcMapsLine(s) ==
    LET fields == <<<<"-", TRUE>>, <<" ", TRUE>>, <<" ", FALSE>>, <<" ", TRUE>>,
                    <<":", TRUE>>, <<" ", TRUE>>, <<" ", TRUE>>>>
        One(p, f) == FieldUntil(s, p, f[1], f[2])
    IN  IF s = <<>> THEN Failed
        ELSE FoldLeft(One, [at |-> 1, vals |-> <<>>], fields)

\* What Next stores through its arguments
SiEntryOf(s) ==
    LET p == ParseProcMapsLine(s)
    IN  [start |-> p.vals[1], end |-> p.vals[2], name |-> SubSeq(s, p.at, Len(s))]

-----------------------------------------------------------------------------
(* NextExt                                                                 *)

\* Offset of the first newline at offset i or after it; -1 if there is none
NewlineFrom(i) ==
    LET j == ExtractUntilChar(text, i + 1, "\n") IN j - 1

\* The text of FormatLine, and whether it fits into n characters with its NUL
FormatLength(e) == FormatHead + Len(e.name)
Fits(e, n) == FormatLength(e) < n

\* The caller's loop around Next: FillProcSelfMaps appends the formatted line
\* or clears *wrote_all, DumpProcSelfMaps writes what one buffer can hold.
Deliver(e) ==
    IF out.who = "fill"
    THEN IF Fits(e, out.size - out.bytes)
         THEN [out EXCEPT !.bytes = @ + FormatLength(e), !.lines = Append(@, e)]
         ELSE [out EXCEPT !.wrote_all = FALSE]
    ELSE IF Fits(e, kBufSize) THEN [out EXCEPT !.lines = Append(@, e)] ELSE out

\* The end of a turn of NextExt's loop, with the line at offsets s .. e - 1 of
\* the buffer: return the entry, or go on while there is text, or return false
TakeLine(buffer, s, e) ==
    LET line == SubSeq(buffer, s + 1, e)
        ok == ParseProcMapsLine(line).at # 0
    IN  /\ text' = buffer
        /\ stext' = s
        /\ nextline' = IF e < Len(buffer) THEN e + 1 ELSE e
        /\ entries' = IF ok THEN Append(entries, SiEntryOf(line)) ELSE entries
        /\ out' = IF ok THEN Deliver(SiEntryOf(line)) ELSE out
        /\ siPc' = IF ok \/ Len(buffer) > 0 THEN "next" ELSE "end"

\* "Advance to the start of the next line"; when it is not all in the buffer,
\* move what there is to the front and read
NextLine ==
    /\ siPc = "next"
    /\ LET newline == NewlineFrom(nextline)
       IN  IF newline # -1
           THEN TakeLine(text, nextline, newline)
           ELSE /\ text' = SubSeq(text, nextline + 1, Len(text))
                /\ stext' = 0
                /\ siPc' = "fill"
                /\ UNCHANGED <<nextline, entries, out>>
    /\ UNCHANGED <<siFile, unread, broken>> /\ UNCHANGED envVars

\* A bug: the reads stop as soon as there is any text, not when it has a line.
EnoughAny(buffer) == Len(buffer) > 0

\* etext_ == ebuf_: the buffer is full but for the place of the sentinel
Enough(buffer) == Len(buffer) = kBufSize - 1

\* One read: it returns some of the characters there are, none at the end of
\* the file, or fails
Read ==
    /\ siPc = "fill"
    /\ ~Enough(text)
    /\ unread # <<>>
    /\ \E max \in SiReads :
         LET n == CHOOSE m \in 1 .. max :
                    /\ m <= Len(unread) /\ m <= kBufSize - 1 - Len(text)
                    /\ m = max \/ m = Len(unread) \/ m = kBufSize - 1 - Len(text)
         IN  /\ text' = text \o SubSeq(unread, 1, n)
             /\ unread' = SubSeq(unread, n + 1, Len(unread))
    /\ UNCHANGED <<siFile, stext, nextline, siPc, entries, broken, out>>
    /\ UNCHANGED envVars

\* The buffer is full, or read returned 0 or an error: the sentinel ends the
\* line if nothing else does
EndOfFill ==
    /\ siPc = "fill"
    /\ \/ (Enough(text) \/ unread = <<>>) /\ UNCHANGED broken
       \/ ~Enough(text) /\ ~broken /\ broken' = TRUE
    /\ LET newline == NewlineFrom(0)
       IN  TakeLine(text, 0, IF newline # -1 THEN newline ELSE Len(text))
    /\ UNCHANGED <<siFile, unread>> /\ UNCHANGED envVars

-----------------------------------------------------------------------------
(* GetUniquePathFromEnv                                                    *)

\* envval[0] |= 128, "for kids to see"
MarkForKids(p) == [marked EXCEPT ![p] = "marked"]

\* Called from the constructors of the profilers, before main
GetUniquePathFromEnv(p) ==
    /\ marked[p] \in {"plain", "marked"} /\ path[p] = "none"
    /\ IF marked[p] = "marked"
       THEN path' = [path EXCEPT ![p] = p] /\ UNCHANGED marked
       ELSE path' = [path EXCEPT ![p] = "base"] /\ marked' = MarkForKids(p)
    /\ UNCHANGED readerVars

\* A running program starts another, which inherits the environment (external)
ForkAndExec(p, child) ==
    /\ path[p] # "none" /\ marked[child] = "absent"
    /\ marked' = [marked EXCEPT ![child] = marked[p]]
    /\ UNCHANGED path /\ UNCHANGED readerVars

-----------------------------------------------------------------------------

Callers == {[who |-> "fill", size |-> n, bytes |-> 0, lines |-> <<>>,
             wrote_all |-> TRUE] : n \in FillSizes}
             \cup {[who |-> "dump", lines |-> <<>>]}

\* Either a process reads its map, or programs start one another
SysInfoInit ==
    /\ \/ /\ siFile \in SiFiles
          /\ out \in Callers
          /\ siPc = "next"
          /\ marked = [p \in Pids |-> "absent"]
       \/ /\ siFile = <<>>
          /\ out = [who |-> "dump", lines |-> <<>>]
          /\ siPc = "end"
          /\ \E root \in Pids :
               marked = [p \in Pids |-> IF p = root THEN "plain" ELSE "absent"]
    /\ unread = FoldLeft(LAMBDA t, l : t \o Printed(l) \o <<"\n">>, <<>>, siFile)
    /\ text = <<>> /\ stext = 0 /\ nextline = 0
    /\ entries = <<>> /\ broken = FALSE
    /\ path = [p \in Pids |-> "none"]

SysInfoNext ==
    \/ NextLine \/ Read \/ EndOfFill
    \/ \E p \in Pids : GetUniquePathFromEnv(p)
    \/ \E p, child \in Pids : ForkAndExec(p, child)

SysInfoSpec == SysInfoInit /\ [][SysInfoNext]_siVars

-----------------------------------------------------------------------------

\* ProcMapsIterator returns the mappings of the process in order, none twice
\* and none skipped, whatever pieces read() returns the file in and wherever a
\* line crosses the end of the buffer; a path is whole when its line fits into
\* the buffer and its beginning otherwise.  When Next returns false all of them
\* have been returned.
MapsReadExactly ==
    ~broken =>
      /\ Len(entries) <= Len(siFile)
      /\ siPc = "end" => Len(entries) = Len(siFile)
      /\ \A i \in 1 .. Len(entries) :
           /\ entries[i].start = <<siFile[i].start>>
           /\ entries[i].end = <<siFile[i].end>>
           /\ IF Len(Printed(siFile[i])) < kBufSize
              THEN entries[i].name = siFile[i].name
              ELSE IsPrefix(entries[i].name, siFile[i].name)

\* FillProcSelfMaps' comment: it returns "the actual size occupied in 'buf'",
\* which never exceeds size, and *wrote_all is true exactly when every line is
\* there; DumpProcSelfMaps leaves out no line that fits its buffer.
ProfileMapHonest ==
    IF out.who = "fill"
    THEN /\ out.bytes = FoldLeft(LAMBDA n, e : n + FormatLength(e), 0, out.lines)
         /\ out.bytes <= out.size
         /\ out.wrote_all <=> out.lines = entries
    ELSE out.lines = SelectSeq(entries, LAMBDA e : FormatLength(e) < kBufSize)

\* GetUniquePathFromEnv's comment: a program started, directly or not, by a
\* process that profiles never writes to that process's file, nor do two such
\* programs share one.
PathsUnique ==
    \A p, q \in Pids : p # q /\ path[p] # "none" => path[p] # path[q]

=============================================================================
