------------------------------- MODULE ZFile --------------------------------
(***************************************************************************)
(* zfile: an object for a file that keeps a copy of the size, the time of  *)
(* modification and the digest of the file while other processes change    *)
(* it, reads it by chunks and by lines, and writes it through the buffer   *)
(* of a stdio stream.  The object may be made for "file.ln", a file that   *)
(* names the file to read, "target"; "file" is what it writes.             *)
(*                                                                         *)
(* Other processes write a file in a second later than its last            *)
(* modification unless SameSecond, and remove it only while this object    *)
(* has it closed.  The application reads back what it is writing only if   *)
(* ReadsBack, and the directory of the file can be created unless          *)
(* OutputFails.  Not here: zfile_tmp and the descriptor it closes,         *)
(* zfile_dup, and stable and mode, plain copies of what the system says.   *)
(***************************************************************************)
EXTENDS Integers, Sequences, FiniteSetsExt

CONSTANTS
    Contents,       \* what other processes leave in a file
    Chunks,         \* what the application writes
    MaxSize,        \* bound: octets in a file
    MaxTime,        \* bound: seconds
    BlockSize,      \* octets read at once by zfile_digest
    OutputFails,    \* zfile_output may fail to create the directory
    SameSecond,     \* a file may change twice in a second
    ReadsBack       \* the application reads a file it has open for output

VARIABLES
    disk,           \* the files there are
    now,            \* the time, in seconds
    self,           \* the zfile_t
    pending,        \* what the stream holds that is not on disk yet
    digesting,      \* zfile_digest on its way: offset and what it has read, or NULL
    got,            \* the last chunk zfile_read returned, or NULL
    opened,         \* history: what the open file holds, NULL once others changed it
    lines,          \* history: what zfile_readln returned since zfile_input, or NULL
    theirs          \* history: "target" as other processes left it

file_vars == <<disk, now, self, pending, digesting, got, opened, lines, theirs>>

\* What may be missing is a set with at most one element.
NULL == {}
The(x) == CHOOSE e \in x : TRUE

CR == 13
LF == 10
NoFile ==
    [alive |-> FALSE, link |-> FALSE, handle |-> "none", stream |-> "file", pos |-> 0, eof |-> FALSE,
     cursize |-> 0, modified |-> 0, digest |-> NULL]
\* A file that is removed; when it last changed is kept for SameSecond.
Absent(f) == [there |-> FALSE, content |-> <<>>, modified |-> f.modified]

\* real_name: what the link names, or the file itself.
Real(s) == IF s.link THEN "target" ELSE "file"

\* The files once the buffer of the stream is written out; a gap reads as zeros.
Flushed ==
    IF pending = NULL
    THEN disk
    ELSE LET old == disk["file"].content
             first == The(pending).offset + 1
             last == The(pending).offset + Len(The(pending).data)
             new == [i \in 1 .. Max({last, Len(old)}) |->
                        CASE i \in first .. last -> The(pending).data[i - The(pending).offset]
                          [] i \notin first .. last /\ i <= Len(old) -> old[i]
                          [] OTHER -> 0]
         IN  [disk EXCEPT !["file"].content = new, !["file"].modified = now]

-----------------------------------------------------------------------------
(* The operations. *)

\* The time of modification; a file that is not there has size and time 0.
mtime(f) == IF f.there THEN f.modified ELSE 0

mut_restat_digest(s, d) ==
    [s EXCEPT !.cursize = Len(d[Real(s)].content), !.modified = mtime(d[Real(s)])]

\* What is known of the file is read again, and the digest is forgotten.
restat(s, d) ==
    [s EXCEPT !.cursize = Len(d[Real(s)].content), !.modified = mtime(d[Real(s)]),
              !.digest = NULL]

\* zfile_close, given the object and the files with the buffer written out.
close(s, d) ==
    IF s.handle = "none" THEN s
    ELSE [restat([s EXCEPT !.handle = "none", !.stream = "file", !.pos = 0], d) EXCEPT !.eof = FALSE]

zfile_new(link) ==
    /\ ~self.alive
    /\ link => disk["file.ln"].there
    /\ self' = restat([NoFile EXCEPT !.alive = TRUE, !.link = link], disk)
    /\ UNCHANGED <<disk, now, pending, digesting, got, opened, lines, theirs>>

Usable == self.alive /\ digesting = NULL

zfile_destroy ==
    /\ Usable
    /\ disk' = Flushed /\ pending' = NULL
    /\ self' = NoFile
    /\ got' = NULL /\ opened' = NULL /\ lines' = NULL
    /\ UNCHANGED <<now, digesting, theirs>>

zfile_restat ==
    /\ Usable
    /\ self' = restat(self, disk)
    /\ opened' = IF self.handle = "none" \/ self.stream # Real(self) THEN NULL
                 ELSE {disk[self.stream].content}
    /\ got' = NULL
    /\ UNCHANGED <<disk, now, pending, digesting, lines, theirs>>

zfile_has_changed(s) ==
    /\ disk[Real(s)].there
    /\ \/ disk[Real(s)].modified # s.modified
       \/ Len(disk[Real(s)].content) # s.cursize

\* The stream is opened at its start, and the size is that of this moment.
open_input(s, d) ==
    [s EXCEPT !.handle = "input", !.stream = Real(s), !.pos = 0,
              !.cursize = Len(d[Real(s)].content)]

\* The object and the histories after zfile_input.
Input(s) ==
    LET there == Flushed[Real(s)].there
        content == Flushed[Real(s)].content
    IN  /\ disk' = Flushed /\ pending' = NULL
        /\ self' = IF there THEN open_input(close(s, Flushed), Flushed) ELSE close(s, Flushed)
        /\ opened' = IF there THEN {content} ELSE NULL
        /\ lines' = IF there THEN {<<>>} ELSE NULL
        /\ got' = NULL

zfile_input ==
    /\ Usable
    /\ Input(self)
    /\ UNCHANGED <<now, digesting, theirs>>

\* What zfile_output opens: the file itself, for a link is wiped first.
output_name(s) == Real([s EXCEPT !.link = FALSE])

\* The path may not be created, and then the link is wiped but nothing else is done.
zfile_output ==
    /\ Usable
    /\ LET name == output_name(self)
           wiped == [self EXCEPT !.link = (name = "target")]
       IN  \/ /\ OutputFails
              /\ self' = wiped
              /\ UNCHANGED <<disk, pending, opened, lines>>
           \/ LET d == Flushed IN
              /\ disk' = IF d[name].there THEN d
                         ELSE [d EXCEPT ![name] = [there |-> TRUE, content |-> <<>>, modified |-> now]]
              /\ pending' = NULL
              /\ self' = [close(wiped, d) EXCEPT !.handle = "output", !.stream = name, !.pos = 0]
              /\ opened' = {d[name].content} /\ lines' = NULL
    /\ got' = NULL
    /\ UNCHANGED <<now, digesting, theirs>>

\* How much zfile_read reads, and whether it asked for more than there is.
clip(bytes, offset, cursize) ==
    IF offset > cursize THEN [bytes |-> 0, eof |-> TRUE]
    ELSE IF bytes > cursize - offset THEN [bytes |-> cursize - offset, eof |-> TRUE]
    ELSE [bytes |-> bytes, eof |-> FALSE]

\* What zchunk_read finds: a stream may end before the size that was recorded.
ChunkAt(content, offset, bytes) ==
    SubSeq(content, offset + 1, Min({offset + bytes, Len(content)}))

zfile_read(bytes, offset) ==
    /\ Usable
    /\ self.handle = "input" \/ (self.handle = "output" /\ ReadsBack)
    /\ LET c == clip(bytes, offset, self.cursize)
           chunk == ChunkAt(Flushed[self.stream].content, offset, c.bytes)
       IN  /\ self' = [self EXCEPT !.eof = c.eof, !.pos = offset + Len(chunk)]
           /\ got' = {[chunk |-> chunk, offset |-> offset, bytes |-> bytes]}
    /\ disk' = Flushed /\ pending' = NULL
    /\ opened' = IF self.handle = "output" THEN {Flushed[self.stream].content} ELSE opened
    /\ lines' = NULL
    /\ UNCHANGED <<now, digesting, theirs>>

\* The position is set, which writes out the buffer, and the chunk is put into it.
zfile_write(data, offset) ==
    /\ Usable
    /\ self.handle = "output"
    /\ Max({Len(Flushed[self.stream].content), offset + Len(data)}) <= MaxSize
    /\ disk' = Flushed
    /\ pending' = {[offset |-> offset, data |-> data]}
    /\ self' = [self EXCEPT !.pos = offset + Len(data)]
    /\ got' = NULL
    /\ UNCHANGED <<now, digesting, opened, lines, theirs>>

\* A character that does not go into the line.
skipped(c) == c = CR

\* The line zfile_readln makes of the characters from p on, or NULL, and where it stops.
ReadLine(content, p) ==
    LET scan[i \in 0 .. Len(content)] ==
            IF i <= p THEN [text |-> <<>>, done |-> FALSE, pos |-> p]
            ELSE LET s == scan[i - 1]
                     c == content[i]
                 IN  IF s.done THEN s
                     ELSE IF skipped(c) THEN [s EXCEPT !.pos = i]
                     ELSE IF c = LF THEN [s EXCEPT !.done = TRUE, !.pos = i]
                     ELSE [s EXCEPT !.text = Append(@, c), !.pos = i]
        s == scan[Len(content)]
    IN  IF ~s.done /\ s.text = <<>> THEN [text |-> NULL, pos |-> s.pos]
        ELSE [text |-> {s.text}, pos |-> s.pos]

zfile_readln ==
    /\ Usable
    /\ self.handle = "input"
    /\ self.pos <= Len(disk[self.stream].content)
    /\ LET line == ReadLine(disk[self.stream].content, self.pos) IN
       /\ self' = [self EXCEPT !.pos = line.pos]
       /\ lines' = IF lines = NULL \/ line.text = NULL THEN lines ELSE {Append(The(lines), The(line.text))}
    /\ got' = NULL
    /\ UNCHANGED <<disk, now, pending, digesting, opened, theirs>>

zfile_close ==
    /\ Usable
    /\ self.handle # "none"
    /\ disk' = Flushed /\ pending' = NULL
    /\ self' = close(self, Flushed)
    /\ got' = NULL /\ opened' = NULL /\ lines' = NULL
    /\ UNCHANGED <<now, digesting, theirs>>

\* The name gets its ".ln" back if this was a link; the object is of no more use.
zfile_remove ==
    /\ Usable
    /\ disk' = [Flushed EXCEPT ![IF self.link THEN "file.ln" ELSE "file"] = Absent(@)]
    /\ pending' = NULL
    /\ self' = NoFile
    /\ got' = NULL /\ opened' = NULL /\ lines' = NULL
    /\ UNCHANGED <<now, digesting, theirs>>

\* zfile_digest: a digest that is known is returned, else the file is opened and
\* read block by block; other processes go on meanwhile.
zfile_digest ==
    /\ Usable
    /\ self.digest = NULL
    /\ Input(self)
    /\ digesting' = IF Flushed[Real(self)].there THEN {[offset |-> 0, read |-> <<>>]} ELSE NULL
    /\ UNCHANGED <<now, theirs>>

digest_block ==
    /\ digesting # NULL
    /\ LET c == clip(BlockSize, The(digesting).offset, self.cursize)
           chunk == ChunkAt(disk[self.stream].content, The(digesting).offset, c.bytes)
       IN  IF chunk = <<>>
           THEN /\ self' = [self EXCEPT !.digest = {The(digesting).read}, !.handle = "none",
                                        !.stream = "file", !.pos = 0, !.eof = c.eof]
                /\ digesting' = NULL
                /\ opened' = NULL /\ lines' = NULL
           ELSE /\ self' = [self EXCEPT !.eof = c.eof]
                /\ digesting' = {[offset |-> The(digesting).offset + BlockSize,
                                  read |-> The(digesting).read \o chunk]}
                /\ UNCHANGED <<opened, lines>>
    /\ UNCHANGED <<disk, now, pending, got, theirs>>

-----------------------------------------------------------------------------
(* The stream, the clock and other processes. *)

\* stdio writes the buffer out when it likes.
stream_flush ==
    /\ pending # NULL
    /\ disk' = Flushed /\ pending' = NULL
    /\ UNCHANGED <<now, self, digesting, got, opened, lines, theirs>>

clock_tick ==
    /\ now < MaxTime
    /\ now' = now + 1
    /\ UNCHANGED <<disk, self, pending, digesting, got, opened, lines, theirs>>

Others(name, f) ==
    /\ disk' = [disk EXCEPT ![name] = f]
    /\ theirs' = IF name = "target" THEN f ELSE theirs
    /\ got' = NULL
    /\ opened' = IF name = self.stream THEN NULL ELSE opened
    /\ lines' = IF name = self.stream THEN NULL ELSE lines
    /\ UNCHANGED <<now, self, pending, digesting>>

other_write(name, content) ==
    /\ pending = NULL
    /\ disk[name].content # content
    /\ SameSecond \/ disk[name].modified < now
    /\ Others(name, [there |-> TRUE, content |-> content, modified |-> now])

other_remove(name) ==
    /\ disk[name].there
    /\ self.handle = "none"
    /\ Others(name, Absent(disk[name]))

FileInit ==
    /\ disk = [name \in {"file", "target", "file.ln"} |->
                  [there |-> name # "file", content |-> <<>>, modified |-> 0]]
    /\ now = 1
    /\ self = NoFile /\ pending = NULL /\ digesting = NULL /\ got = NULL
    /\ opened = NULL /\ lines = NULL
    /\ theirs = disk["target"]

FileNext ==
    \/ \E link \in BOOLEAN : zfile_new(link)
    \/ zfile_destroy \/ zfile_restat \/ zfile_input \/ zfile_output
    \/ \E bytes \in 1 .. 2, offset \in 0 .. MaxSize : zfile_read(bytes, offset)
    \/ \E data \in Chunks, offset \in 0 .. MaxSize : zfile_write(data, offset)
    \/ zfile_readln \/ zfile_close \/ zfile_remove
    \/ zfile_digest \/ digest_block
    \/ stream_flush \/ clock_tick
    \/ \E name \in {"file", "target"} :
          other_remove(name) \/ \E content \in Contents : other_write(name, content)

FileSpec == FileInit /\ [][FileNext]_file_vars

-----------------------------------------------------------------------------
(* What is checked. *)

\* A digest that is kept is that of the file as it is now, or zfile_has_changed says
\* that the file is another: also when the file changed between two blocks of the
\* computation, was written through this object, or stopped being a link.
DigestTrue ==
    (self.digest # NULL /\ self.handle # "output" /\ disk[Real(self)].there)
        => zfile_has_changed(self) \/ self.digest = {disk[Real(self)].content}

\* As long as nobody else changes a file that was opened or looked at again, zfile_read
\* returns what is at that offset, as much as was asked for or as there is, and sets eof
\* exactly when there was less.
ReadExact ==
    \A g \in got, content \in opened :
        /\ g.chunk = ChunkAt(content, g.offset, g.bytes)
        /\ self.eof <=> g.offset + g.bytes > Len(content)

\* The lines of a text: cut at line feeds, without carriage returns, the last one
\* counted only if it has characters or is ended.
Lines(content) ==
    LET plain == SelectSeq(content, LAMBDA c : c # CR)
        ends == {i \in 1 .. Len(plain) : plain[i] = LF}
        cuts == {0} \cup ends \cup
                (IF plain # <<>> /\ Len(plain) \notin ends THEN {Len(plain) + 1} ELSE {})
        before(i) == Max({j \in cuts : j < i})
    IN  {<<Cardinality({j \in cuts : j < i}), SubSeq(plain, before(i) + 1, i - 1)>> :
            i \in cuts \ {0}}

\* Reading line by line gives the lines of the file in order, none twice and none left
\* out, in the UNIX and in the MS-DOS format.
LinesExact ==
    \A read \in lines, content \in opened :
        /\ \A n \in 1 .. Len(read) : <<n, read[n]>> \in Lines(content)
        /\ self.pos = Len(content) => Len(read) = Cardinality(Lines(content))

\* The file a link names is never changed through the object: writing wipes the link
\* and goes to a file of its own, removing removes the link.
LinkedUntouched == disk["target"] = theirs

=============================================================================
