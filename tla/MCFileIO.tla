------------------------------ MODULE MCFileIO ------------------------------
(***************************************************************************)
(* Five-bit words and two files.  Each system is a question: what is open, *)
(* and which calls the threads make on it in any order and interleaving.   *)
(***************************************************************************)
EXTENDS FileIO

CONSTANTS file1, file2, thread1

\* The first thread makes up to n1 of the calls c1, every other up to n2 of c2.
System(kind, append, unsigned, start, size, n1, c1, n2, c2) ==
  [kind |-> [x \in Files |-> IF x = file1 THEN kind ELSE "regular"],
   append |-> append, unsigned |-> unsigned,
   maxbytes |-> [x \in Files |-> IF x = file1 THEN 6 ELSE 5],
   start |-> [x \in Files |-> IF x = file1 THEN start ELSE 0],
   size |-> [x \in Files |-> IF x = file1 THEN size ELSE 0],
   budget |-> [t \in Threads |-> IF t = thread1 THEN n1 ELSE n2],
   calls |-> [t \in Threads |-> IF t = thread1 THEN c1 ELSE c2]]

Same(kind, append, unsigned, start, size, calls) ==
  System(kind, append, unsigned, start, size, 2, calls, 2, calls)

MCSystems ==
  { \* readers, writers and seeks on a regular file
    Same("regular", {}, {}, 0, 2,
         {RW("r", file1, <<2>>), RW("w", file1, <<2>>), Seek(file1, 5, SEEK_SET), Seek(file1, 1, SEEK_CUR)}),
    \* seeks alone, up to the limits of the file and of the word
    Same("regular", {}, {}, 1, 2,
         {Seek(file1, 1, SEEK_CUR), Seek(file1, -1, SEEK_CUR), Seek(file1, Half - 1, SEEK_CUR), Seek(file1, 0, SEEK_CUR),
          Seek(file1, -1, SEEK_END), Seek(file1, 7, SEEK_SET), Seek(file1, 1, SEEK_DATA), Seek(file1, 1, SEEK_HOLE),
          Seek(file1, 2, SEEK_HOLE)}),
    \* appending, positioned and not
    Same("regular", {file1}, {}, 0, 1,
         {RW("w", file1, <<2>>), RW("r", file1, <<2>>), PRW("w", file1, <<1>>, 0), Seek(file1, 0, SEEK_END)}),
    \* a method that retries and queues: two threads, and one thread twice
    System("async", {}, {}, 0, 0, 1, {RW("r", file1, <<1>>)}, 1, {RW("w", file1, <<1>>)}),
    System("async", {}, {}, 0, 0, 2, {RW("r", file1, <<1>>), RW("w", file1, <<1>>)}, 0, {}),
    \* vectors through a plain method
    Same("plain", {}, {}, 0, 0,
         {RW("r", file1, <<1, 2>>), RW("w", file1, <<>>), Seek(file1, 3, SEEK_SET), Seek(file1, 1, SEEK_CUR)}),
    \* unsigned offsets near the end of the word
    Same("plain", {}, {file1}, -3, 0,
         {RW("r", file1, <<1, 1>>), RW("w", file1, <<2>>), PRW("r", file1, <<1>>, -1), Seek(file1, -2, SEEK_SET),
          Seek(file1, 1, SEEK_CUR)}),
    \* sendfile from file1 to file2 against a reader, a seek and a writer
    System("regular", {}, {}, 0, 3, 1, {Send(file1, file2, 2)},
           2, {RW("r", file1, <<1>>), Seek(file1, 6, SEEK_SET), RW("w", file2, <<1>>), Seek(file2, 5, SEEK_SET)}),
    \* two sendfiles
    System("regular", {}, {}, 0, 3, 1, {Send(file1, file2, 2)}, 1, {Send(file1, file2, 2), PSend(file1, file2, 2, 4)}),
    \* sendfile from a device
    System("plain", {}, {}, 0, 3, 1, {Send(file1, file2, 2)}, 1, {Seek(file1, 1, SEEK_CUR)}),
    \* sendfile to a file in append mode
    System("regular", {file2}, {}, 0, 3, 1, {Send(file1, file2, 2)}, 1, {RW("w", file2, <<1>>)}) }
=============================================================================
