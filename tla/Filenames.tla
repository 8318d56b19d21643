------------------------------- MODULE Filenames -------------------------------
(***************************************************************************)
(* sanitize_filename (FileService.c): what becomes of a name a client      *)
(* asks the server to save under, and of the one the Android client has    *)
(* made of it before (Connector.sanitizeFilename).                         *)
(*                                                                         *)
(* A name is a sequence of characters, a character one of four: a letter,  *)
(* digit or dash "a", the underscore, the dot, and one the pattern         *)
(* [^[:alnum:]._-] matches.  The function's buffers are sequences, its     *)
(* offsets their lengths.  One action is one round of one of its loops.    *)
(***************************************************************************)
EXTENDS Integers, Sequences

CONSTANTS
    MAX_FILENAME,   \* config.h: 255
    RawNames        \* the names as they reach the function

Char == {"a", "_", ".", "!"}
Invalid(c) == c = "!"

ASSUME FilenamesAssumption ==
    /\ MAX_FILENAME \in Nat \ (0 .. 2)
    /\ \A name \in RawNames : name \in Seq(Char)

VARIABLES
    step,   \* the loop sanitize_filename is in, "idle" outside of it
    raw,    \* src
    p,      \* how much of src has been read
    temp,   \* the buffer, up to temp_len
    dest    \* what is returned

filenameVars == <<step, raw, p, temp, dest>>

\* "unnamed.dat".
Unnamed == <<"a", ".", "a">>

Rest(s, n) == SubSeq(s, n + 1, Len(s))

--------------------------------------------------------------------------------
FilenamesInit == step = "idle" /\ raw = <<>> /\ p = 0 /\ temp = <<>> /\ dest = <<>>

CallSanitize ==
    /\ step = "idle"
    /\ raw' \in RawNames
    /\ step' = "copy"
    /\ UNCHANGED <<p, temp, dest>>

\* No name was given, or the pattern cannot be compiled.
GiveUp ==
    /\ step = "copy" /\ p = 0 /\ temp = <<>>
    /\ dest' = Unnamed
    /\ step' = "done"
    /\ UNCHANGED <<raw, p, temp>>

\* How many of n characters are copied: one place is kept free.
Fitting(n) == IF Len(temp) + n >= MAX_FILENAME THEN MAX_FILENAME - Len(temp) - 1 ELSE n

\* One round of the while loop.  Up to the next invalid character, which becomes an
\* underscore; without one, up to the end.
Copy ==
    /\ step = "copy"
    /\ p < Len(raw) /\ Len(temp) < MAX_FILENAME
    /\ LET invalid == {i \in p + 1 .. Len(raw) : Invalid(raw[i])}
       IN  \/ \E first \in invalid :
                /\ \A i \in invalid : first <= i
                /\ LET copied == temp \o SubSeq(raw, p + 1, p + Fitting(first - p - 1))
                   IN  temp' = IF Len(copied) < MAX_FILENAME THEN Append(copied, "_") ELSE copied
                /\ p' = first
                /\ UNCHANGED step
           \/ /\ invalid = {}
              /\ temp' = temp \o SubSeq(raw, p + 1, p + Fitting(Len(raw) - p))
              /\ p' = Len(raw)
              /\ step' = "dots"
    /\ UNCHANGED <<raw, dest>>

EndCopy ==
    /\ step = "copy"
    /\ p = Len(raw) \/ Len(temp) = MAX_FILENAME
    /\ step' = "dots"
    /\ UNCHANGED <<raw, p, temp, dest>>

IsDotDot(s, i) == i < Len(s) /\ s[i] = "." /\ s[i + 1] = "."
DotDots(s) == {i \in DOMAIN s : IsDotDot(s, i)}

\* Mutant: the dots are looked for once.
CollapseOnce ==
    /\ step = "dots"
    /\ step' = "strip"
    /\ \/ /\ DotDots(temp) = {}
          /\ UNCHANGED temp
       \/ \E i \in DotDots(temp) :
            /\ \A j \in DotDots(temp) : i <= j
            /\ temp' = Append(SubSeq(temp, 1, i - 1), "_") \o Rest(temp, i + 1)
    /\ UNCHANGED <<raw, p, dest>>

\* One round of the strstr loop: the first two dots in a row become one underscore.
Collapse ==
    /\ step = "dots"
    /\ \/ /\ DotDots(temp) = {}
          /\ step' = "strip"
          /\ UNCHANGED temp
       \/ \E i \in DotDots(temp) :
            /\ \A j \in DotDots(temp) : i <= j
            /\ temp' = Append(SubSeq(temp, 1, i - 1), "_") \o Rest(temp, i + 1)
            /\ UNCHANGED step
    /\ UNCHANGED <<raw, p, dest>>

\* A leading dot is skipped, an empty name replaced.
Strip ==
    /\ step = "strip"
    /\ LET final == IF temp # <<>> /\ temp[1] = "." THEN Tail(temp) ELSE temp
       IN  dest' = IF final = <<>> THEN Unnamed ELSE final
    /\ step' = "done"
    /\ UNCHANGED <<raw, p, temp>>

\* The caller has the name.
ReturnName ==
    /\ step = "done"
    /\ step' = "idle" /\ raw' = <<>> /\ p' = 0 /\ temp' = <<>> /\ dest' = <<>>

FilenamesNext == CallSanitize \/ GiveUp \/ Copy \/ EndCopy \/ Collapse \/ Strip \/ ReturnName

FilenamesSpec == FilenamesInit /\ [][FilenamesNext]_filenameVars

--------------------------------------------------------------------------------
(***************************************************************************)
(* Connector.sanitizeFilename: every invalid character, and every run of   *)
(* two or more dots, becomes one underscore; then one leading dot goes.    *)
(***************************************************************************)
Underscored(name) == [i \in DOMAIN name |-> IF Invalid(name[i]) THEN "_" ELSE name[i]]

\* Mutant: runs of dots are left to the server.
ClientCleanKeepsDots(name) == Underscored(name)

\* The i-th character after those before it: a dot that follows a dot goes; one that is
\* followed, and stays, becomes the underscore.
DotsReplaced(before, clean, i) ==
    IF i > 1 /\ IsDotDot(clean, i - 1) THEN before
    ELSE Append(before, IF IsDotDot(clean, i) THEN "_" ELSE clean[i])

ClientClean(name) ==
    LET clean == Underscored(name)
        upTo[i \in 0 .. Len(clean)] ==
            IF i = 0 THEN <<>> ELSE DotsReplaced(upTo[i - 1], clean, i)
    IN  upTo[Len(clean)]

ClientSanitized(name) ==
    LET clean == ClientClean(name)
        stripped == IF clean # <<>> /\ clean[1] = "." THEN Tail(clean) ELSE clean
    IN  IF name = <<>> THEN <<>> ELSE IF stripped = <<>> THEN Unnamed ELSE stripped

ClientNames == {ClientSanitized(name) : name \in RawNames}

--------------------------------------------------------------------------------
\* The buffer temp[MAX_FILENAME + 1] has room for what is copied and its NUL, nothing is
\* read beyond src, and the name returned stays inside SAVE_DIR: it fits the caller's
\* buffer, is not empty, and holds no invalid character, no two dots in a row and no
\* leading dot, whatever the cuts, the collapsing and the stripping did to one another
\* (FileService.c:72-124).
SavedNameSafe ==
    /\ p <= Len(raw) /\ Len(temp) <= MAX_FILENAME
    /\ step = "done" =>
        /\ Len(dest) \in 1 .. MAX_FILENAME
        /\ \A i \in DOMAIN dest : ~ Invalid(dest[i])
        /\ DotDots(dest) = {}
        /\ dest[1] # "."

\* "Mirrors the server-side sanitize_filename so the name arriving at the server matches
\* what the user expects" (Connector.java:494-496): the server saves a name the client has
\* sanitised as it is, cut to MAX_FILENAME - 1 characters.  A file without a name, and a
\* server that cannot compile its pattern, are the exceptions.
ClientNameKept ==
    step = "done" /\ p > 0 /\ raw \in ClientNames =>
        dest = IF Len(raw) < MAX_FILENAME THEN raw ELSE SubSeq(raw, 1, MAX_FILENAME - 1)
================================================================================
