----------------------------- MODULE StateStore -----------------------------
(***************************************************************************)
(* One file of the state directory (src/src/storage/state_store.rs):       *)
(* config.json or session.json, or, when encrypted, credentials.enc.json   *)
(* with the key file it is encrypted under.                                *)
(*                                                                         *)
(* write_json_file fills a temporary file, whose name is the same for      *)
(* every writer, and renames it.  The server's concurrent requests and     *)
(* other servers of the same user write at the same time, and a writer may *)
(* die between two file operations.  The key file is written in place.     *)
(*                                                                         *)
(* A name refers to an inode; a writer or reader that opened an inode      *)
(* keeps it when the name is renamed or removed.                           *)
(***************************************************************************)
EXTENDS Naturals, Sequences, FiniteSets

CONSTANTS
  Writers,
  Readers,
  Values,     \* what is saved
  Size,       \* the number of blocks a value fills
  Inodes,
  None,       \* no inode, no key
  Empty       \* a key file that was created and not yet filled

ASSUME StoreConstants ==
  /\ Size \in [Values -> Nat \ {0}]
  /\ IsFiniteSet(Inodes) /\ IsFiniteSet(Writers) /\ IsFiniteSet(Readers)
  /\ Cardinality(Inodes) >= 2 + Cardinality(Writers) + Cardinality(Readers)
  /\ None \notin Inodes \cup Writers /\ Empty \notin Writers \cup {None}

VARIABLES
  encrypted,   \* whether the file is the credentials file
  content,     \* the blocks of each inode
  path,        \* the inode the file name refers to
  temp,        \* the inode the temporary name refers to
  keyFile,     \* the key file: None, Empty or a key, named by its creator
  writer,      \* each write in progress
  reading,     \* the inode each reader has open
  overlapped,  \* history: two writers had the temporary file at once
  keyRaced     \* history: two writers found no key at once

names == <<path, temp>>
history == <<overlapped, keyRaced>>
vars == <<encrypted, content, names, keyFile, writer, reading, history>>

-----------------------------------------------------------------------------
Keys == Writers \cup {None}

Documents == [value : Values, key : Keys]

\* The blocks of an inode that holds one document and nothing else.
Blocks(d) == [i \in 1..Size[d.value] |-> d]

Whole(blocks) == \E d \in Documents : blocks = Blocks(d)

Larger(m, n) == IF m > n THEN m ELSE n

\* Writing a document over what an inode holds.
Overwrite(blocks, d) ==
  [i \in 1..Larger(Len(blocks), Size[d.value]) |->
     IF i <= Size[d.value] THEN d ELSE blocks[i]]

Steps == {"idle", "read_key", "open_key", "fill_key", "open", "fill",
          "rename", "set_mode", "returned"}

Idle == [at |-> "idle", value |-> None, key |-> None, inode |-> None]

\* A writer that was told of success.
Told == [Idle EXCEPT !.at = "returned"]

At(w, step) == writer[w].at = step
Goto(w, step) == writer' = [writer EXCEPT ![w].at = step]
Return(w) == writer' = [writer EXCEPT ![w] = Idle]

Document(w) == [value |-> writer[w].value, key |-> writer[w].key]

Used == {path, temp} \cup {writer[w].inode : w \in Writers}
          \cup {reading[r] : r \in Readers}

\* An inode that nothing refers to any more is reclaimed.
Reclaim ==
  content' = [i \in Inodes |-> IF i \in Used' THEN content[i] ELSE <<>>]

Init ==
  /\ encrypted \in BOOLEAN
  /\ content = [i \in Inodes |-> <<>>]
  /\ path = None
  /\ temp = None
  /\ keyFile = None
  /\ writer = [w \in Writers |-> Idle]
  /\ reading = [r \in Readers |-> None]
  /\ overlapped = FALSE
  /\ keyRaced = FALSE

-----------------------------------------------------------------------------
\* write_config, write_session or write_credentials.
BeginWrite(w, v) ==
  /\ At(w, "idle") \/ At(w, "returned")
  /\ writer' = [writer EXCEPT
       ![w] = [Idle EXCEPT !.at = IF encrypted THEN "read_key" ELSE "open",
                           !.value = v]]
  /\ UNCHANGED <<encrypted, content, names, keyFile, reading, history>>

\* Mutant of ReadKey: a key is generated for every write.
GenerateKey(w) ==
  /\ At(w, "read_key")
  /\ Goto(w, "open_key")
  /\ UNCHANGED <<encrypted, content, names, keyFile, reading, history>>

\* get_or_create_encryption_key: without a key file a key is generated; an
\* empty key cannot be used.
ReadKey(w) ==
  /\ At(w, "read_key")
  /\ \/ keyFile = None /\ Goto(w, "open_key")
     \/ keyFile = Empty /\ Return(w)
     \/ /\ keyFile \in Writers
        /\ writer' = [writer EXCEPT ![w].at = "open", ![w].key = keyFile]
  /\ keyRaced' = (keyRaced \/ (keyFile = None
                    /\ \E u \in Writers : At(u, "open_key")))
  /\ UNCHANGED <<encrypted, content, names, keyFile, reading, overlapped>>

\* The key is written in place: the file is created or truncated, then filled.
OpenKey(w) ==
  /\ At(w, "open_key")
  /\ keyFile' = Empty
  /\ Goto(w, "fill_key")
  /\ UNCHANGED <<encrypted, content, names, reading, history>>

FillKey(w) ==
  /\ At(w, "fill_key")
  /\ keyFile' = w
  /\ writer' = [writer EXCEPT ![w].at = "open", ![w].key = w]
  /\ UNCHANGED <<encrypted, content, names, reading, history>>

-----------------------------------------------------------------------------
\* The inode that opening a name for writing gives: its own or a new one.
Target(name) == IF name # None THEN name ELSE CHOOSE i \in Inodes : i \notin Used

Filling(w) == writer[w].inode # None

NoteOverlap ==
  overlapped' = (overlapped \/ \E u \in Writers : Filling(u))

\* Mutant of Open: what the temporary file holds is not truncated.
OpenKeepingContent(w) ==
  /\ At(w, "open")
  /\ LET i == Target(temp) IN
       /\ temp' = i
       /\ writer' = [writer EXCEPT ![w].at = "fill", ![w].inode = i]
  /\ NoteOverlap
  /\ UNCHANGED <<encrypted, content, path, keyFile, reading, keyRaced>>

\* write_json_file: fs::write creates or truncates the temporary file ...
Open(w) ==
  /\ At(w, "open")
  /\ LET i == Target(temp) IN
       /\ temp' = i
       /\ content' = [content EXCEPT ![i] = <<>>]
       /\ writer' = [writer EXCEPT ![w].at = "fill", ![w].inode = i]
  /\ NoteOverlap
  /\ UNCHANGED <<encrypted, path, keyFile, reading, keyRaced>>

\* ... and fills the inode it opened, wherever that is by now.
Fill(w) ==
  /\ At(w, "fill")
  /\ content' = [content EXCEPT ![writer[w].inode] = Overwrite(@, Document(w))]
  /\ Goto(w, "rename")
  /\ UNCHANGED <<encrypted, names, keyFile, reading, history>>

\* Mutant of Rename: the old file is removed first.
RemoveThenRename(w) ==
  /\ At(w, "rename")
  /\ path' = temp
  /\ temp' = None
  /\ writer' = [writer EXCEPT ![w].at = "set_mode", ![w].inode = None]
  /\ UNCHANGED <<encrypted, keyFile, reading, history>>
  /\ Reclaim

\* Mutant of Rename: a file that is there already is not replaced, and the
\* failed rename goes unnoticed.
RenameUnlessThere(w) ==
  /\ At(w, "rename")
  /\ path' = IF path = None THEN temp ELSE path
  /\ temp' = None
  /\ writer' = [writer EXCEPT ![w].at = "set_mode", ![w].inode = None]
  /\ UNCHANGED <<encrypted, keyFile, reading, history>>
  /\ Reclaim

\* The mode of the temporary file is set and it is renamed: an error when the
\* name is gone.
Rename(w) ==
  /\ At(w, "rename")
  /\ \/ temp = None /\ Return(w) /\ UNCHANGED names
     \/ /\ temp # None
        /\ path' = temp
        /\ temp' = None
        /\ writer' = [writer EXCEPT ![w].at = "set_mode", ![w].inode = None]
  /\ UNCHANGED <<encrypted, keyFile, reading, history>>
  /\ Reclaim

\* The last set_mode succeeds, and the writer is told so, or it fails because
\* the file was removed.
SetMode(w) ==
  /\ At(w, "set_mode")
  /\ \/ path = None /\ Return(w)
     \/ path # None /\ writer' = [writer EXCEPT ![w] = Told]
  /\ UNCHANGED <<encrypted, content, names, keyFile, reading, history>>

\* A writer stops: its process is killed, an operation fails, or its request is
\* dropped (a dropped request still ends the file operation it is in).
Die(w) ==
  /\ ~At(w, "idle") /\ ~At(w, "returned")
  /\ Return(w)
  /\ UNCHANGED <<encrypted, names, keyFile, reading, history>>
  /\ Reclaim

\* clear_session; the credentials are never cleared.
ClearSession ==
  /\ ~encrypted
  /\ path' = None
  /\ UNCHANGED <<encrypted, temp, keyFile, writer, reading, history>>
  /\ Reclaim

\* read_json_file opens the file; what it then reads is in its inode.
OpenFile(r) ==
  /\ reading[r] = None
  /\ reading' = [reading EXCEPT ![r] = path]
  /\ path # None
  /\ UNCHANGED <<encrypted, content, names, keyFile, writer, history>>

CloseFile(r) ==
  /\ reading[r] # None
  /\ reading' = [reading EXCEPT ![r] = None]
  /\ UNCHANGED <<encrypted, names, keyFile, writer, history>>
  /\ Reclaim

WriterStep(w) ==
  \/ ReadKey(w) \/ OpenKey(w) \/ FillKey(w)
  \/ Open(w) \/ Fill(w) \/ Rename(w) \/ SetMode(w) \/ Die(w)

Next ==
  \/ \E w \in Writers : WriterStep(w) \/ \E v \in Values : BeginWrite(w, v)
  \/ \E r \in Readers : OpenFile(r) \/ CloseFile(r)
  \/ ClearSession

Spec == Init /\ [][Next]_vars

-----------------------------------------------------------------------------
\* The values of the variables; a writer holds the temporary file and a key
\* exactly while it writes with them.
TypeOK ==
  /\ content \in [Inodes -> Seq(Documents)]
  /\ path \in Inodes \cup {None} /\ temp \in Inodes \cup {None}
  /\ keyFile \in Keys \cup {Empty}
  /\ writer \in [Writers -> [at : Steps, value : Values \cup {None}, key : Keys,
                             inode : Inodes \cup {None}]]
  /\ \A w \in Writers :
       /\ writer[w].inode # None <=> writer[w].at \in {"fill", "rename"}
       /\ writer[w].key # None => encrypted
       /\ encrypted /\ writer[w].at \in {"open", "fill", "rename"} => writer[w].key # None
  /\ reading \in [Readers -> Inodes \cup {None}]
  /\ encrypted \in BOOLEAN
  /\ overlapped \in BOOLEAN /\ keyRaced \in BOOLEAN

\* The inodes a reader reads, now or as soon as it opens the file.
Visible == ({path} \cup {reading[r] : r \in Readers}) \ {None}

\* Readers see a whole document, whatever writers died before, as long as no
\* two writers had the temporary file at once (state_store.rs:173-180).
WholeUnlessOverlapped ==
  ~overlapped => \A i \in Visible : Whole(content[i])

\* Saved credentials can be decrypted with the key on disk, whichever writer
\* created it and whoever died, unless two writers found no key at once
\* (state_store.rs:186-197).
CredentialsFitKey ==
  encrypted /\ ~keyRaced =>
    \A i \in Visible : \A n \in DOMAIN content[i] : content[i][n].key = keyFile

\* Once saved, the file is there until it is cleared: no reader finds it
\* missing while it is replaced, however writers interleave.
NeverMissing ==
  [][path # None /\ path' = None => ClearSession]_vars

-----------------------------------------------------------------------------
\* What a caller sees of the file: the values, whatever they are encrypted
\* under.
Text(v) == [n \in 1..Size[v] |-> v]

Plain(blocks) == [n \in 1..Len(blocks) |-> blocks[n].value]

Held(i) == IF i = None THEN None ELSE Plain(content[i])

Phase(step) ==
  CASE step = "idle" -> "idle"
    [] step = "set_mode" -> "saved"
    [] step = "returned" -> "told"
    [] OTHER -> "saving"

Progress(x) ==
  [at |-> Phase(x.at),
   document |-> IF x.at \in {"idle", "returned"} THEN None ELSE Text(x.value)]

file == Held(path)

saving == [w \in Writers |-> Progress(writer[w])]

seen == [r \in Readers |-> Held(reading[r])]

Atomic == INSTANCE AtomicFile WITH Documents <- {Text(v) : v \in Values}

\* Until two writers have had the temporary file at once, the file is atomic,
\* whoever died before (state_store.rs:154-181): a save puts its own value there
\* in one step, success is answered only after that step, and an open reader
\* sees what the file held when it was opened.
ImplementsAtomicFile ==
  Atomic!Init /\ [][overlapped' \/ Atomic!Next]_<<file, saving, seen>>
=============================================================================
