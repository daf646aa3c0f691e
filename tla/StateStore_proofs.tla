------------------------- MODULE StateStore_proofs -------------------------
(***************************************************************************)
(* Theorems about a file of the state directory and its key, for any       *)
(* number of writers and readers and any sizes of what is written.         *)
(***************************************************************************)
EXTENDS StateStore, FiniteSetTheorems, TLAPS

\* A writer in progress has something to write, only credentials need a key,
\* and nobody reads the temporary file.
Basics ==
  /\ \A w \in Writers :
       /\ ~At(w, "idle") /\ ~At(w, "returned") => writer[w].value \in Values
       /\ writer[w].at \in {"read_key", "open_key", "fill_key"} => encrypted
  /\ temp # None => temp \notin Visible

\* Alone with the temporary file, a writer finds it as it left it.
AloneInv ==
  /\ \A w, u \in Writers : Filling(w) /\ Filling(u) => w = u
  /\ \A w \in Writers :
       /\ Filling(w) => temp = writer[w].inode
       /\ At(w, "fill") => content[temp] = <<>>
       /\ At(w, "rename") => content[temp] = Blocks(Document(w))
  /\ \A i \in Visible : Whole(content[i])

\* One writer creates the key; everything is encrypted under it.
OneKeyInv ==
  /\ \A w \in Writers :
       /\ At(w, "open_key") => keyFile = None
       /\ At(w, "fill_key") => keyFile = Empty
       /\ writer[w].at \in {"open", "fill", "rename"} => writer[w].key = keyFile
  /\ \A w, u \in Writers :
       \/ w = u
       \/ writer[w].at \notin {"open_key", "fill_key"}
       \/ writer[u].at \notin {"open_key", "fill_key"}
  /\ \A i \in Inodes :
       /\ keyFile \notin Writers => content[i] = <<>>
       /\ \A n \in DOMAIN content[i] : content[i][n].key = keyFile

StoreInv ==
  /\ Basics
  /\ ~overlapped => AloneInv
  /\ encrypted /\ ~keyRaced => OneKeyInv

-----------------------------------------------------------------------------
\* There are no more inodes in use by all writers than writers; nor by readers.
LEMMA ImageBound ==
  ASSUME NEW S, IsFiniteSet(S), NEW f
  PROVE  /\ IsFiniteSet({f[x] : x \in S})
         /\ Cardinality({f[x] : x \in S}) \in 0..Cardinality(S)
<1> DEFINE T == {f[x] : x \in S}
           g == [x \in S |-> f[x]]
<1>1. g \in Surjection(S, T)
  BY DEF Surjection
<1> HIDE DEF g, T
<1>2. IsFiniteSet(T) /\ Cardinality(T) <= Cardinality(S)
  BY <1>1, FS_Surjection
<1>3. Cardinality(T) \in Nat /\ Cardinality(S) \in Nat
  BY <1>2, FS_CardinalityType
<1> QED
  BY <1>2, <1>3 DEF T

\* The union of two finite sets has no more elements than the two together.
LEMMA UnionBound ==
  ASSUME NEW S, IsFiniteSet(S), NEW T, IsFiniteSet(T)
  PROVE  /\ IsFiniteSet(S \cup T)
         /\ Cardinality(S \cup T) \in 0..(Cardinality(S) + Cardinality(T))
<1>1. IsFiniteSet(S \cap T) /\ IsFiniteSet(S \cup T)
  BY FS_Subset, FS_Union
<1>2. {Cardinality(S), Cardinality(T), Cardinality(S \cap T),
       Cardinality(S \cup T)} \subseteq Nat
  BY <1>1, FS_CardinalityType
<1>3. Cardinality(S \cup T) = Cardinality(S) + Cardinality(T) - Cardinality(S \cap T)
  BY FS_Union
<1> QED
  BY <1>1, <1>2, <1>3

\* When the temporary name refers to nothing, an inode is free for it.
LEMMA TargetFacts ==
  ASSUME TypeOK
  PROVE  /\ Target(temp) \in Inodes
         /\ Target(temp) = temp \/ (temp = None /\ Target(temp) \notin Used)
<1>1. CASE temp # None
  BY <1>1 DEF Target, TypeOK
<1>2. CASE temp = None
  <2> DEFINE I == [w \in Writers |-> writer[w].inode]
             W == {I[w] : w \in Writers}
             R == {reading[r] : r \in Readers}
             P == {path}
  <2>1. IsFiniteSet(W) /\ Cardinality(W) \in 0..Cardinality(Writers)
    BY StoreConstants, ImageBound
  <2>2. IsFiniteSet(R) /\ Cardinality(R) \in 0..Cardinality(Readers)
    BY StoreConstants, ImageBound
  <2>3. IsFiniteSet(P) /\ Cardinality(P) = 1
    BY FS_Singleton
  <2>4. Used \ {None} \subseteq (P \cup W) \cup R
    BY <1>2 DEF Used
  <2> HIDE DEF W, R, P
  <2>5. IsFiniteSet(P \cup W) /\ Cardinality(P \cup W) \in 0..(1 + Cardinality(W))
    BY <2>1, <2>3, UnionBound
  <2>6. /\ IsFiniteSet((P \cup W) \cup R)
        /\ Cardinality((P \cup W) \cup R) \in 0..(Cardinality(P \cup W) + Cardinality(R))
    BY <2>2, <2>5, UnionBound
  <2>7. /\ Cardinality(Writers) \in Nat /\ Cardinality(Readers) \in Nat
        /\ Cardinality(Inodes) \in Nat
    BY StoreConstants, FS_CardinalityType
  <2>8. Cardinality((P \cup W) \cup R) < Cardinality(Inodes)
    BY <2>1, <2>2, <2>5, <2>6, <2>7, StoreConstants
  <2>9. ~(Inodes \subseteq (P \cup W) \cup R)
    <3> SUFFICES ASSUME Inodes \subseteq (P \cup W) \cup R
                 PROVE  FALSE
      OBVIOUS
    <3>1. Cardinality(Inodes) <= Cardinality((P \cup W) \cup R)
      BY <2>6, FS_Subset
    <3>2. Cardinality((P \cup W) \cup R) \in Nat
      BY <2>6, FS_CardinalityType
    <3> QED
      BY <2>7, <2>8, <3>1, <3>2
  <2>10. PICK i \in Inodes : i \notin (P \cup W) \cup R
    BY <2>9
  <2>11. i \notin Used
    BY <2>4, <2>10, StoreConstants
  <2> QED
    BY <1>2, <2>11 DEF Target
<1> QED
  BY <1>1, <1>2

\* Reclaiming empties inodes, none that is in use.
LEMMA ReclaimFacts ==
  ASSUME TypeOK, Reclaim
  PROVE  /\ content' \in [Inodes -> Seq(Documents)]
         /\ \A i \in Inodes : i \in Used' => content'[i] = content[i]
         /\ \A i \in Inodes : content'[i] \in {content[i], <<>>}
BY DEF Reclaim, TypeOK

\* Writing over an empty file gives the document; what is not overwritten stays.
LEMMA OverwriteFacts ==
  ASSUME NEW blocks \in Seq(Documents), NEW d \in Documents
  PROVE  /\ Overwrite(blocks, d) \in Seq(Documents)
         /\ blocks = <<>> => Overwrite(blocks, d) = Blocks(d)
         /\ \A n \in DOMAIN Overwrite(blocks, d) :
              \/ Overwrite(blocks, d)[n] = d
              \/ n \in DOMAIN blocks /\ Overwrite(blocks, d)[n] = blocks[n]
<1> DEFINE L == Larger(Len(blocks), Size[d.value])
<1>1. Size[d.value] \in Nat \ {0} /\ Len(blocks) \in Nat /\ DOMAIN blocks = 1..Len(blocks)
  BY StoreConstants DEF Documents
<1>2. L \in Nat /\ (L = Len(blocks) \/ L = Size[d.value]) /\ L >= Size[d.value]
  BY <1>1 DEF Larger
<1> HIDE DEF L
<1>3. Overwrite(blocks, d) = [i \in 1..L |-> IF i <= Size[d.value] THEN d ELSE blocks[i]]
  BY DEF Overwrite, L
<1>4. \A i \in 1..L : i <= Size[d.value] \/ i \in 1..Len(blocks)
  <2>1. ASSUME NEW i \in 1..L, L = Len(blocks)
        PROVE  i \in 1..Len(blocks)
    BY <2>1
  <2>2. ASSUME NEW i \in 1..L, L = Size[d.value]
        PROVE  i <= Size[d.value]
    BY <1>1, <2>2
  <2> QED
    BY <1>2, <2>1, <2>2
<1>5. \A i \in 1..L : (IF i <= Size[d.value] THEN d ELSE blocks[i]) \in Documents
  BY <1>1, <1>4
<1>6. Overwrite(blocks, d) \in Seq(Documents)
  BY <1>2, <1>3, <1>5
<1>7. ASSUME blocks = <<>>
      PROVE  Overwrite(blocks, d) = Blocks(d)
  <2>1. L = Size[d.value]
    BY <1>1, <1>7 DEF L, Larger
  <2>2. \A i \in 1..L : i <= Size[d.value]
    BY <1>1, <2>1
  <2> QED
    BY <1>3, <2>1, <2>2 DEF Blocks
<1>8. \A n \in DOMAIN Overwrite(blocks, d) :
        \/ Overwrite(blocks, d)[n] = d
        \/ n \in DOMAIN blocks /\ Overwrite(blocks, d)[n] = blocks[n]
  BY <1>1, <1>3, <1>4
<1> QED
  BY <1>6, <1>7, <1>8

-----------------------------------------------------------------------------
WriterRecord == [at : Steps, value : Values \cup {None}, key : Keys,
                 inode : Inodes \cup {None}]

\* A writer holds an inode and a key only while it uses them.
Fits(x) ==
  /\ x.inode # None <=> x.at \in {"fill", "rename"}
  /\ x.key # None => encrypted
  /\ encrypted /\ x.at \in {"open", "fill", "rename"} => x.key # None

WritersOK == writer \in [Writers -> WriterRecord] /\ \A w \in Writers : Fits(writer[w])

\* The fields of what a writer works on.
LEMMA WriterFields ==
  ASSUME TypeOK, NEW w \in Writers
  PROVE  /\ WritersOK /\ writer[w] \in WriterRecord /\ Fits(writer[w])
         /\ writer[w].at \in Steps /\ writer[w].value \in Values \cup {None}
         /\ writer[w].key \in Keys /\ writer[w].inode \in Inodes \cup {None}
BY DEF TypeOK, WritersOK, WriterRecord, Fits

\* What each step makes of its writer; it leaves the other writers alone.
LEMMA WriterStepFacts ==
  ASSUME TypeOK, NEW w \in Writers
  PROVE  /\ \A step \in Steps : Goto(w, step) =>
              writer' = [writer EXCEPT ![w] = [writer[w] EXCEPT !.at = step]]
         /\ Idle \in WriterRecord /\ Fits(Idle)
         /\ Told \in WriterRecord /\ Fits(Told)
         /\ \A x \in WriterRecord :
              Fits(x) /\ writer' = [writer EXCEPT ![w] = x] /\ encrypted' = encrypted
                => WritersOK'
<1>1. Idle \in WriterRecord /\ Fits(Idle)
  BY DEF Idle, WriterRecord, Fits, Steps, Keys
<1>3. Told \in WriterRecord /\ Fits(Told)
  BY DEF Told, Idle, WriterRecord, Fits, Steps, Keys
<1>2. \A x \in WriterRecord :
        Fits(x) /\ writer' = [writer EXCEPT ![w] = x] /\ encrypted' = encrypted
          => WritersOK'
  BY WriterFields DEF WritersOK, Fits
<1> QED
  BY <1>1, <1>2, <1>3 DEF Goto, TypeOK

\* The variables start with their types.
LEMMA TypeInit == Init => TypeOK
<1> SUFFICES ASSUME Init
             PROVE  TypeOK
  OBVIOUS
<1>1. <<>> \in Seq(Documents)
  OBVIOUS
<1>2. content \in [Inodes -> Seq(Documents)]
  BY <1>1 DEF Init
<1> QED
  BY <1>2 DEF Init, TypeOK, Idle, Steps, Keys

\* Every step keeps the types.
LEMMA TypeStep == TypeOK /\ Basics /\ [Next]_vars => TypeOK'
<1> SUFFICES ASSUME TypeOK, Basics, [Next]_vars
             PROVE  TypeOK'
  OBVIOUS
<1> USE DEF names, history
<1>0. WritersOK' /\ content' \in [Inodes -> Seq(Documents)]
      /\ path' \in Inodes \cup {None} /\ temp' \in Inodes \cup {None}
      /\ keyFile' \in Keys \cup {Empty} /\ reading' \in [Readers -> Inodes \cup {None}]
      /\ encrypted' \in BOOLEAN /\ overlapped' \in BOOLEAN /\ keyRaced' \in BOOLEAN
        => TypeOK'
  BY DEF TypeOK, WritersOK, WriterRecord, Fits
<1>1. ASSUME NEW w \in Writers, NEW v \in Values, BeginWrite(w, v)
      PROVE  TypeOK'
  <2> DEFINE x == [Idle EXCEPT !.at = IF encrypted THEN "read_key" ELSE "open", !.value = v]
  <2>1. x \in WriterRecord /\ Fits(x)
    BY DEF Idle, WriterRecord, Fits, Steps, Keys
  <2>2. WritersOK'
    BY <1>1, <2>1, WriterStepFacts DEF BeginWrite
  <2> QED
    BY <1>0, <1>1, <2>2 DEF BeginWrite, TypeOK
<1>2. ASSUME NEW w \in Writers, ReadKey(w)
      PROVE  TypeOK'
  <2>1. /\ UNCHANGED <<encrypted, content, names, keyFile, reading, overlapped>>
        /\ keyRaced' \in BOOLEAN
    BY <1>2 DEF ReadKey, TypeOK
  <2>2. \E x \in WriterRecord : Fits(x) /\ writer' = [writer EXCEPT ![w] = x]
    <3>1. CASE Return(w)
      BY <3>1, WriterStepFacts DEF Return
    <3>2. CASE Goto(w, "open_key")
      <4> DEFINE x == [writer[w] EXCEPT !.at = "open_key"]
      <4>1. x \in WriterRecord /\ Fits(x)
        BY <1>2, WriterFields DEF WriterRecord, Fits, Steps, ReadKey, At
      <4> QED
        BY <3>2, <4>1, WriterStepFacts DEF Goto, TypeOK
    <3>3. CASE /\ keyFile \in Writers
               /\ writer' = [writer EXCEPT ![w].at = "open", ![w].key = keyFile]
      <4> DEFINE x == [writer[w] EXCEPT !.at = "open", !.key = keyFile]
      <4>1. encrypted
        BY <1>2 DEF ReadKey, At, Basics
      <4>2. x \in WriterRecord /\ Fits(x)
        BY <1>2, <3>3, <4>1, WriterFields, StoreConstants DEF WriterRecord, Fits, Steps, Keys, ReadKey, At
      <4> QED
        BY <3>3, <4>2 DEF TypeOK
    <3> QED
      BY <1>2, <3>1, <3>2, <3>3 DEF ReadKey
  <2> QED
    BY <1>0, <2>1, <2>2, WriterStepFacts DEF TypeOK
<1>3. ASSUME NEW w \in Writers, OpenKey(w)
      PROVE  TypeOK'
  <2> DEFINE x == [writer[w] EXCEPT !.at = "fill_key"]
  <2>1. x \in WriterRecord /\ Fits(x)
    BY <1>3, WriterFields DEF WriterRecord, Fits, Steps, OpenKey, At
  <2>2. WritersOK'
    BY <1>3, <2>1, WriterStepFacts DEF OpenKey, Goto, TypeOK
  <2> QED
    BY <1>0, <1>3, <2>2 DEF OpenKey, TypeOK
<1>4. ASSUME NEW w \in Writers, FillKey(w)
      PROVE  TypeOK'
  <2> DEFINE x == [writer[w] EXCEPT !.at = "open", !.key = w]
  <2>1. x \in WriterRecord /\ Fits(x)
    <3>1. encrypted /\ writer[w].inode = None /\ w # None
      BY <1>4, WriterFields, StoreConstants DEF FillKey, At, Basics, Fits
    <3>2. writer[w] \in WriterRecord
      BY WriterFields
    <3>3. x \in WriterRecord /\ x.at = "open" /\ x.key = w /\ x.inode = None
      BY <3>1, <3>2 DEF WriterRecord, Steps, Keys
    <3> QED
      BY <3>1, <3>3 DEF Fits
  <2>2. WritersOK'
    <3>1. writer' = [writer EXCEPT ![w] = x] /\ encrypted' = encrypted
      BY <1>4 DEF FillKey, TypeOK
    <3> HIDE DEF x
    <3> QED
      BY <2>1, <3>1, WriterStepFacts
  <2> QED
    BY <1>0, <1>4, <2>2 DEF FillKey, Keys, TypeOK
<1>5. ASSUME NEW w \in Writers, Open(w)
      PROVE  TypeOK'
  <2> PICK i : i = Target(temp)
    OBVIOUS
  <2>0. i \in Inodes /\ i # None
    BY TargetFacts, StoreConstants
  <2> DEFINE x == [writer[w] EXCEPT !.at = "fill", !.inode = i]
  <2>1. x \in WriterRecord /\ Fits(x)
    BY <1>5, <2>0, WriterFields DEF WriterRecord, Fits, Steps, Open, At
  <2>2. WritersOK'
    <3>1. writer' = [writer EXCEPT ![w] = x] /\ encrypted' = encrypted
      BY <1>5 DEF Open, TypeOK
    <3> HIDE DEF x
    <3> QED
      BY <2>1, <3>1, WriterStepFacts
  <2>3. <<>> \in Seq(Documents)
    OBVIOUS
  <2> QED
    BY <1>0, <1>5, <2>0, <2>2, <2>3 DEF Open, NoteOverlap, TypeOK
<1>6. ASSUME NEW w \in Writers, Fill(w)
      PROVE  TypeOK'
  <2>0. At(w, "fill") /\ writer[w].inode \in Inodes
    BY <1>6, WriterFields DEF Fill, At, Fits
  <2>1. Document(w) \in Documents
    BY <2>0, WriterFields DEF Document, Documents, Basics, At
  <2>2. content' \in [Inodes -> Seq(Documents)]
    BY <1>6, <2>0, <2>1, OverwriteFacts DEF Fill, TypeOK
  <2> DEFINE x == [writer[w] EXCEPT !.at = "rename"]
  <2>3. x \in WriterRecord /\ Fits(x)
    BY <2>0, WriterFields DEF WriterRecord, Fits, Steps, At
  <2>4. WritersOK'
    BY <1>6, <2>3, WriterStepFacts DEF Fill, Goto, TypeOK
  <2> QED
    BY <1>0, <1>6, <2>2, <2>4 DEF Fill, TypeOK
<1>7. ASSUME NEW w \in Writers, Rename(w)
      PROVE  TypeOK'
  <2>1. content' \in [Inodes -> Seq(Documents)]
    BY <1>7, ReclaimFacts DEF Rename
  <2> DEFINE x == [writer[w] EXCEPT !.at = "set_mode", !.inode = None]
  <2>2. x \in WriterRecord /\ Fits(x)
    BY <1>7, WriterFields DEF WriterRecord, Fits, Steps, Rename, At
  <2>3. WritersOK'
    <3>1. CASE Return(w)
      BY <1>7, <3>1, WriterStepFacts DEF Return, Rename
    <3>2. CASE ~Return(w)
      <4>1. writer' = [writer EXCEPT ![w] = x] /\ encrypted' = encrypted
        BY <1>7, <3>2 DEF Rename, TypeOK
      <4> HIDE DEF x
      <4> QED
        BY <2>2, <4>1, WriterStepFacts
    <3> QED
      BY <3>1, <3>2
  <2> QED
    BY <1>0, <1>7, <2>1, <2>3 DEF Rename, TypeOK
<1>8. ASSUME NEW w \in Writers, SetMode(w) \/ Die(w)
      PROVE  TypeOK'
  <2>1. content' \in [Inodes -> Seq(Documents)]
    BY <1>8, ReclaimFacts DEF SetMode, Die, TypeOK
  <2>2. WritersOK'
    BY <1>8, WriterStepFacts DEF SetMode, Die, Return
  <2> QED
    BY <1>0, <1>8, <2>1, <2>2 DEF SetMode, Die, TypeOK
<1>9. ASSUME NEW r \in Readers, OpenFile(r) \/ CloseFile(r)
      PROVE  TypeOK'
  <2>1. content' \in [Inodes -> Seq(Documents)]
    BY <1>9, ReclaimFacts DEF OpenFile, CloseFile, TypeOK
  <2>2. writer' = writer /\ encrypted' = encrypted
    BY <1>9 DEF OpenFile, CloseFile
  <2>3. WritersOK'
    BY <2>2 DEF TypeOK, WritersOK, WriterRecord, Fits
  <2> QED
    BY <1>0, <1>9, <2>1, <2>3 DEF OpenFile, CloseFile, TypeOK
<1>10. CASE ClearSession
  <2>1. content' \in [Inodes -> Seq(Documents)]
    BY <1>10, ReclaimFacts DEF ClearSession
  <2>2. WritersOK'
    BY <1>10 DEF ClearSession, TypeOK, WritersOK, WriterRecord, Fits
  <2> QED
    BY <1>0, <1>10, <2>1, <2>2 DEF ClearSession, TypeOK
<1>11. CASE UNCHANGED vars
  BY <1>11 DEF vars, TypeOK
<1> QED
  BY <1>1, <1>2, <1>3, <1>4, <1>5, <1>6, <1>7, <1>8, <1>9, <1>10, <1>11
  DEF Next, WriterStep

-----------------------------------------------------------------------------
\* The steps of a writer, as the invariants see them.
LEMMA OpenFacts ==
  ASSUME TypeOK, Basics, NEW w \in Writers, Open(w)
  PROVE  /\ At(w, "open") /\ temp' \in Inodes /\ temp' # None /\ temp' \notin Visible
         /\ content' = [content EXCEPT ![temp'] = <<>>]
         /\ \A u \in Writers \ {w} : writer'[u] = writer[u]
         /\ writer'[w].at = "fill" /\ writer'[w].inode = temp'
         /\ writer'[w].value = writer[w].value /\ writer'[w].key = writer[w].key
         /\ UNCHANGED <<encrypted, path, keyFile, reading, keyRaced>>
         /\ Visible' = Visible
<1> PICK i : i = Target(temp)
  OBVIOUS
<1>1. /\ temp' = i /\ i \in Inodes /\ i # None /\ content' = [content EXCEPT ![i] = <<>>]
      /\ writer' = [writer EXCEPT ![w].at = "fill", ![w].inode = i]
      /\ UNCHANGED <<encrypted, path, keyFile, reading, keyRaced>>
  BY TargetFacts, StoreConstants DEF Open
<1>2. i \notin Visible
  BY TargetFacts, StoreConstants DEF Basics, Visible, Used
<1>3. Visible' = Visible
  BY <1>1 DEF Visible
<1>4. /\ \A u \in Writers \ {w} : writer'[u] = writer[u]
      /\ writer'[w] = [writer[w] EXCEPT !.at = "fill", !.inode = i]
  BY <1>1 DEF TypeOK
<1>5. /\ writer'[w].at = "fill" /\ writer'[w].inode = i
      /\ writer'[w].value = writer[w].value /\ writer'[w].key = writer[w].key
  BY <1>4, WriterFields DEF WriterRecord
<1> QED
  BY <1>1, <1>2, <1>3, <1>4, <1>5 DEF Open

\* No overlap is noted only when nobody else is filling the temporary file.
LEMMA OpensAlone ==
  ASSUME NEW w \in Writers, Open(w), ~overlapped'
  PROVE  ~overlapped /\ \A u \in Writers : ~Filling(u)
BY DEF Open, NoteOverlap

\* What filling the temporary file changes.
LEMMA FillFacts ==
  ASSUME TypeOK, Basics, NEW w \in Writers, Fill(w)
  PROVE  /\ At(w, "fill") /\ Filling(w) /\ writer[w].inode \in Inodes
         /\ Document(w) \in Documents
         /\ content' = [content EXCEPT ![writer[w].inode] = Overwrite(@, Document(w))]
         /\ \A u \in Writers \ {w} : writer'[u] = writer[u]
         /\ writer'[w].at = "rename" /\ writer'[w].inode = writer[w].inode
         /\ writer'[w].value = writer[w].value /\ writer'[w].key = writer[w].key
         /\ Document(w)' = Document(w)
         /\ UNCHANGED <<encrypted, path, temp, keyFile, reading, history>>
<1>1. At(w, "fill") /\ writer[w].inode # None /\ writer[w].inode \in Inodes
  BY WriterFields DEF Fill, At, Fits
<1>2. Document(w) \in Documents
  BY <1>1, WriterFields DEF Document, Documents, Basics, At
<1>3. /\ writer'[w] = [writer[w] EXCEPT !.at = "rename"]
      /\ \A u \in Writers \ {w} : writer'[u] = writer[u]
  BY DEF Fill, Goto, TypeOK
<1>4. /\ writer'[w].value = writer[w].value /\ writer'[w].key = writer[w].key
      /\ writer'[w].at = "rename" /\ writer'[w].inode = writer[w].inode
  BY <1>3, WriterFields DEF WriterRecord
<1> QED
  BY <1>1, <1>2, <1>3, <1>4 DEF Fill, Goto, Document, Filling, names

\* What a rename changes, and what it does when the name is gone.
LEMMA RenameFacts ==
  ASSUME TypeOK, Basics, NEW w \in Writers, Rename(w)
  PROVE  /\ At(w, "rename") /\ Filling(w) /\ Reclaim
         /\ UNCHANGED <<encrypted, keyFile, reading, history>>
         /\ \/ /\ temp = None /\ path' = path /\ temp' = temp
               /\ writer'[w] = Idle
            \/ /\ temp # None /\ path' = temp /\ temp' = None
               /\ writer'[w].at = "set_mode" /\ writer'[w].inode = None
               /\ writer'[w].value = writer[w].value /\ writer'[w].key = writer[w].key
         /\ \A u \in Writers \ {w} : writer'[u] = writer[u]
<1>1. At(w, "rename") /\ Filling(w)
  BY WriterFields DEF Rename, At, Fits, Filling
<1>2. CASE temp = None
  BY <1>1, <1>2 DEF Rename, Return, names, TypeOK
<1>3. CASE temp # None
  <2>1. /\ writer'[w] = [writer[w] EXCEPT !.at = "set_mode", !.inode = None]
        /\ \A u \in Writers \ {w} : writer'[u] = writer[u]
    BY <1>3 DEF Rename, TypeOK
  <2>2. /\ writer'[w].at = "set_mode" /\ writer'[w].inode = None
        /\ writer'[w].value = writer[w].value /\ writer'[w].key = writer[w].key
    BY <2>1, WriterFields DEF WriterRecord
  <2> QED
    BY <1>1, <1>3, <2>1, <2>2 DEF Rename
<1> QED
  BY <1>2, <1>3

\* The steps that read or write the key touch no file content.
LEMMA KeyStepFacts ==
  ASSUME TypeOK, Basics, NEW w \in Writers, ReadKey(w) \/ OpenKey(w) \/ FillKey(w)
  PROVE  /\ encrypted /\ UNCHANGED <<encrypted, content, path, temp, reading, overlapped>>
         /\ ~Filling(w) /\ writer'[w].inode = None
         /\ writer'[w].at \in {"idle", "open_key", "fill_key", "open"}
         /\ writer'[w].at # "idle" => writer'[w].value = writer[w].value
         /\ \A u \in Writers \ {w} : writer'[u] = writer[u]
<1>1. writer[w].at \in {"read_key", "open_key", "fill_key"}
  BY DEF ReadKey, OpenKey, FillKey, At
<1>2. encrypted /\ ~Filling(w) /\ writer[w] \in WriterRecord
  BY <1>1, WriterFields DEF Basics, Fits, Filling
<1>3. CASE ReadKey(w)
  BY <1>2, <1>3 DEF ReadKey, Goto, Return, Idle, TypeOK, WriterRecord, Filling, names
<1>4. CASE OpenKey(w)
  BY <1>2, <1>4 DEF OpenKey, Goto, TypeOK, WriterRecord, Filling, names, history
<1>5. CASE FillKey(w)
  BY <1>2, <1>5 DEF FillKey, TypeOK, WriterRecord, Filling, names, history
<1> QED
  BY <1>2, <1>3, <1>4, <1>5

\* A step that ends a writer or not, and writes nothing.
LEMMA ReturnFacts ==
  ASSUME TypeOK, NEW w \in Writers, SetMode(w) \/ Die(w)
  PROVE  /\ writer'[w] = Idle \/ (SetMode(w) /\ writer'[w] = Told)
         /\ writer'[w].inode = None /\ writer'[w].at \in {"idle", "returned"}
         /\ \A u \in Writers \ {w} : writer'[u] = writer[u]
         /\ Reclaim \/ content' = content
         /\ UNCHANGED <<encrypted, path, temp, keyFile, reading, history>>
<1>1. writer'[w] = Idle \/ (SetMode(w) /\ writer'[w] = Told)
  BY DEF SetMode, Die, Return, TypeOK
<1>2. /\ Idle.inode = None /\ Idle.at = "idle"
      /\ Told.inode = None /\ Told.at = "returned"
  BY DEF Idle, Told
<1>3. \A u \in Writers \ {w} : writer'[u] = writer[u]
  BY DEF SetMode, Die, Return, TypeOK
<1> QED
  BY <1>1, <1>2, <1>3 DEF SetMode, Die, names

\* Inodes that are read, or that the temporary name refers to, are in use.
LEMMA InUse ==
  /\ Visible \subseteq Used /\ temp \in Used
  /\ \A w \in Writers : writer[w].inode \in Used
  /\ Visible' \subseteq Used' /\ temp' \in Used'
  /\ \A w \in Writers : writer'[w].inode \in Used'
BY DEF Visible, Used

\* Whose writer a step changes.
LEMMA BeginFacts ==
  ASSUME TypeOK, NEW w \in Writers, NEW v \in Values, BeginWrite(w, v)
  PROVE  /\ At(w, "idle") \/ At(w, "returned")
         /\ writer'[w].inode = None /\ writer'[w].value = v
         /\ writer'[w].at = IF encrypted THEN "read_key" ELSE "open"
         /\ writer'[w].key = None
         /\ \A u \in Writers \ {w} : writer'[u] = writer[u]
         /\ UNCHANGED <<encrypted, content, path, temp, keyFile, reading, history>>
BY DEF BeginWrite, Idle, names, TypeOK

\* Readers and ClearSession make no inode visible.
LEMMA ReaderFacts ==
  ASSUME TypeOK
  PROVE  /\ \A r \in Readers : OpenFile(r) =>
              /\ Visible' = Visible
              /\ UNCHANGED <<encrypted, content, path, temp, keyFile, writer, history>>
         /\ \A r \in Readers : CloseFile(r) =>
              /\ Visible' \subseteq Visible /\ Reclaim
              /\ UNCHANGED <<encrypted, path, temp, keyFile, writer, history>>
         /\ ClearSession =>
              /\ Visible' \subseteq Visible /\ Reclaim /\ ~encrypted
              /\ UNCHANGED <<encrypted, temp, keyFile, writer, history>>
<1>1. ASSUME NEW r \in Readers, OpenFile(r)
      PROVE  Visible' = Visible
  <2>1. path' = path /\ \A q \in Readers : reading'[q] = IF q = r THEN path ELSE reading[q]
    BY <1>1 DEF OpenFile, names, TypeOK
  <2>2. reading[r] = None
    BY <1>1 DEF OpenFile
  <2> QED
    BY <2>1, <2>2 DEF Visible
<1>2. ASSUME NEW r \in Readers, CloseFile(r)
      PROVE  Visible' \subseteq Visible
  <2>1. path' = path /\ \A q \in Readers : reading'[q] \in {reading[q], None}
    BY <1>2 DEF CloseFile, names, TypeOK
  <2> QED
    BY <2>1 DEF Visible
<1>3. ClearSession => Visible' \subseteq Visible
  BY DEF ClearSession, Visible
<1> QED
  BY <1>1, <1>2, <1>3 DEF OpenFile, CloseFile, ClearSession, names

\* Every step keeps the basic facts of names and writers.
LEMMA BasicsStep == TypeOK /\ Basics /\ [Next]_vars => Basics'
<1> SUFFICES ASSUME TypeOK, Basics, [Next]_vars
             PROVE  Basics'
  OBVIOUS
<1>0. ASSUME NEW w \in Writers, encrypted' = encrypted,
             \A u \in Writers \ {w} : writer'[u] = writer[u],
             ~At(w, "idle")' /\ ~At(w, "returned")' => writer'[w].value \in Values,
             writer'[w].at \in {"read_key", "open_key", "fill_key"} => encrypted,
             temp' # None => temp' \notin Visible'
      PROVE  Basics'
  BY <1>0 DEF Basics, At
<1>1. ASSUME NEW w \in Writers, NEW v \in Values, BeginWrite(w, v)
      PROVE  Basics'
  <2>1. temp' # None => temp' \notin Visible'
    BY <1>1, BeginFacts DEF Basics, Visible
  <2> QED
    BY <1>0, <1>1, <2>1, BeginFacts
<1>2. ASSUME NEW w \in Writers, ReadKey(w) \/ OpenKey(w) \/ FillKey(w)
      PROVE  Basics'
  <2>1. temp' # None => temp' \notin Visible'
    BY <1>2, KeyStepFacts DEF Basics, Visible
  <2>2. writer[w].value \in Values
    BY <1>2 DEF ReadKey, OpenKey, FillKey, At, Basics
  <2> QED
    BY <1>0, <1>2, <2>1, <2>2, KeyStepFacts DEF At
<1>3. ASSUME NEW w \in Writers, Open(w)
      PROVE  Basics'
  <2>1. writer[w].value \in Values
    BY <1>3, OpenFacts DEF At, Basics
  <2> QED
    BY <1>0, <1>3, <2>1, OpenFacts
<1>4. ASSUME NEW w \in Writers, Fill(w)
      PROVE  Basics'
  <2>1. writer[w].value \in Values
    BY <1>4, FillFacts DEF At, Basics
  <2>2. temp' # None => temp' \notin Visible'
    BY <1>4, FillFacts DEF Basics, Visible
  <2> QED
    BY <1>0, <1>4, <2>1, <2>2, FillFacts
<1>5. ASSUME NEW w \in Writers, Rename(w)
      PROVE  Basics'
  <2>1. writer[w].value \in Values
    BY <1>5, RenameFacts DEF At, Basics
  <2>2. writer'[w].at = "idle" \/ (writer'[w].at = "set_mode" /\ writer'[w].value \in Values)
    <3>1. Idle.at = "idle"
      BY DEF Idle
    <3> QED
      BY <1>5, <2>1, <3>1, RenameFacts
  <2>3. temp' # None => temp' \notin Visible'
    BY <1>5, RenameFacts DEF Basics, Visible
  <2> QED
    BY <1>0, <1>5, <2>2, <2>3, RenameFacts DEF At
<1>6. ASSUME NEW w \in Writers, SetMode(w) \/ Die(w)
      PROVE  Basics'
  <2>1. temp' # None => temp' \notin Visible'
    BY <1>6, ReturnFacts DEF Basics, Visible
  <2>2. writer'[w].at \in {"idle", "returned"}
    BY <1>6, ReturnFacts
  <2> QED
    BY <1>0, <1>6, <2>1, <2>2, ReturnFacts DEF At
<1>7. ASSUME \/ \E r \in Readers : OpenFile(r) \/ CloseFile(r)
             \/ ClearSession
      PROVE  Basics'
  BY <1>7, ReaderFacts DEF Basics, At
<1>8. CASE UNCHANGED vars
  BY <1>8 DEF vars, names, Basics, Visible, At
<1> QED
  BY <1>1, <1>2, <1>3, <1>4, <1>5, <1>6, <1>7, <1>8 DEF Next, WriterStep

\* What is visible is an inode, before and after a step.
LEMMA VisibleInodes ==
  /\ TypeOK => Visible \subseteq Inodes
  /\ TypeOK' => Visible' \subseteq Inodes
BY DEF Visible, TypeOK

-----------------------------------------------------------------------------
\* Steps that leave what is written alone, but for inodes out of use.
LEMMA AloneKept ==
  ASSUME TypeOK, TypeOK', AloneInv, NEW w \in Writers,
         \A u \in Writers \ {w} : writer'[u] = writer[u],
         writer'[w] = writer[w] \/ writer'[w].inode = None,
         temp' = temp, Visible' \subseteq Visible,
         \A i \in Inodes : i \in Used' => content'[i] = content[i]
  PROVE  AloneInv'
<1>1. ASSUME NEW u \in Writers, Filling(u)'
      PROVE  /\ writer'[u] = writer[u] /\ Filling(u) /\ temp = writer[u].inode
             /\ content'[temp] = content[temp]
  <2>1. writer'[u] = writer[u] /\ Filling(u)
    BY <1>1 DEF Filling
  <2>2. temp = writer[u].inode /\ temp \in Inodes
    BY <2>1, WriterFields DEF AloneInv, Filling
  <2> QED
    BY <2>1, <2>2, InUse
<1>2. ASSUME NEW u \in Writers
      PROVE  At(u, "fill")' \/ At(u, "rename")' => Filling(u)'
  BY DEF TypeOK, At, Filling
<1>3. \A i \in Visible' : i \in Visible /\ i \in Inodes /\ content'[i] = content[i]
  BY InUse, VisibleInodes
<1>4. \A u, v \in Writers : Filling(u)' /\ Filling(v)' => u = v
  BY <1>1 DEF AloneInv
<1>5. ASSUME NEW u \in Writers
      PROVE  /\ Filling(u)' => temp' = writer'[u].inode
             /\ At(u, "fill")' => content'[temp'] = <<>>
             /\ At(u, "rename")' => content'[temp'] = Blocks(Document(u)')
  BY <1>1, <1>2 DEF AloneInv, At, Document
<1>6. \A i \in Visible' : Whole(content'[i])
  BY <1>3 DEF AloneInv
<1> QED
  BY <1>4, <1>5, <1>6 DEF AloneInv

\* A writer that is alone with the temporary file stays so, or is noticed.
LEMMA AloneStep ==
  ASSUME TypeOK, TypeOK', Basics, ~overlapped => AloneInv, [Next]_vars, ~overlapped'
  PROVE  AloneInv'
<1>0. AloneInv
  BY DEF Next, WriterStep, BeginWrite, ReadKey, OpenKey, FillKey, Open, NoteOverlap,
     Fill, Rename, SetMode, Die, OpenFile, CloseFile, ClearSession, vars, history
<1>1. ASSUME NEW w \in Writers, NEW v \in Values, BeginWrite(w, v)
      PROVE  AloneInv'
  <2>1. Visible' \subseteq Visible
    BY <1>1, BeginFacts DEF Visible
  <2> QED
    BY <1>0, <1>1, <2>1, BeginFacts, AloneKept
<1>2. ASSUME NEW w \in Writers, ReadKey(w) \/ OpenKey(w) \/ FillKey(w)
      PROVE  AloneInv'
  <2>1. Visible' \subseteq Visible
    BY <1>2, KeyStepFacts DEF Visible
  <2> QED
    BY <1>0, <1>2, <2>1, KeyStepFacts, AloneKept
<1>3. ASSUME NEW w \in Writers, Open(w)
      PROVE  AloneInv'
  <2>1. \A u \in Writers \ {w} : writer'[u].inode = None /\ ~At(u, "fill")' /\ ~At(u, "rename")'
    <3> SUFFICES ASSUME NEW u \in Writers \ {w}
                 PROVE  writer'[u].inode = None /\ ~At(u, "fill")' /\ ~At(u, "rename")'
      OBVIOUS
    <3>1. writer'[u] = writer[u] /\ writer[u].inode = None
      BY <1>3, OpenFacts, OpensAlone DEF Filling
    <3> QED
      BY <3>1, WriterFields DEF Fits, At
  <2>2. \A i \in Visible' : i \in Inodes /\ i # temp'
    BY <1>3, OpenFacts DEF Visible, TypeOK
  <2>3. content'[temp'] = <<>> /\ \A i \in Visible' : content'[i] = content[i]
    BY <1>3, <2>2, OpenFacts DEF TypeOK
  <2>4. \A i \in Visible' : Whole(content'[i])
    BY <1>0, <1>3, <2>3, OpenFacts DEF AloneInv
  <2>5. writer'[w].inode = temp' /\ ~At(w, "rename")'
    BY <1>3, OpenFacts DEF At
  <2> QED
    BY <2>1, <2>3, <2>4, <2>5 DEF AloneInv, Filling
<1>4. ASSUME NEW w \in Writers, Fill(w)
      PROVE  AloneInv'
  <2>1. /\ temp = writer[w].inode /\ content[temp] = <<>>
        /\ \A u \in Writers \ {w} : ~Filling(u)
    BY <1>0, <1>4, FillFacts DEF AloneInv
  <2>2. \A u \in Writers \ {w} : writer'[u].inode = None /\ ~At(u, "fill")' /\ ~At(u, "rename")'
    <3> SUFFICES ASSUME NEW u \in Writers \ {w}
                 PROVE  writer'[u].inode = None /\ ~At(u, "fill")' /\ ~At(u, "rename")'
      OBVIOUS
    <3>1. writer'[u] = writer[u] /\ writer[u].inode = None
      BY <1>4, <2>1, FillFacts DEF Filling
    <3> QED
      BY <3>1, WriterFields DEF Fits, At
  <2>3. content'[temp] = Blocks(Document(w))
    <3>1. content'[temp] = Overwrite(content[temp], Document(w))
      BY <1>4, <2>1, FillFacts DEF TypeOK
    <3>2. <<>> \in Seq(Documents) /\ Document(w) \in Documents
      BY <1>4, FillFacts
    <3>3. Overwrite(<<>>, Document(w)) = Blocks(Document(w))
      BY <3>2, OverwriteFacts
    <3> QED
      BY <2>1, <3>1, <3>3
  <2>4. Visible' = Visible /\ temp \notin Visible /\ Visible \subseteq Inodes
    BY <1>4, <2>1, FillFacts, StoreConstants DEF Visible, Basics, TypeOK
  <2>5. \A i \in Visible' : Whole(content'[i])
    <3>1. \A i \in Visible' : content'[i] = content[i]
      BY <1>4, <2>1, <2>4, FillFacts DEF TypeOK
    <3> QED
      BY <1>0, <2>4, <3>1 DEF AloneInv
  <2>6. temp' = temp /\ writer'[w].inode = temp /\ ~At(w, "fill")' /\ Document(w)' = Document(w)
    BY <1>4, <2>1, FillFacts DEF At
  <2> QED
    BY <2>2, <2>3, <2>5, <2>6 DEF AloneInv, Filling
<1>5. ASSUME NEW w \in Writers, Rename(w)
      PROVE  AloneInv'
  <2>1. /\ temp = writer[w].inode /\ temp # None /\ content[temp] = Blocks(Document(w))
        /\ \A u \in Writers \ {w} : ~Filling(u)
    BY <1>0, <1>5, RenameFacts DEF AloneInv, Filling
  <2>2. /\ path' = temp /\ temp' = None /\ reading' = reading /\ Reclaim
        /\ writer'[w].inode = None /\ writer'[w].at = "set_mode"
        /\ \A u \in Writers \ {w} : writer'[u] = writer[u]
    BY <1>5, <2>1, RenameFacts
  <2>3. \A u \in Writers : writer'[u].inode = None /\ ~At(u, "fill")' /\ ~At(u, "rename")'
    <3> SUFFICES ASSUME NEW u \in Writers
                 PROVE  writer'[u].inode = None /\ ~At(u, "fill")' /\ ~At(u, "rename")'
      OBVIOUS
    <3>1. CASE u = w
      BY <2>2, <3>1 DEF At
    <3>2. CASE u # w
      <4>1. writer'[u] = writer[u] /\ writer[u].inode = None
        BY <2>1, <2>2, <3>2 DEF Filling
      <4> QED
        BY <4>1, WriterFields DEF Fits, At
    <3> QED
      BY <3>1, <3>2
  <2>4. Visible' \subseteq Visible \cup {temp} /\ Visible' \subseteq Inodes
    BY <2>2 DEF Visible, TypeOK
  <2>5. \A i \in Visible' : content'[i] = content[i]
    BY <2>2, <2>4, ReclaimFacts, InUse
  <2>6. Document(w) \in Documents
    BY <1>5, RenameFacts, WriterFields DEF Document, Documents, Basics, At
  <2>7. \A i \in Visible' : Whole(content'[i])
    BY <1>0, <2>1, <2>4, <2>5, <2>6 DEF AloneInv, Whole
  <2> QED
    BY <2>3, <2>7 DEF AloneInv, Filling
<1>6. ASSUME NEW w \in Writers, SetMode(w) \/ Die(w)
      PROVE  AloneInv'
  <2>1. Visible' \subseteq Visible /\ writer'[w].inode = None
    BY <1>6, ReturnFacts DEF Visible
  <2>2. \A i \in Inodes : i \in Used' => content'[i] = content[i]
    BY <1>6, ReturnFacts, ReclaimFacts
  <2> QED
    BY <1>0, <1>6, <2>1, <2>2, ReturnFacts, AloneKept
<1>7. ASSUME \/ \E r \in Readers : OpenFile(r) \/ CloseFile(r)
             \/ ClearSession
             \/ UNCHANGED vars
      PROVE  AloneInv'
  <2>1. temp' = temp /\ writer' = writer /\ Visible' \subseteq Visible
    BY <1>7, ReaderFacts DEF vars, names, Visible
  <2>2. \A i \in Inodes : i \in Used' => content'[i] = content[i]
    BY <1>7, ReaderFacts, ReclaimFacts DEF vars
  <2>3. ASSUME NEW w \in Writers
        PROVE  AloneInv'
    BY <1>0, <2>1, <2>2, AloneKept
  <2>4. CASE Writers = {}
    <3>1. \A i \in Visible' : i \in Visible /\ i \in Inodes /\ content'[i] = content[i]
      BY <2>1, <2>2, InUse, VisibleInodes
    <3>2. \A i \in Visible' : Whole(content'[i])
      BY <1>0, <3>1 DEF AloneInv
    <3> QED
      BY <2>4, <3>2 DEF AloneInv
  <2> QED
    BY <2>3, <2>4
<1> QED
  BY <1>1, <1>2, <1>3, <1>4, <1>5, <1>6, <1>7 DEF Next, WriterStep

-----------------------------------------------------------------------------
\* Steps that leave the key alone and encrypt nothing.
LEMMA OneKeyKept ==
  ASSUME TypeOK, OneKeyInv, keyFile' = keyFile,
         \A w \in Writers :
           \/ writer'[w] = writer[w]
           \/ /\ writer'[w].at \notin {"open_key", "fill_key"}
              /\ writer'[w].at \in {"open", "fill", "rename"} =>
                   writer'[w].key = keyFile,
         \A i \in Inodes : content'[i] \in {content[i], <<>>}
  PROVE  OneKeyInv'
<1>1. \A w \in Writers :
        writer'[w].at \in {"open_key", "fill_key"} => writer'[w] = writer[w]
  OBVIOUS
<1>2. \A w \in Writers :
        /\ At(w, "open_key")' => keyFile' = None
        /\ At(w, "fill_key")' => keyFile' = Empty
        /\ writer'[w].at \in {"open", "fill", "rename"} => writer'[w].key = keyFile'
  BY <1>1 DEF OneKeyInv, At
<1>3. \A w, u \in Writers :
        \/ w = u
        \/ writer'[w].at \notin {"open_key", "fill_key"}
        \/ writer'[u].at \notin {"open_key", "fill_key"}
  BY <1>1 DEF OneKeyInv
<1>4. ASSUME NEW i \in Inodes
      PROVE  /\ keyFile' \notin Writers => content'[i] = <<>>
             /\ \A n \in DOMAIN content'[i] : content'[i][n].key = keyFile'
  <2>1. CASE content'[i] = content[i]
    BY <2>1 DEF OneKeyInv
  <2>2. CASE content'[i] = <<>>
    BY <2>2
  <2> QED
    BY <2>1, <2>2
<1> QED
  BY <1>2, <1>3, <1>4 DEF OneKeyInv

\* Before there is a key nothing is encrypted, and nobody is about to.
LEMMA NoKeyYet ==
  ASSUME TypeOK, encrypted, OneKeyInv, keyFile \notin Writers, NEW w \in Writers
  PROVE  writer[w].at \notin {"open", "fill", "rename"}
<1>1. writer[w].at \in {"open", "fill", "rename"} => writer[w].key \in Writers
  BY WriterFields DEF Fits, Keys
<1> QED
  BY <1>1 DEF OneKeyInv

\* Nothing becomes encrypted, and a race for the key is not forgotten.
LEMMA HistoryGrows ==
  ASSUME TypeOK, [Next]_vars
  PROVE  encrypted' = encrypted /\ (keyRaced => keyRaced')
<1>1. ASSUME NEW w \in Writers, WriterStep(w)
      PROVE  encrypted' = encrypted /\ (keyRaced => keyRaced')
  <2>1. CASE ReadKey(w)
    BY <2>1 DEF ReadKey
  <2>2. CASE OpenKey(w) \/ FillKey(w) \/ SetMode(w)
    BY <2>2 DEF OpenKey, FillKey, SetMode, history
  <2>3. CASE Open(w)
    BY <2>3 DEF Open
  <2>4. CASE Fill(w)
    BY <2>4 DEF Fill, history
  <2>5. CASE Rename(w)
    BY <2>5 DEF Rename, history
  <2>6. CASE Die(w)
    BY <2>6 DEF Die, history
  <2> QED
    BY <1>1, <2>1, <2>2, <2>3, <2>4, <2>5, <2>6 DEF WriterStep
<1>2. ASSUME NEW w \in Writers, NEW v \in Values, BeginWrite(w, v)
      PROVE  encrypted' = encrypted /\ (keyRaced => keyRaced')
  BY <1>2 DEF BeginWrite, history
<1>3. ASSUME NEW r \in Readers, OpenFile(r) \/ CloseFile(r)
      PROVE  encrypted' = encrypted /\ (keyRaced => keyRaced')
  BY <1>3 DEF OpenFile, CloseFile, history
<1>4. CASE ClearSession \/ UNCHANGED vars
  BY <1>4 DEF ClearSession, vars, history
<1> QED
  BY <1>1, <1>2, <1>3, <1>4 DEF Next

\* While the key is not raced for, every step keeps to one key.
LEMMA OneKeyStep ==
  ASSUME TypeOK, TypeOK', Basics, [Next]_vars,
         encrypted /\ ~keyRaced => OneKeyInv, encrypted', ~keyRaced'
  PROVE  OneKeyInv'
<1>0. OneKeyInv /\ encrypted /\ ~keyRaced
  BY HistoryGrows
<1>1. ASSUME NEW w \in Writers, NEW v \in Values, BeginWrite(w, v)
      PROVE  OneKeyInv'
  <2>1. writer'[w].at = "read_key"
    BY <1>0, <1>1, BeginFacts
  <2>2. keyFile' = keyFile /\ content' = content
        /\ \A u \in Writers \ {w} : writer'[u] = writer[u]
    BY <1>1, BeginFacts
  <2> QED
    BY <1>0, <2>1, <2>2, OneKeyKept
<1>2. ASSUME NEW w \in Writers, ReadKey(w)
      PROVE  OneKeyInv'
  <2>0. /\ keyFile' = keyFile /\ content' = content
        /\ \A u \in Writers \ {w} : writer'[u] = writer[u]
    BY <1>2, KeyStepFacts DEF ReadKey
  <2>1. CASE keyFile = None /\ Goto(w, "open_key")
    <3>1. writer'[w].at = "open_key"
      BY <2>1, WriterFields DEF Goto, TypeOK, WriterRecord
    <3>2. \A u \in Writers : ~At(u, "open_key") /\ ~At(u, "fill_key")
      <4>1. \A u \in Writers : ~At(u, "open_key")
        BY <1>2, <2>1 DEF ReadKey
      <4>2. \A u \in Writers : ~At(u, "fill_key")
        BY <1>0, <2>1, StoreConstants DEF OneKeyInv
      <4> QED
        BY <4>1, <4>2
    <3>3. \A u \in Writers : writer'[u].at \in {"open_key", "fill_key"} => u = w
      BY <2>0, <3>2 DEF At
    <3>4. \A u \in Writers :
            /\ At(u, "open_key")' => keyFile' = None
            /\ At(u, "fill_key")' => keyFile' = Empty
            /\ writer'[u].at \in {"open", "fill", "rename"} => writer'[u].key = keyFile'
      BY <1>0, <2>0, <2>1, <3>1, <3>2 DEF OneKeyInv, At
    <3> QED
      BY <1>0, <2>0, <3>3, <3>4 DEF OneKeyInv
  <2>2. CASE Return(w)
    <3>1. writer'[w].at = "idle"
      BY <2>2 DEF Return, Idle, TypeOK
    <3> QED
      BY <1>0, <2>0, <3>1, OneKeyKept
  <2>3. CASE writer' = [writer EXCEPT ![w].at = "open", ![w].key = keyFile]
    <3>1. writer'[w].at = "open" /\ writer'[w].key = keyFile
      BY <2>3, WriterFields DEF TypeOK, WriterRecord
    <3> QED
      BY <1>0, <2>0, <3>1, OneKeyKept
  <2> QED
    BY <1>2, <2>1, <2>2, <2>3 DEF ReadKey
<1>3. ASSUME NEW w \in Writers, OpenKey(w)
      PROVE  OneKeyInv'
  <2>1. /\ At(w, "open_key") /\ keyFile' = Empty /\ content' = content
        /\ \A u \in Writers \ {w} : writer'[u] = writer[u]
        /\ writer'[w].at = "fill_key"
    BY <1>3, WriterFields DEF OpenKey, Goto, TypeOK, WriterRecord
  <2>2. keyFile = None /\ keyFile \notin Writers /\ Empty \notin Writers
    BY <1>0, <2>1, StoreConstants DEF OneKeyInv
  <2>3. \A u \in Writers : writer'[u].at \notin {"open", "fill", "rename"}
    BY <1>0, <2>1, <2>2, NoKeyYet
  <2>4. \A u \in Writers \ {w} : writer'[u].at \notin {"open_key", "fill_key"}
    BY <1>0, <2>1 DEF OneKeyInv, At
  <2>5. \A i \in Inodes : content'[i] = <<>> /\ DOMAIN content'[i] = {}
    BY <1>0, <2>1, <2>2 DEF OneKeyInv
  <2> QED
    BY <2>1, <2>2, <2>3, <2>4, <2>5 DEF OneKeyInv, At
<1>4. ASSUME NEW w \in Writers, FillKey(w)
      PROVE  OneKeyInv'
  <2>1. /\ At(w, "fill_key") /\ keyFile' = w /\ content' = content
        /\ \A u \in Writers \ {w} : writer'[u] = writer[u]
        /\ writer'[w].at = "open" /\ writer'[w].key = w
    BY <1>4, WriterFields DEF FillKey, TypeOK, WriterRecord
  <2>2. keyFile = Empty /\ keyFile \notin Writers
    BY <1>0, <2>1, StoreConstants DEF OneKeyInv
  <2>3. \A u \in Writers \ {w} :
           writer'[u].at \notin {"open", "fill", "rename", "open_key", "fill_key"}
    <3>1. \A u \in Writers \ {w} : writer'[u].at \notin {"open", "fill", "rename"}
      BY <1>0, <2>1, <2>2, NoKeyYet
    <3>2. \A u \in Writers \ {w} : writer'[u].at \notin {"open_key", "fill_key"}
      BY <1>0, <2>1 DEF OneKeyInv, At
    <3> QED
      BY <3>1, <3>2
  <2>4. \A i \in Inodes : DOMAIN content'[i] = {}
    BY <1>0, <2>1, <2>2 DEF OneKeyInv
  <2> QED
    BY <2>1, <2>3, <2>4 DEF OneKeyInv, At
<1>5. ASSUME NEW w \in Writers, Open(w)
      PROVE  OneKeyInv'
  <2>1. writer'[w].at = "fill" /\ writer'[w].key = keyFile
    BY <1>0, <1>5, OpenFacts DEF OneKeyInv, At
  <2>2. \A i \in Inodes : content'[i] \in {content[i], <<>>}
    BY <1>5, OpenFacts DEF TypeOK
  <2>3. keyFile' = keyFile /\ \A u \in Writers \ {w} : writer'[u] = writer[u]
    BY <1>5, OpenFacts
  <2> QED
    BY <1>0, <2>1, <2>2, <2>3, OneKeyKept
<1>6. ASSUME NEW w \in Writers, Fill(w)
      PROVE  OneKeyInv'
  <2>1. /\ At(w, "fill") /\ writer'[w].at = "rename" /\ writer'[w].key = writer[w].key
        /\ keyFile' = keyFile /\ \A u \in Writers \ {w} : writer'[u] = writer[u]
    BY <1>6, FillFacts
  <2>2. writer[w].key = keyFile /\ keyFile \in Writers
    BY <1>0, <2>1, NoKeyYet DEF OneKeyInv, At
  <2>3. Document(w) \in Documents /\ Document(w).key = keyFile
    BY <1>6, <2>2, FillFacts DEF Document
  <2>4. ASSUME NEW i \in Inodes, NEW n \in DOMAIN content'[i]
        PROVE  content'[i][n].key = keyFile
    <3>1. content[i] \in Seq(Documents)
      BY DEF TypeOK
    <3>2. \/ content'[i] = content[i]
          \/ content'[i] = Overwrite(content[i], Document(w))
      <4>1. content' = [content EXCEPT ![writer[w].inode] = Overwrite(@, Document(w))]
        BY <1>6 DEF Fill
      <4>2. content \in [Inodes -> Seq(Documents)]
        BY DEF TypeOK
      <4> QED
        BY <4>1, <4>2
    <3>3. CASE content'[i] = content[i]
      BY <1>0, <2>4, <3>3 DEF OneKeyInv
    <3>4. CASE content'[i] = Overwrite(content[i], Document(w))
      <4>1. \/ content'[i][n] = Document(w)
            \/ n \in DOMAIN content[i] /\ content'[i][n] = content[i][n]
        BY <2>3, <2>4, <3>1, <3>4, OverwriteFacts
      <4> QED
        BY <1>0, <2>3, <4>1 DEF OneKeyInv
    <3> QED
      BY <3>2, <3>3, <3>4
  <2> QED
    BY <1>0, <2>1, <2>2, <2>4 DEF OneKeyInv, At
<1>7. ASSUME NEW w \in Writers, Rename(w) \/ SetMode(w) \/ Die(w)
      PROVE  OneKeyInv'
  <2>0. writer \in [Writers -> WriterRecord] /\ Idle.at = "idle"
    BY DEF TypeOK, Idle, WriterRecord
  <2>1. writer'[w].at \in {"idle", "set_mode", "returned"}
    <3>1. CASE Return(w)
      BY <2>0, <3>1 DEF Return
    <3>2. CASE writer' = [writer EXCEPT ![w].at = "set_mode", ![w].inode = None]
      BY <2>0, <3>2 DEF WriterRecord
    <3> QED
      BY <1>7, <3>1, <3>2, ReturnFacts DEF Rename
  <2>2. keyFile' = keyFile /\ \A u \in Writers \ {w} : writer'[u] = writer[u]
    BY <1>7, RenameFacts, ReturnFacts
  <2>3. \A i \in Inodes : content'[i] \in {content[i], <<>>}
    BY <1>7, RenameFacts, ReturnFacts, ReclaimFacts
  <2> QED
    BY <1>0, <2>1, <2>2, <2>3, OneKeyKept
<1>8. ASSUME \/ \E r \in Readers : OpenFile(r) \/ CloseFile(r)
             \/ ClearSession
             \/ UNCHANGED vars
      PROVE  OneKeyInv'
  <2>1. keyFile' = keyFile /\ writer' = writer
    BY <1>8, ReaderFacts DEF vars
  <2>2. \A i \in Inodes : content'[i] \in {content[i], <<>>}
    BY <1>8, ReaderFacts, ReclaimFacts DEF vars
  <2> QED
    BY <1>0, <2>1, <2>2, OneKeyKept
<1> QED
  BY <1>1, <1>2, <1>3, <1>4, <1>5, <1>6, <1>7, <1>8 DEF Next, WriterStep

-----------------------------------------------------------------------------
\* In every state the types and the invariant hold.
THEOREM StoreInvariant == Spec => [](TypeOK /\ StoreInv)
<1>1. Init => TypeOK /\ StoreInv
  <2> SUFFICES ASSUME Init
               PROVE  StoreInv
    BY TypeInit
  <2>1. Visible = {} /\ \A w \in Writers : At(w, "idle") /\ ~Filling(w)
    BY DEF Init, Visible, Idle, At, Filling
  <2>2. Basics /\ AloneInv
    BY <2>1 DEF Init, Basics, AloneInv, At
  <2>3. OneKeyInv
    BY <2>1 DEF Init, OneKeyInv, At
  <2> QED
    BY <2>2, <2>3 DEF StoreInv
<1>2. TypeOK /\ StoreInv /\ [Next]_vars => TypeOK' /\ StoreInv'
  BY TypeStep, BasicsStep, AloneStep, OneKeyStep DEF StoreInv
<1> QED
  BY <1>1, <1>2, PTL DEF Spec

\* Whoever died before, readers see a whole document as long as no two writers
\* had the temporary file at once.
THEOREM WholeDocuments == Spec => []WholeUnlessOverlapped
<1>1. StoreInv => WholeUnlessOverlapped
  BY DEF StoreInv, AloneInv, WholeUnlessOverlapped
<1> QED
  BY <1>1, StoreInvariant, PTL

\* Unless two writers found no key at once, what is saved is encrypted under
\* the key on disk.
THEOREM FitKey == Spec => []CredentialsFitKey
<1>1. TypeOK /\ StoreInv => CredentialsFitKey
  BY VisibleInodes DEF StoreInv, OneKeyInv, CredentialsFitKey
<1> QED
  BY <1>1, StoreInvariant, PTL

\* However writers overlap, the file's name always refers to a file once it
\* did, until the session is cleared.
THEOREM NotMissing == Spec => NeverMissing
<1>1. TypeOK /\ StoreInv /\ [Next]_vars =>
        [path # None /\ path' = None => ClearSession]_vars
  <2> SUFFICES ASSUME TypeOK, Basics, [Next]_vars, path # None, path' = None
               PROVE  ClearSession
    BY DEF StoreInv
  <2>1. ASSUME NEW w \in Writers, WriterStep(w) \/ \E v \in Values : BeginWrite(w, v)
        PROVE  FALSE
    BY <2>1 DEF WriterStep, BeginWrite, ReadKey, OpenKey, FillKey, Open, Fill, Rename,
       SetMode, Die, names
  <2>2. ASSUME NEW r \in Readers, OpenFile(r) \/ CloseFile(r)
        PROVE  FALSE
    BY <2>2 DEF OpenFile, CloseFile, names
  <2> QED
    BY <2>1, <2>2 DEF Next, vars, names
<1> QED
  BY <1>1, StoreInvariant, PTL DEF Spec, NeverMissing

-----------------------------------------------------------------------------
\* A whole document is read as the value it was made of.
LEMMA PlainBlocks ==
  ASSUME NEW d \in Documents
  PROVE  Plain(Blocks(d)) = Text(d.value)
<1>1. Size[d.value] \in Nat
  BY StoreConstants DEF Documents
<1>2. Blocks(d) \in Seq(Documents) /\ Len(Blocks(d)) = Size[d.value]
  BY <1>1 DEF Blocks
<1> QED
  BY <1>1, <1>2 DEF Plain, Text, Blocks

\* How far a save is for its caller.
LEMMA ProgressFacts ==
  /\ Progress(Idle) = Atomic!Idle
  /\ Progress(Told) = [Atomic!Idle EXCEPT !.at = "told"]
  /\ \A x : x.at = "set_mode" =>
       Progress(x) = [at |-> "saved", document |-> Text(x.value)]
  /\ \A x : x.at \in {"read_key", "open_key", "fill_key", "open", "fill", "rename"} =>
       Progress(x) = [at |-> "saving", document |-> Text(x.value)]
<1>1. /\ Phase("idle") = "idle" /\ Phase("returned") = "told" /\ Phase("set_mode") = "saved"
      /\ \A step \in {"read_key", "open_key", "fill_key", "open", "fill", "rename"} :
           Phase(step) = "saving"
  BY DEF Phase
<1>2. Idle.at = "idle" /\ Told.at = "returned"
  BY DEF Idle, Told
<1>3. Progress(Idle) = Atomic!Idle /\ Progress(Told) = [Atomic!Idle EXCEPT !.at = "told"]
  BY <1>1, <1>2 DEF Progress, Atomic!Idle
<1>4. \A x : x.at = "set_mode" =>
        Progress(x) = [at |-> "saved", document |-> Text(x.value)]
  BY <1>1 DEF Progress
<1>5. \A x : x.at \in {"read_key", "open_key", "fill_key", "open", "fill", "rename"} =>
        Progress(x) = [at |-> "saving", document |-> Text(x.value)]
  BY <1>1 DEF Progress
<1> QED
  BY <1>3, <1>4, <1>5

\* A step of one writer moves that writer's save.
LEMMA SavingStep ==
  ASSUME NEW w \in Writers, \A u \in Writers \ {w} : writer'[u] = writer[u]
  PROVE  /\ saving' = [saving EXCEPT ![w] = Progress(writer'[w])]
         /\ saving[w] = Progress(writer[w])
BY DEF saving

\* What is visible and keeps its blocks looks the same.
LEMMA VisibleKept ==
  ASSUME UNCHANGED <<path, reading>>, \A i \in Visible : content'[i] = content[i]
  PROVE  UNCHANGED <<file, seen>>
<1>1. path # None => content'[path] = content[path]
  BY DEF Visible
<1>2. \A r \in Readers : reading[r] # None => content'[reading[r]] = content[reading[r]]
  BY DEF Visible
<1>3. file' = file
  BY <1>1 DEF file, Held
<1>4. seen' = seen
  BY <1>2 DEF seen, Held
<1> QED
  BY <1>3, <1>4

\* Until two writers overlap, every step is a step of the atomic file.
LEMMA AtomicStep ==
  TypeOK /\ TypeOK' /\ StoreInv /\ StoreInv' /\ [Next]_vars
    => [overlapped' \/ Atomic!Next]_<<file, saving, seen>>
<1> SUFFICES ASSUME TypeOK, TypeOK', StoreInv, StoreInv', [Next]_vars, ~overlapped'
             PROVE  Atomic!Next \/ UNCHANGED <<file, saving, seen>>
  OBVIOUS
<1>0. Basics /\ AloneInv'
  BY DEF StoreInv
<1>1. ASSUME NEW w \in Writers, NEW v \in Values, BeginWrite(w, v)
      PROVE  Atomic!Begin(w, Text(v))
  <2>1. UNCHANGED <<file, seen>>
    BY <1>1, BeginFacts, VisibleKept
  <2>2. saving[w].at \in {"idle", "told"}
    BY <1>1, BeginFacts DEF saving, Progress, Phase, At
  <2>3. Progress(writer'[w]) = [at |-> "saving", document |-> Text(v)]
    BY <1>1, BeginFacts, ProgressFacts
  <2> QED
    BY <1>1, <2>1, <2>2, <2>3, BeginFacts, SavingStep DEF Atomic!Begin
<1>2. ASSUME NEW w \in Writers, ReadKey(w) \/ OpenKey(w) \/ FillKey(w)
      PROVE  Atomic!GiveUp(w) \/ UNCHANGED <<file, saving, seen>>
  <2>1. UNCHANGED <<file, seen>>
    BY <1>0, <1>2, KeyStepFacts, VisibleKept
  <2>2. /\ saving' = [saving EXCEPT ![w] = Progress(writer'[w])]
        /\ saving[w] = [at |-> "saving", document |-> Text(writer[w].value)]
    <3>1. writer[w].at \in {"read_key", "open_key", "fill_key"}
      BY <1>2 DEF ReadKey, OpenKey, FillKey, At
    <3> QED
      BY <1>0, <1>2, <3>1, KeyStepFacts, SavingStep, ProgressFacts
  <2>3. CASE writer'[w].at = "idle"
    <3>1. writer'[w] = Idle
      BY <1>2, <2>3, WriterFields DEF ReadKey, OpenKey, FillKey, Goto, Return, TypeOK,
         WriterRecord
    <3> QED
      BY <2>1, <2>2, <3>1, ProgressFacts DEF Atomic!GiveUp
  <2>4. CASE writer'[w].at # "idle"
    <3>1. Progress(writer'[w]) = saving[w]
      BY <1>0, <1>2, <2>2, <2>4, KeyStepFacts, ProgressFacts
    <3> QED
      BY <2>1, <2>2, <3>1 DEF saving
  <2> QED
    BY <2>3, <2>4
<1>3. ASSUME NEW w \in Writers, Open(w) \/ Fill(w)
      PROVE  UNCHANGED <<file, saving, seen>>
  <2>1. AloneInv
    BY <1>3, OpensAlone, FillFacts DEF StoreInv, history
  <2>2. /\ UNCHANGED <<path, reading>>
        /\ \A u \in Writers \ {w} : writer'[u] = writer[u]
        /\ writer[w].at \in {"open", "fill"} /\ writer'[w].at \in {"fill", "rename"}
        /\ writer'[w].value = writer[w].value
    BY <1>0, <1>3, OpenFacts, FillFacts DEF At
  <2>3. \A i \in Visible : content'[i] = content[i]
    <3>1. Visible \subseteq Inodes
      BY VisibleInodes
    <3>2. CASE Open(w)
      BY <1>0, <3>1, <3>2, OpenFacts DEF TypeOK
    <3>3. CASE Fill(w)
      <4>1. temp = writer[w].inode /\ temp \notin Visible
        BY <1>0, <2>1, <3>3, FillFacts, StoreConstants DEF AloneInv, Basics
      <4> QED
        BY <1>0, <3>1, <3>3, <4>1, FillFacts DEF TypeOK
    <3> QED
      BY <1>3, <3>2, <3>3
  <2>4. Progress(writer'[w]) = Progress(writer[w])
    BY <2>2, ProgressFacts
  <2>5. saving' = saving
    BY <2>2, <2>4 DEF saving
  <2> QED
    BY <2>2, <2>3, <2>5, VisibleKept
<1>4. ASSUME NEW w \in Writers, Rename(w)
      PROVE  Atomic!Save(w)
  <2>1. AloneInv
    BY <1>0, <1>4, RenameFacts DEF StoreInv, history
  <2>2. /\ temp = writer[w].inode /\ temp # None /\ temp \in Inodes
        /\ content[temp] = Blocks(Document(w))
    BY <1>0, <1>4, <2>1, RenameFacts DEF AloneInv, Filling, TypeOK
  <2>3. /\ path' = temp /\ reading' = reading /\ Reclaim
        /\ writer'[w].at = "set_mode" /\ writer'[w].value = writer[w].value
        /\ \A u \in Writers \ {w} : writer'[u] = writer[u]
    BY <1>0, <1>4, <2>2, RenameFacts
  <2>4. Document(w) \in Documents /\ Document(w).value = writer[w].value
    BY <1>0, <1>4, RenameFacts, WriterFields DEF Document, Documents, Basics, At
  <2>5. file' = Text(writer[w].value)
    <3>1. content'[temp] = content[temp]
      BY <2>2, <2>3, ReclaimFacts, InUse DEF Used
    <3> QED
      BY <2>2, <2>3, <2>4, <3>1, PlainBlocks DEF file, Held
  <2>6. seen' = seen
    <3>1. \A r \in Readers : reading[r] # None => content'[reading[r]] = content[reading[r]]
      BY <2>3, ReclaimFacts DEF Used, TypeOK
    <3> QED
      BY <2>3, <3>1 DEF seen, Held
  <2>7. writer[w].at = "rename"
    BY <1>4 DEF Rename, At
  <2>8. saving[w] = [at |-> "saving", document |-> Text(writer[w].value)]
    BY <2>3, <2>7, SavingStep, ProgressFacts
  <2>9. saving' = [saving EXCEPT ![w] = [at |-> "saved", document |-> Text(writer[w].value)]]
    BY <2>3, SavingStep, ProgressFacts
  <2>10. saving' = [saving EXCEPT ![w].at = "saved"]
    <3>1. [saving[w] EXCEPT !.at = "saved"]
            = [at |-> "saved", document |-> Text(writer[w].value)]
      BY <2>8
    <3>2. [saving EXCEPT ![w].at = "saved"]
            = [saving EXCEPT ![w] = [saving[w] EXCEPT !.at = "saved"]]
      OBVIOUS
    <3> QED
      BY <2>9, <3>1, <3>2
  <2> QED
    BY <2>5, <2>6, <2>8, <2>10 DEF Atomic!Save
<1>5. ASSUME NEW w \in Writers, SetMode(w) \/ Die(w)
      PROVE  Atomic!Tell(w) \/ Atomic!GiveUp(w)
  <2>1. UNCHANGED <<file, seen>>
    <3>1. \A i \in Visible : i \in Inodes /\ i \in Used'
      BY <1>5, ReturnFacts, VisibleInodes DEF Visible, Used
    <3>2. \A i \in Visible : content'[i] = content[i]
      BY <1>5, <3>1, ReturnFacts, ReclaimFacts
    <3> QED
      BY <1>5, <3>2, ReturnFacts, VisibleKept
  <2>2. /\ saving' = [saving EXCEPT ![w] = Progress(writer'[w])]
        /\ saving[w] = Progress(writer[w])
    BY <1>5, ReturnFacts, SavingStep
  <2>3. CASE writer'[w] = Idle
    <3>1. writer[w].at \in Steps \ {"idle", "returned"}
      BY <1>5, WriterFields DEF SetMode, Die, At
    <3>2. saving[w].at \in {"saving", "saved"}
      BY <2>2, <3>1, ProgressFacts DEF Steps
    <3> QED
      BY <2>1, <2>2, <2>3, <3>2, ProgressFacts DEF Atomic!GiveUp
  <2>4. CASE SetMode(w) /\ writer'[w] = Told
    <3>1. saving[w].at = "saved"
      BY <2>2, <2>4, ProgressFacts DEF SetMode, At
    <3> QED
      BY <2>1, <2>2, <2>4, <3>1, ProgressFacts DEF Atomic!Tell
  <2> QED
    BY <1>5, <2>3, <2>4, ReturnFacts
<1>6. ASSUME NEW r \in Readers, OpenFile(r)
      PROVE  Atomic!Open(r)
  <2>1. /\ reading[r] = None /\ reading' = [reading EXCEPT ![r] = path]
        /\ UNCHANGED <<content, path, writer>>
    BY <1>6 DEF OpenFile, names
  <2>2. seen[r] = None /\ file' = file /\ saving' = saving
    BY <2>1 DEF seen, file, saving, Held
  <2>3. seen' = [seen EXCEPT ![r] = file]
    BY <2>1 DEF seen, file, Held, TypeOK
  <2> QED
    BY <2>2, <2>3 DEF Atomic!Open
<1>7. ASSUME NEW r \in Readers, CloseFile(r)
      PROVE  Atomic!Close(r)
  <2>1. /\ reading' = [reading EXCEPT ![r] = None] /\ Reclaim
        /\ UNCHANGED <<path, writer>>
    BY <1>7 DEF CloseFile, names
  <2>2. file' = file /\ saving' = saving
    <3>1. path # None => content'[path] = content[path]
      BY <2>1, ReclaimFacts DEF Used, TypeOK
    <3> QED
      BY <2>1, <3>1 DEF file, saving, Held
  <2>3. \A q \in Readers \ {r} :
          reading[q] # None => content'[reading[q]] = content[reading[q]]
    <3> SUFFICES ASSUME NEW q \in Readers \ {r}, reading[q] # None
                 PROVE  content'[reading[q]] = content[reading[q]]
      OBVIOUS
    <3>1. reading'[q] = reading[q] /\ reading[q] \in Inodes
      BY <2>1 DEF TypeOK
    <3>2. reading[q] \in Used'
      BY <3>1 DEF Used
    <3> QED
      BY <2>1, <3>1, <3>2, ReclaimFacts
  <2>4. seen' = [seen EXCEPT ![r] = None]
    BY <2>1, <2>3 DEF seen, Held, TypeOK
  <2> QED
    BY <2>2, <2>4 DEF Atomic!Close
<1>8. CASE ClearSession
  <2>1. path' = None /\ UNCHANGED <<writer, reading>> /\ Reclaim
    BY <1>8 DEF ClearSession
  <2>2. file' = None /\ saving' = saving
    BY <2>1 DEF file, saving, Held
  <2>3. seen' = seen
    <3>1. \A r \in Readers : reading[r] # None => content'[reading[r]] = content[reading[r]]
      BY <2>1, ReclaimFacts DEF Used, TypeOK
    <3> QED
      BY <2>1, <3>1 DEF seen, Held
  <2> QED
    BY <2>2, <2>3 DEF Atomic!Next, Atomic!Clear
<1>9. CASE UNCHANGED vars
  BY <1>9 DEF vars, names, file, saving, seen, Held
<1>10. \A v \in Values : Text(v) \in {Text(x) : x \in Values}
  OBVIOUS
<1> QED
  BY <1>1, <1>2, <1>3, <1>4, <1>5, <1>6, <1>7, <1>8, <1>9, <1>10
  DEF Next, WriterStep, Atomic!Next

\* Until two writers overlap, the file is atomic for those who save and read
\* it, also when writers die: success is told when the save is in place.
THEOREM AtomicRefined == Spec => ImplementsAtomicFile
<1>1. Init => Atomic!Init
  BY ProgressFacts DEF Init, Atomic!Init, file, saving, seen, Held
<1>2. TypeOK /\ StoreInv /\ TypeOK' /\ StoreInv' /\ [Next]_vars
        => [overlapped' \/ Atomic!Next]_<<file, saving, seen>>
  BY AtomicStep
<1> QED
  BY <1>1, <1>2, StoreInvariant, PTL DEF Spec, ImplementsAtomicFile
=============================================================================
