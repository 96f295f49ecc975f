---------------------------- MODULE SkuToolProofs ----------------------------
(***************************************************************************)
(* Proofs about the command line tool, for any files, commands, edits and   *)
(* failures: it leaves other files alone, a signature header is only ever   *)
(* followed by the payload that was signed with it, what it accepts fits    *)
(* the client, and what it saves decodes to what it has read.              *)
(***************************************************************************)
EXTENDS SkuTool, SequenceTheorems, FiniteSetTheorems, WellFoundedInduction, TLAPS

(* What may be at a path: nothing that is signed but a beginning of a file  *)
(* that the vendor signed.                                                 *)
Genuine(file) ==
    /\ IsFile(file)
    /\ IsSigned(file) => \E retail \in RetailFiles : file \in Prefixes(retail)

--------------------------------------------------------------------------------
(* A non-empty set of indices has a largest one.                           *)
LEMMA MaxIsMember ==
    ASSUME NEW n \in Nat, NEW T, T \subseteq 1 .. n, T # {}
    PROVE  Max(T) \in T
<1> DEFINE U == {n - i : i \in T}
<1>1. U \subseteq Nat /\ U # {}
    <2>1. \A i \in T : n - i \in Nat
        OBVIOUS
    <2>2. PICK t \in T : TRUE
        OBVIOUS
    <2>3. n - t \in U
        OBVIOUS
    <2> QED
        BY <2>1, <2>3
<1>2. PICK u \in U : \A v \in U : ~(<<v, u>> \in OpToRel(<, Nat))
    BY <1>1, NatLessThanWellFounded, WFMin
<1>3. PICK m \in T : u = n - m
    OBVIOUS
<1>4. \A y \in T : m >= y
    <2> TAKE y \in T
    <2>1. ~(<<n - y, u>> \in OpToRel(<, Nat))
        BY <1>2
    <2>2. ~(n - y < u)
        BY <2>1, <1>1 DEF OpToRel
    <2> QED
        BY <2>2, <1>3
<1> QED
    BY <1>4 DEF Max

(* A function from an initial segment is a sequence.                       *)
LEMMA SegmentIsFile ==
    ASSUME NEW n \in Nat, NEW f, f = [i \in 1 .. n |-> f[i]]
    PROVE  IsFile(f) /\ Len(f) = n /\ DOMAIN f = 1 .. n
<1> DEFINE S == {f[i] : i \in DOMAIN f}
<1>1. DOMAIN f = 1 .. n
    OBVIOUS
<1>2. f \in [1 .. n -> S]
    BY <1>1
<1>3. f \in Seq(S)
    BY <1>2, IsASeq
<1> QED
    BY <1>1, <1>3, LenProperties DEF IsFile, Range

LEMMA FileIsSegment ==
    ASSUME NEW s, IsFile(s)
    PROVE  Len(s) \in Nat /\ DOMAIN s = 1 .. Len(s) /\ s = [i \in 1 .. Len(s) |-> s[i]]
BY LenProperties DEF IsFile, Range

(* Parts of a sequence.                                                    *)
LEMMA PartIsFile ==
    ASSUME NEW s, IsFile(s), NEW k \in 0 .. Len(s)
    PROVE  /\ IsFile(SubSeq(s, 1, k))
           /\ DOMAIN SubSeq(s, 1, k) = 1 .. k
           /\ Len(SubSeq(s, 1, k)) = k
           /\ \A i \in 1 .. k : SubSeq(s, 1, k)[i] = s[i]
<1> DEFINE p == SubSeq(s, 1, k)
<1>1. Len(s) \in Nat
    BY FileIsSegment
<1>2. p = [i \in 1 .. k |-> s[i]]
    BY <1>1, SubSeqProperties DEF IsFile, Range
<1>3. p = [i \in 1 .. k |-> p[i]]
    BY <1>2
<1>4. k \in Nat
    BY <1>1
<1> HIDE DEF p
<1>5. IsFile(p) /\ Len(p) = k /\ DOMAIN p = 1 .. k
    BY <1>3, <1>4, SegmentIsFile
<1>6. \A i \in 1 .. k : p[i] = s[i]
    BY <1>2
<1> QED
    BY <1>5, <1>6 DEF p

LEMMA StrippedIsFile ==
    ASSUME NEW plain, IsFile(plain)
    PROVE  IsFile(Stripped(plain))
<1> DEFINE T == {i \in 1 .. Len(plain) : plain[i] # Nul}
           k == IF T # {} THEN Max(T) ELSE 0
<1>1. Len(plain) \in Nat
    BY FileIsSegment
<1>2. k \in 0 .. Len(plain)
    <2>1. CASE T = {}
        BY <2>1, <1>1
    <2>2. CASE T # {}
        <3>1. T \subseteq 1 .. Len(plain)
            OBVIOUS
        <3> HIDE DEF T
        <3>2. Max(T) \in T
            BY <2>2, <3>1, <1>1, MaxIsMember
        <3>3. k = Max(T)
            BY <2>2
        <3> HIDE DEF k
        <3>4. Max(T) \in 1 .. Len(plain)
            BY <3>1, <3>2
        <3> QED
            BY <3>3, <3>4, <1>1
    <2> QED
        BY <2>1, <2>2
<1>3. Stripped(plain) = SubSeq(plain, 1, k)
    BY DEF Stripped, SelectLastInSeq
<1> QED
    BY <1>2, <1>3, PartIsFile

LEMMA SeqIsFile ==
    ASSUME NEW S, NEW s \in Seq(S)
    PROVE  IsFile(s)
<1>1. Len(s) \in Nat /\ s \in [1 .. Len(s) -> S]
    BY LenProperties
<1> QED
    BY <1>1, SegmentIsFile

(* A beginning of a file is a file, and has the header of the whole.       *)
LEMMA PrefixIsFile ==
    ASSUME NEW file, IsFile(file), NEW prefix \in Prefixes(file)
    PROVE  IsFile(prefix) /\ (IsSigned(prefix) => IsSigned(file))
<1>1. PICK k \in 0 .. Len(file) : prefix = SubSeq(file, 1, k)
    BY DEF Prefixes
<1>2. Len(file) \in Nat /\ DOMAIN file = 1 .. Len(file)
    BY FileIsSegment
<1>3. /\ IsFile(prefix) /\ DOMAIN prefix = 1 .. k
      /\ \A i \in 1 .. k : prefix[i] = file[i]
    BY <1>1, PartIsFile
<1> QED
    BY <1>2, <1>3 DEF IsSigned

(* A beginning of a beginning is a beginning.                              *)
LEMMA PrefixOfPrefix ==
    ASSUME NEW file, IsFile(file), NEW part \in Prefixes(file), NEW prefix \in Prefixes(part)
    PROVE  prefix \in Prefixes(file)
<1>1. PICK l \in 0 .. Len(file) : part = SubSeq(file, 1, l)
    BY DEF Prefixes
<1>2. /\ IsFile(part) /\ Len(part) = l
      /\ \A i \in 1 .. l : part[i] = file[i]
    BY <1>1, PartIsFile
<1>3. PICK k \in 0 .. l : prefix = SubSeq(part, 1, k)
    BY <1>2 DEF Prefixes
<1>4. Len(file) \in Nat
    BY FileIsSegment
<1>5. k \in 0 .. Len(part) /\ k \in 0 .. Len(file)
    BY <1>2, <1>4
<1>6. /\ IsFile(prefix) /\ Len(prefix) = k
      /\ \A i \in 1 .. k : prefix[i] = part[i]
    BY <1>2, <1>3, <1>5, PartIsFile
<1> DEFINE whole == SubSeq(file, 1, k)
<1>7. /\ IsFile(whole) /\ Len(whole) = k
      /\ \A i \in 1 .. k : whole[i] = file[i]
    BY <1>5, PartIsFile
<1> HIDE DEF whole
<1>8. prefix = [i \in 1 .. k |-> prefix[i]] /\ whole = [i \in 1 .. k |-> whole[i]]
    BY <1>6, <1>7, FileIsSegment
<1>9. \A i \in 1 .. k : prefix[i] = whole[i]
    BY <1>2, <1>5, <1>6, <1>7
<1>10. prefix = whole
    BY <1>8, <1>9
<1> QED
    BY <1>5, <1>10 DEF whole, Prefixes

LEMMA PrefixIsGenuine ==
    ASSUME NEW file, Genuine(file), NEW prefix \in Prefixes(file)
    PROVE  Genuine(prefix)
<1>1. IsFile(prefix) /\ (IsSigned(prefix) => IsSigned(file))
    BY PrefixIsFile DEF Genuine
<1>2. ASSUME IsSigned(prefix)
      PROVE  \E retail \in RetailFiles : prefix \in Prefixes(retail)
    <2>1. PICK retail \in RetailFiles : file \in Prefixes(retail)
        BY <1>1, <1>2 DEF Genuine
    <2> QED
        BY <2>1, PrefixOfPrefix, SkuToolAssumption
<1> QED
    BY <1>1, <1>2 DEF Genuine

--------------------------------------------------------------------------------
(* A decoded text is a sequence of lines; only a file with a header decodes *)
(* as signed.                                                              *)
LEMMA PayloadIsFile ==
    ASSUME NEW input, IsFile(input)
    PROVE  IsFile(Payload(input))
<1>1. CASE ~IsSigned(input)
    BY <1>1 DEF Payload
<1>2. CASE IsSigned(input)
    <2> DEFINE S == {input[i] : i \in HeaderSize + 1 .. Len(input)}
    <2>1. HeaderSize + 1 \in Int /\ Len(input) \in Int
        BY FileIsSegment, CodecAssumption
    <2>2. SubSeq(input, HeaderSize + 1, Len(input)) \in Seq(S)
        BY <2>1, SubSeqProperties
    <2> QED
        BY <1>2, <2>2, SeqIsFile DEF Payload
<1> QED
    BY <1>1, <1>2

LEMMA DecryptIsFile ==
    ASSUME NEW payload, IsFile(payload)
    PROVE  IsFile(Decrypt(payload))
<1> DEFINE plain == [i \in DOMAIN payload |-> Last(payload)[2][i]]
<1>1. Len(payload) \in Nat /\ DOMAIN payload = 1 .. Len(payload)
    BY FileIsSegment
<1>2. plain = [i \in 1 .. Len(payload) |-> plain[i]]
    BY <1>1
<1>3. IsFile(plain)
    BY <1>1, <1>2, SegmentIsFile
<1>4. IsFile(<< >>)
    BY EmptySeq, SeqIsFile
<1> QED
    BY <1>3, <1>4 DEF Decrypt

LEMMA DecodedIsText ==
    ASSUME NEW input, IsFile(input)
    PROVE  /\ IsFile(Decode(input).text)
           /\ ~IsSigned(Decode(input).text)
           /\ Decode(input).format = "signed" => IsSigned(input)
<1> DEFINE text == Stripped(Decrypt(Payload(input)))
<1>1. IsFile(<< >>) /\ ~IsSigned(<< >>)
    <2>1. IsFile(<< >>)
        BY EmptySeq, SeqIsFile
    <2>2. DOMAIN << >> = {}
        OBVIOUS
    <2> QED
        BY <2>1, <2>2 DEF IsSigned
<1>2. IsFile(text)
    BY PayloadIsFile, DecryptIsFile, StrippedIsFile
<1> HIDE DEF text
<1>3. CASE Decode(input) = Rejected
    BY <1>1, <1>3 DEF Rejected
<1>4. CASE Decode(input) = [format |-> "plaintext", text |-> input] /\ IsPlaintext(input)
    BY <1>4 DEF IsPlaintext, IsSigned
<1>5. CASE /\ Decode(input) = [format |-> IF IsSigned(input) THEN "signed" ELSE "encrypted",
                               text |-> text]
           /\ \A i \in DOMAIN text : IsLine(text[i])
    <2>1. ~IsSigned(text)
        BY <1>5 DEF IsSigned, IsLine
    <2> QED
        BY <1>2, <1>5, <2>1
<1> QED
    BY <1>3, <1>4, <1>5 DEF Decode, text

(* What encode makes has no header.                                        *)
LEMMA EncryptedIsFile ==
    ASSUME NEW text, Validates(text)
    PROVE  IsFile(Encrypt(Padded(text))) /\ ~IsSigned(Encrypt(Padded(text)))
<1> DEFINE m == ((Len(text) + BlockSize - 1) \div BlockSize) * BlockSize
           e == Encrypt(Padded(text))
<1>1. Len(text) \in Nat /\ BlockSize \in Nat /\ BlockSize > 0
    BY CodecAssumption DEF Validates
<1>2. m \in Nat
    <2>1. Len(text) + BlockSize - 1 \in Nat
        BY <1>1
    <2>2. (Len(text) + BlockSize - 1) \div BlockSize \in Nat
        BY <1>1, <2>1
    <2> QED
        BY <1>1, <2>2
<1>3. DOMAIN Padded(text) = 1 .. m
    BY DEF Padded
<1> HIDE DEF m
<1>4. DOMAIN e = 1 .. m /\ \A i \in 1 .. m : e[i][1] = "cipher"
    BY <1>3 DEF Encrypt
<1>5. e = [i \in DOMAIN e |-> e[i]]
    BY DEF Encrypt
<1> HIDE DEF e
<1>6. IsFile(e)
    BY <1>2, <1>4, <1>5, SegmentIsFile
<1>7. ~IsSigned(e)
    BY <1>4 DEF IsSigned
<1> QED
    BY <1>6, <1>7 DEF e

(* With --template the output is the template, unit by unit.               *)
LEMMA TemplateIsOutput ==
    ASSUME NEW retail, IsFile(retail), NEW bytes, IsFile(bytes), SamePayload(retail, bytes)
    PROVE  SubSeq(retail, 1, HeaderSize) \o bytes = retail
<1>1. Len(retail) \in Nat /\ Len(bytes) \in Nat /\ HeaderSize \in Nat
    BY FileIsSegment, CodecAssumption
<1>2. Len(retail) = Len(bytes) + HeaderSize /\ SubSeq(retail, HeaderSize + 1, Len(retail)) = bytes
    BY DEF SamePayload
<1>3. /\ 1 \in 1 .. Len(retail) + 1
      /\ HeaderSize \in 0 .. Len(retail)
      /\ Len(retail) \in HeaderSize .. Len(retail)
    BY <1>1, <1>2
<1> DEFINE S == Range(retail)
<1>4. retail \in Seq(S)
    BY DEF IsFile
<1> HIDE DEF S
<1>5. HeaderSize \in 1 - 1 .. Len(retail)
    BY <1>3
<1>6. \A m \in 1 .. Len(retail) + 1 : \A k \in m - 1 .. Len(retail) :
          \A n \in k .. Len(retail) :
              SubSeq(retail, m, k) \o SubSeq(retail, k + 1, n) = SubSeq(retail, m, n)
    BY <1>4, ConcatAdjacentSubSeq, Zenon
<1>7. SubSeq(retail, 1, HeaderSize) \o SubSeq(retail, HeaderSize + 1, Len(retail))
      = SubSeq(retail, 1, Len(retail))
    BY <1>3, <1>5, <1>6, Zenon
<1>8. SubSeq(retail, 1, Len(retail)) = retail
    BY <1>4, SubSeqFull
<1> QED
    BY <1>2, <1>7, <1>8
--------------------------------------------------------------------------------
(* Until the output is created the disk is as the command found it; from    *)
(* then on only the output differs, and it was free or --force was given.  *)
Careful ==
    /\ disk = [p \in Paths |-> disk[p]]
    /\ before = [p \in Paths |-> before[p]]
    /\ pc \in {"idle", "read", "view", "check", "decode", "encode",
               "template", "create", "write"}
    /\ pc # "idle" => command \in Commands
    /\ pc = "template" => command.template \in Paths
    /\ pc \notin {"idle", "write"} => disk = before
    /\ pc = "write" =>
           /\ command.force \/ before[command.out] = NoFile
           /\ \A p \in Paths \ {command.out} : disk[p] = before[p]
    /\ OthersAreLeftAlone

LEMMA CarefulInit == Init => Careful
BY SkuToolAssumption DEF Init, Careful, OthersAreLeftAlone

(* A step that refuses, or that only moves on, leaves the disk alone.      *)
LEMMA CarefulUnchanged ==
    ASSUME Careful, UNCHANGED <<disk, before, command>>,
           pc \notin {"idle", "write"},
           pc' \in {"idle", "view", "check", "decode", "encode", "template", "create"},
           pc' = "template" => command.template \in Paths
    PROVE  Careful'
BY DEF Careful, OthersAreLeftAlone

LEMMA CarefulNext == Careful /\ [Next]_vars => Careful'
<1> SUFFICES ASSUME Careful, [Next]_vars PROVE Careful'
    OBVIOUS
<1>1. ASSUME NEW c \in Commands, Begin(c) PROVE Careful'
    BY <1>1 DEF Careful, Begin, OthersAreLeftAlone
<1>2. CASE Read
    <2>1. command \in Commands
        BY <1>2 DEF Careful, Read
    <2>2. command.verb \in {"view", "check", "decode", "encode"}
        BY <2>1, SkuToolAssumption
    <2> QED
        BY <1>2, <2>2, CarefulUnchanged DEF Read, Throw, Return, Proceed
<1>3. CASE View
    BY <1>3, CarefulUnchanged DEF View, Return, work
<1>4. CASE Check
    BY <1>4, CarefulUnchanged DEF Check, Return, work
<1>5. CASE DecodeText
    BY <1>5, CarefulUnchanged DEF DecodeText, Proceed
<1>6. CASE EncodeText
    <2>1. command.template \in Paths \cup {NoPath}
        BY <1>6, SkuToolAssumption DEF Careful, EncodeText
    <2> QED
        BY <1>6, <2>1, CarefulUnchanged DEF EncodeText, Throw, Return, Proceed
<1>7. CASE Template
    BY <1>7, CarefulUnchanged DEF Template, Throw, Return, Proceed
<1>8. CASE Create
    <2>1. command.out \in Paths
        BY <1>8, SkuToolAssumption DEF Careful, Create
    <2>2. CASE Throw
        BY <1>8, <2>2, CarefulUnchanged DEF Create, Throw, Return, work
    <2>3. CASE /\ command.force \/ disk[command.out] = NoFile
               /\ disk' = [disk EXCEPT ![command.out] = << >>]
               /\ pc' = "write"
        BY <1>8, <2>1, <2>3 DEF Careful, Create, OthersAreLeftAlone, work
    <2> QED
        BY <1>8, <2>2, <2>3 DEF Create
<1>9. CASE Write
    <2>1. command.out \in Paths
        BY <1>9, SkuToolAssumption DEF Careful, Write
    <2>2. PICK file : disk' = [disk EXCEPT ![command.out] = file]
        BY <1>9 DEF Write
    <2>3. pc' = "idle" /\ result' \in {"done", "broken off"} /\ UNCHANGED <<before, command>>
        BY <1>9 DEF Write, Return, work
    <2> QED
        BY <1>9, <2>1, <2>2, <2>3 DEF Careful, Write, OthersAreLeftAlone
<1>10. CASE Die
    BY <1>10, CarefulUnchanged DEF Die, Throw, Return, work
<1>11. ASSUME NEW e \in Edits, Edit(e[1], e[2]) PROVE Careful'
    <2>1. e[1] \in Paths
        BY SkuToolAssumption
    <2>2. /\ disk' = [disk EXCEPT ![e[1]] = e[2]]
          /\ before' = [before EXCEPT ![e[1]] = e[2]]
          /\ UNCHANGED <<pc, command>>
          /\ pc = "idle" => result' = "none"
          /\ pc = "write" => e[1] # command.out
        BY <1>11 DEF Edit, work
    <2>3. pc \notin {"idle", "write"} => disk' = before'
        BY <2>2 DEF Careful
    <2>4. \A p \in Paths : disk'[p] # before'[p] =>
              disk[p] # before[p] /\ before'[p] = before[p]
        BY <2>1, <2>2 DEF Careful
    <2>5. OthersAreLeftAlone'
        BY <2>2, <2>4 DEF Careful, OthersAreLeftAlone
    <2>6. pc' = "write" =>
              /\ command'.force \/ before'[command'.out] = NoFile
              /\ \A p \in Paths \ {command'.out} : disk'[p] = before'[p]
        BY <2>2, <2>4 DEF Careful
    <2> QED
        BY <2>2, <2>3, <2>5, <2>6 DEF Careful
<1>12. CASE UNCHANGED vars
    BY <1>12 DEF vars, work, Careful, OthersAreLeftAlone
<1> QED
    BY <1>1, <1>2, <1>3, <1>4, <1>5, <1>6, <1>7, <1>8, <1>9, <1>10, <1>11, <1>12 DEF Next

(* Every check comes before the output is created: a command that refuses   *)
(* has changed nothing, and one that does not has changed its output only, *)
(* which was free or given with --force.                                   *)
THEOREM LeavesOthersAlone == Spec => []OthersAreLeftAlone
<1>1. Careful => OthersAreLeftAlone
    BY DEF Careful
<1> QED
    BY CarefulInit, CarefulNext, <1>1, PTL DEF Spec

--------------------------------------------------------------------------------
(* What is on the disk, and what a command is about to save there.         *)
FilesAreGenuine ==
    /\ Careful
    /\ \A p \in Paths : disk[p] # NoFile => Genuine(disk[p])
    /\ pc \notin {"idle", "read"} => IsFile(document.text) /\ ~IsSigned(document.text)
    /\ pc \in {"template", "create", "write"} => Genuine(output)

LEMMA WholeIsPrefix ==
    ASSUME NEW file, IsFile(file)
    PROVE  file \in Prefixes(file)
<1>1. Len(file) \in 0 .. Len(file)
    BY FileIsSegment
<1>2. SubSeq(file, 1, Len(file)) = file
    BY SubSeqFull DEF IsFile
<1> QED
    BY <1>1, <1>2 DEF Prefixes

LEMMA NothingIsGenuine == Genuine(<< >>)
<1>1. IsFile(<< >>)
    BY EmptySeq, SeqIsFile
<1>2. DOMAIN << >> = {}
    OBVIOUS
<1> QED
    BY <1>1, <1>2 DEF Genuine, IsSigned

LEMMA GenuineInit == Init => FilesAreGenuine
<1> SUFFICES ASSUME Init PROVE FilesAreGenuine
    OBVIOUS
<1>1. ASSUME NEW p \in Paths, disk[p] # NoFile PROVE Genuine(disk[p])
    <2>1. IsFile(disk[p]) /\ (IsSigned(disk[p]) => disk[p] \in RetailFiles)
        BY <1>1, SkuToolAssumption DEF Init
    <2> QED
        BY <2>1, WholeIsPrefix DEF Genuine
<1> QED
    BY <1>1, CarefulInit DEF Init, FilesAreGenuine

LEMMA GenuineNext == FilesAreGenuine /\ [Next]_vars => FilesAreGenuine'
<1> SUFFICES ASSUME FilesAreGenuine, [Next]_vars PROVE FilesAreGenuine'
    OBVIOUS
<1>0. Careful'
    BY CarefulNext DEF FilesAreGenuine
<1> DEFINE Kept == \A p \in Paths : disk'[p] # NoFile => Genuine(disk'[p])
<1>1. ASSUME NEW c \in Commands, Begin(c) PROVE FilesAreGenuine'
    BY <1>0, <1>1 DEF FilesAreGenuine, Begin
<1>2. CASE Read
    <2> DEFINE input == disk[command.in]
    <2>1. command \in Commands
        BY <1>2 DEF FilesAreGenuine, Careful, Read
    <2>2. command.in \in Paths /\ command.verb \in {"view", "check", "decode", "encode"}
        BY <2>1, SkuToolAssumption
    <2>3. CASE Throw
        BY <1>0, <1>2, <2>3 DEF FilesAreGenuine, Read, Throw, Return
    <2>4. CASE document' # Rejected /\ Proceed(command.verb)
        <3>1. input # NoFile /\ document' = Decode(input)
            BY <1>2, <2>4 DEF Read
        <3>2. IsFile(document'.text) /\ ~IsSigned(document'.text)
            BY <2>2, <3>1, DecodedIsText DEF FilesAreGenuine, Genuine
        <3> QED
            BY <1>0, <1>2, <2>2, <2>4, <3>2 DEF FilesAreGenuine, Read, Proceed
    <2> QED
        BY <1>2, <2>3, <2>4 DEF Read
<1>3. CASE View
    BY <1>0, <1>3 DEF FilesAreGenuine, View, Return, work
<1>4. CASE Check
    BY <1>0, <1>4 DEF FilesAreGenuine, Check, Return, work
<1>5. CASE DecodeText
    <2>1. Genuine(document.text)
        BY <1>5 DEF FilesAreGenuine, DecodeText, Genuine
    <2> QED
        BY <1>0, <1>5, <2>1 DEF FilesAreGenuine, DecodeText, Proceed
<1>6. CASE EncodeText
    <2>1. CASE Throw /\ UNCHANGED output
        BY <1>0, <1>6, <2>1 DEF FilesAreGenuine, EncodeText, Throw, Return
    <2>2. CASE /\ Validates(document.text)
               /\ output' = Encrypt(Padded(document.text))
               /\ Proceed(IF command.template = NoPath THEN "create" ELSE "template")
        <3>1. Genuine(output')
            BY <2>2, EncryptedIsFile DEF Genuine
        <3>2. UNCHANGED <<document, disk>>
            BY <1>6, <2>2 DEF EncodeText, Proceed
        <3> QED
            BY <1>0, <1>6, <3>1, <3>2 DEF FilesAreGenuine, EncodeText
    <2> QED
        BY <1>6, <2>1, <2>2 DEF EncodeText
<1>7. CASE Template
    <2> DEFINE retail == disk[command.template]
    <2>1. UNCHANGED <<disk, document>>
        BY <1>7 DEF Template, Proceed, Throw
    <2>2. CASE Throw /\ UNCHANGED output
        BY <1>0, <1>7, <2>1, <2>2 DEF FilesAreGenuine, Template, Throw, Return
    <2>3. CASE /\ retail # NoFile
               /\ SamePayload(retail, output)
               /\ output' = SubSeq(retail, 1, HeaderSize) \o output
        <3>1. Genuine(retail)
            BY <1>7, <2>3 DEF FilesAreGenuine, Careful, Template
        <3>2. IsFile(output)
            BY <1>7 DEF FilesAreGenuine, Template, Genuine
        <3>3. output' = retail
            BY <2>3, <3>1, <3>2, TemplateIsOutput DEF Genuine
        <3>4. Genuine(output')
            BY <3>1, <3>3
        <3> QED
            BY <1>0, <1>7, <2>1, <3>4 DEF FilesAreGenuine, Template
    <2> QED
        BY <1>7, <2>2, <2>3 DEF Template
<1>8. CASE Create
    <2>1. CASE Throw
        BY <1>0, <1>8, <2>1 DEF FilesAreGenuine, Create, Throw, Return, work
    <2>2. CASE disk' = [disk EXCEPT ![command.out] = << >>]
        <3>1. Kept
            BY <2>2, NothingIsGenuine DEF FilesAreGenuine, Careful
        <3> QED
            BY <1>0, <1>8, <3>1 DEF FilesAreGenuine, Create, work
    <2> QED
        BY <1>8, <2>1, <2>2 DEF Create
<1>9. CASE Write
    <2>1. Genuine(output)
        BY <1>9 DEF FilesAreGenuine, Write
    <2>2. PICK file : Genuine(file) /\ disk' = [disk EXCEPT ![command.out] = file]
        BY <1>9, <2>1, PrefixIsGenuine DEF Write
    <2>3. Kept
        BY <2>2 DEF FilesAreGenuine, Careful
    <2> QED
        BY <1>0, <1>9, <2>3 DEF FilesAreGenuine, Write, Return, work
<1>10. CASE Die
    BY <1>0, <1>10 DEF FilesAreGenuine, Die, Throw, Return, work
<1>11. ASSUME NEW e \in Edits, Edit(e[1], e[2]) PROVE FilesAreGenuine'
    <2>1. Genuine(e[2])
        BY SkuToolAssumption DEF Genuine
    <2>2. disk' = [disk EXCEPT ![e[1]] = e[2]] /\ UNCHANGED <<pc, document, output>>
        BY <1>11 DEF Edit, work
    <2>3. Kept
        BY <2>1, <2>2 DEF FilesAreGenuine, Careful
    <2> QED
        BY <1>0, <2>2, <2>3 DEF FilesAreGenuine
<1>12. CASE UNCHANGED vars
    BY <1>0, <1>12 DEF vars, work, FilesAreGenuine
<1> QED
    BY <1>1, <1>2, <1>3, <1>4, <1>5, <1>6, <1>7, <1>8, <1>9, <1>10, <1>11, <1>12 DEF Next

(* No signature header ever stands before a payload that was not signed     *)
(* with it, whatever is edited, broken off or forced in between.           *)
THEOREM HeadersAreRetail == Spec => []SignedIsRetail
<1>1. FilesAreGenuine => SignedIsRetail
    BY DEF FilesAreGenuine, SignedIsRetail, Genuine
<1> QED
    BY GenuineInit, GenuineNext, <1>1, PTL DEF Spec

--------------------------------------------------------------------------------
(* What validate has let through.                                          *)
Fits(text) ==
    /\ \A key \in Known :
           Cardinality(Lines(text, key)) <= (IF key = "signon_url" THEN 2 ELSE 1)
    /\ Required \subseteq {text[i][1] : i \in DOMAIN text}
    /\ \E language \in 0 .. 12 :
           /\ Option(text, "default_language") = language
           /\ Includes(Option(text, "ui_language"), language)
           /\ Includes(Option(text, "audio_language"), language)

(* Of the lines with a key, the last has all others before it.             *)
LEMMA LastLine ==
    ASSUME NEW text, IsFile(text), NEW key, Lines(text, key) # {}
    PROVE  /\ IsFiniteSet(Lines(text, key))
           /\ \E i \in Lines(text, key) :
                 Lines(text, key) = Earlier(text, i) \cup {i} /\ i \notin Earlier(text, i)
<1> DEFINE L == Lines(text, key)
<1>1. Len(text) \in Nat /\ DOMAIN text = 1 .. Len(text)
    BY FileIsSegment
<1>2. L \subseteq 1 .. Len(text)
    BY <1>1 DEF Lines
<1>3. IsFiniteSet(L)
    <2>1. IsFiniteSet(1 .. Len(text))
        BY <1>1, FS_Interval
    <2> QED
        BY <1>2, <2>1, FS_Subset
<1>4. PICK i \in L : \A j \in L : j <= i
    <2> DEFINE U == {Len(text) - j : j \in L}
    <2>1. U \subseteq Nat /\ U # {}
        BY <1>1, <1>2
    <2>2. PICK u \in U : \A v \in U : ~(<<v, u>> \in OpToRel(<, Nat))
        BY <2>1, NatLessThanWellFounded, WFMin
    <2>3. PICK i \in L : u = Len(text) - i
        OBVIOUS
    <2>4. ASSUME NEW j \in L PROVE j <= i
        <3>1. ~(Len(text) - j < u)
            BY <2>1, <2>2 DEF OpToRel
        <3> QED
            BY <1>1, <1>2, <2>3, <3>1
    <2> QED
        BY <2>4
<1>5. Earlier(text, i) = {j \in L : j < i}
    BY DEF Earlier, Lines
<1>6. L = Earlier(text, i) \cup {i} /\ i \notin Earlier(text, i)
    BY <1>1, <1>2, <1>4, <1>5
<1> QED
    BY <1>3, <1>6

LEMMA AtMost ==
    ASSUME NEW n \in Nat, NEW T, IsFiniteSet(T), Cardinality(T) < n, NEW x, x \notin T
    PROVE  Cardinality(T \cup {x}) <= n
<1>1. Cardinality(T) \in Nat /\ Cardinality(T \cup {x}) = Cardinality(T) + 1
    BY FS_CardinalityType, FS_AddElement
<1> QED
    BY <1>1

LEMMA ValidFits ==
    ASSUME NEW text, IsFile(text), Validates(text)
    PROVE  Fits(text)
<1>1. ASSUME NEW key \in Known
      PROVE  Cardinality(Lines(text, key)) <= (IF key = "signon_url" THEN 2 ELSE 1)
    <2>1. CASE Lines(text, key) = {}
        BY <2>1, FS_EmptySet
    <2>2. CASE Lines(text, key) # {}
        <3>1. PICK i \in Lines(text, key) :
                  Lines(text, key) = Earlier(text, i) \cup {i} /\ i \notin Earlier(text, i)
            BY <2>2, LastLine
        <3>2. IsFiniteSet(Earlier(text, i))
            BY <2>2, <3>1, LastLine, FS_Subset
        <3>3. i \in DOMAIN text /\ text[i][1] = key
            BY DEF Lines
        <3>4. LineAccepted(text, i)
            BY <3>3 DEF Validates
        <3>5. CASE key = "signon_url"
            <4>1. Cardinality(Earlier(text, i)) < 2
                BY <3>3, <3>4, <3>5 DEF LineAccepted
            <4>2. Cardinality(Lines(text, key)) <= 2
                BY <3>1, <3>2, <4>1, AtMost
            <4> QED
                BY <3>5, <4>2
        <3>6. CASE key # "signon_url"
            <4>1. key # "comment"
                BY DEF Known, NumberKeys
            <4>2. Earlier(text, i) = {}
                BY <3>3, <3>4, <3>6, <4>1 DEF LineAccepted
            <4>3. Cardinality(Lines(text, key)) = 1
                BY <3>1, <4>2, FS_Singleton
            <4> QED
                BY <3>6, <4>3
        <3> QED
            BY <3>5, <3>6
    <2> QED
        BY <2>1, <2>2
<1>2. Required \subseteq {text[i][1] : i \in DOMAIN text}
    BY DEF Validates, Lines
<1>3. \E language \in 0 .. 12 :
          /\ Option(text, "default_language") = language
          /\ Includes(Option(text, "ui_language"), language)
          /\ Includes(Option(text, "audio_language"), language)
    BY DEF Validates, MasksAccepted
<1> QED
    BY <1>1, <1>2, <1>3 DEF Fits

(* The text of a command that is past its checks is the one that validate   *)
(* has seen.                                                               *)
Checked ==
    /\ FilesAreGenuine
    /\ pc # "idle" => result = "running"
    /\ pc \in {"view", "check", "decode", "encode"} => command.verb = pc
    /\ pc = "template" => command.verb = "encode"
    /\ pc \in {"create", "write"} => command.verb \in {"decode", "encode"}
    /\ \/ pc \in {"template", "create", "write"} /\ command.verb = "encode"
       \/ result = "done" /\ command.verb \in {"check", "encode"}
       => IsFile(document.text) /\ Validates(document.text)

LEMMA CheckedNext == Checked /\ [Next]_vars => Checked'
<1> SUFFICES ASSUME Checked, [Next]_vars PROVE Checked'
    OBVIOUS
<1>0. FilesAreGenuine /\ FilesAreGenuine'
    BY GenuineNext DEF Checked
<1>1. ASSUME NEW c \in Commands, Begin(c) PROVE Checked'
    BY <1>0, <1>1 DEF Checked, Begin
<1>2. CASE Read
    <2>1. command.verb \in {"view", "check", "decode", "encode"}
        BY <1>0, <1>2, SkuToolAssumption DEF FilesAreGenuine, Careful, Read
    <2> QED
        BY <1>0, <1>2, <2>1 DEF Checked, Read, Throw, Return, Proceed
<1>3. CASE View
    BY <1>0, <1>3 DEF Checked, View, Return, work
<1>4. CASE Check
    BY <1>0, <1>4 DEF Checked, FilesAreGenuine, Check, Return, work
<1>5. CASE DecodeText
    BY <1>0, <1>5 DEF Checked, DecodeText, Proceed
<1>6. CASE EncodeText
    BY <1>0, <1>6 DEF Checked, FilesAreGenuine, EncodeText, Throw, Return, Proceed
<1>7. CASE Template
    BY <1>0, <1>7 DEF Checked, Template, Throw, Return, Proceed
<1>8. CASE Create
    BY <1>0, <1>8 DEF Checked, Create, Throw, Return, work
<1>9. CASE Write
    BY <1>0, <1>9 DEF Checked, Write, Return, work
<1>10. CASE Die
    BY <1>0, <1>10 DEF Checked, Die, Throw, Return, work
<1>11. ASSUME NEW e \in Edits, Edit(e[1], e[2]) PROVE Checked'
    BY <1>0, <1>11 DEF Checked, Edit, work
<1>12. CASE UNCHANGED vars
    BY <1>0, <1>12 DEF vars, work, Checked
<1> QED
    BY <1>1, <1>2, <1>3, <1>4, <1>5, <1>6, <1>7, <1>8, <1>9, <1>10, <1>11, <1>12 DEF Next

(* A text that check or encode accepts gives each option at most once, the  *)
(* required ones all, and a default language that both masks include.      *)
THEOREM AcceptedFits == Spec => []AcceptedFitsTheClient
<1>1. Init => Checked
    BY GenuineInit DEF Init, Checked
<1>2. Checked => AcceptedFitsTheClient
    BY ValidFits DEF Checked, AcceptedFitsTheClient, Fits
<1> QED
    BY <1>1, CheckedNext, <1>2, PTL DEF Spec

--------------------------------------------------------------------------------
(* Blocks.                                                                 *)

LEMMA Products ==
    /\ \A a, b \in Nat : a * b \in Nat /\ a * b = b * a
    /\ \A a, b, c \in Nat : a <= b => a * c <= b * c
    /\ \A a, c \in Nat : (a + 1) * c = a * c + c
  OBVIOUS

(* A quotient is known by the multiples around it.                         *)
LEMMA Quotient ==
    ASSUME NEW n \in Nat, NEW b \in Nat \ {0}, NEW q \in Nat, q * b <= n, n < (q + 1) * b
    PROVE  n \div b = q /\ n % b = n - q * b
<1> DEFINE d == n \div b
<1>1. d \in Nat /\ n % b \in 0 .. b - 1 /\ n = b * d + (n % b)
    OBVIOUS
<1>2. d * b <= n /\ n < (d + 1) * b
    BY <1>1
<1> HIDE DEF d
<1>3. ~(d < q)
    <2>1. SUFFICES ASSUME d < q PROVE FALSE
        OBVIOUS
    <2>2. d + 1 <= q
        BY <1>1, <2>1
    <2>3. (d + 1) * b <= q * b
        BY <1>1, <2>2, Products
    <2> QED
        BY <1>1, <1>2, <2>3
<1>4. ~(q < d)
    <2>1. SUFFICES ASSUME q < d PROVE FALSE
        OBVIOUS
    <2>2. q + 1 <= d
        BY <1>1, <2>1
    <2>3. (q + 1) * b <= d * b
        BY <1>1, <2>2, Products
    <2> QED
        BY <1>1, <1>2, <2>3
<1>5. d = q
    BY <1>1, <1>3, <1>4
<1> QED
    BY <1>1, <1>5 DEF d

(* The size of a padded text.                                              *)
Blocks(n) == (n + BlockSize - 1) \div BlockSize

LEMMA PaddedSize ==
    ASSUME NEW n \in Nat \ {0}
    PROVE  LET m == Blocks(n) * BlockSize
           IN  /\ m \in Nat /\ n <= m
               /\ (m - 1) \div BlockSize = Blocks(n) - 1
               /\ m % BlockSize = 0
               /\ n <= MaxSize => m <= MaxSize
<1> DEFINE k == Blocks(n)
           m == k * BlockSize
<1>0. BlockSize \in Nat /\ BlockSize > 0 /\ n \in Nat /\ n > 0
    BY CodecAssumption
<1>1. k \in Nat
    <2>1. n + BlockSize - 1 \in Nat
        BY <1>0
    <2> QED
        BY <1>0, <2>1 DEF Blocks
<1>2. m \in Nat
    BY <1>0, <1>1
<1>3. n + BlockSize - 1 < (k + 1) * BlockSize /\ k * BlockSize <= n + BlockSize - 1
    <2>1. n + BlockSize - 1 \in Nat
        BY <1>0
    <2> DEFINE r == (n + BlockSize - 1) % BlockSize
    <2>2. r \in 0 .. BlockSize - 1 /\ n + BlockSize - 1 = BlockSize * k + r
        BY <1>0, <2>1 DEF Blocks
    <2> HIDE DEF r, k
    <2> QED
        BY <1>0, <1>1, <2>2
<1> HIDE DEF k
<1>4. (k + 1) * BlockSize = m + BlockSize
    BY <1>0, <1>1
<1>5. n <= m
    BY <1>0, <1>2, <1>3, <1>4
<1>6. k >= 1
    BY <1>0, <1>1, <1>5
<1>7. (k - 1) * BlockSize = m - BlockSize
    BY <1>0, <1>1
<1>8. (m - 1) \div BlockSize = k - 1
    <2>1. m - 1 \in Nat /\ k - 1 \in Nat
        BY <1>0, <1>1, <1>2, <1>5, <1>6
    <2>2. (k - 1) * BlockSize <= m - 1 /\ m - 1 < ((k - 1) + 1) * BlockSize
        BY <1>0, <1>1, <1>2, <1>7
    <2> QED
        BY <1>0, <2>1, <2>2, Quotient
<1>9. m % BlockSize = 0
    <2>1. k * BlockSize <= m /\ m < (k + 1) * BlockSize
        BY <1>0, <1>2, <1>4
    <2> QED
        BY <1>0, <1>1, <1>2, <2>1, Quotient
<1>10. ASSUME n <= MaxSize PROVE m <= MaxSize
    <2> DEFINE q == MaxSize \div BlockSize
    <2>1. MaxSize \in Nat /\ q \in Nat /\ MaxSize = BlockSize * q + (MaxSize % BlockSize)
          /\ MaxSize % BlockSize = 0
        BY <1>0, CodecAssumption
    <2> HIDE DEF q
    <2>2. MaxSize = q * BlockSize
        BY <1>0, <2>1
    <2>3. ~(q < k)
        <3>1. SUFFICES ASSUME q < k PROVE FALSE
            OBVIOUS
        <3>2. q + 1 <= k
            BY <1>1, <2>1, <3>1
        <3>3. (q + 1) * BlockSize <= k * BlockSize /\ (q + 1) * BlockSize = q * BlockSize + BlockSize
            BY <1>0, <1>1, <2>1, <3>2, Products
        <3> QED
            BY <1>0, <1>1, <1>2, <1>3, <1>10, <2>1, <2>2, <3>3
    <2>4. k <= q
        BY <1>1, <2>1, <2>3
    <2>5. k * BlockSize <= q * BlockSize
        BY <1>0, <1>1, <2>1, <2>4, Products
    <2> QED
        BY <2>2, <2>5
<1> QED
    BY <1>2, <1>5, <1>8, <1>9, <1>10 DEF k
--------------------------------------------------------------------------------
(* Decoding undoes encoding.                                               *)
LEMMA PaddedText ==
    ASSUME NEW text, IsFile(text), Validates(text)
    PROVE  LET plain == Padded(text)
               m == Blocks(Len(text)) * BlockSize
           IN  /\ IsFile(plain) /\ Len(plain) = m /\ DOMAIN plain = 1 .. m
               /\ Len(text) \in Nat \ {0} /\ Len(text) <= m /\ m \in Nat /\ m <= MaxSize
               /\ \A i \in 1 .. Len(text) : plain[i] = text[i]
               /\ \A i \in Len(text) + 1 .. m : plain[i] = Nul
<1> DEFINE plain == Padded(text)
           m == Blocks(Len(text)) * BlockSize
<1>1. Len(text) \in Nat \ {0} /\ Len(text) <= MaxSize
    BY CodecAssumption DEF Validates
<1>2. m \in Nat /\ Len(text) <= m /\ m <= MaxSize
    BY <1>1, PaddedSize
<1>3. plain = [i \in 1 .. m |-> IF i <= Len(text) THEN text[i] ELSE Nul]
    BY DEF Padded, Blocks
<1> HIDE DEF plain, m
<1>4. plain = [i \in 1 .. m |-> plain[i]]
    BY <1>3
<1>5. IsFile(plain) /\ Len(plain) = m /\ DOMAIN plain = 1 .. m
    BY <1>2, <1>4, SegmentIsFile
<1>6. /\ \A i \in 1 .. Len(text) : plain[i] = text[i]
      /\ \A i \in Len(text) + 1 .. m : plain[i] = Nul
    BY <1>1, <1>2, <1>3
<1> QED
    BY <1>1, <1>2, <1>5, <1>6 DEF plain, m

LEMMA ValidLines ==
    ASSUME NEW text, Validates(text), NEW i \in DOMAIN text
    PROVE  IsLine(text[i]) /\ text[i] # Nul
<1>1. text[i][1] \in Known \cup {"comment"}
    BY DEF Validates, LineAccepted
<1>2. text[i][1] \notin {"nul", "header", "cipher"}
    BY <1>1 DEF Known, NumberKeys
<1>3. Nul[1] = "nul"
    BY DEF Nul
<1> QED
    BY <1>2, <1>3 DEF IsLine

(* The last byte of a cipher tells the whole plaintext.                    *)
LEMMA DecryptedAgain ==
    ASSUME NEW text, IsFile(text), Validates(text)
    PROVE  Decrypt(Encrypt(Padded(text))) = Padded(text)
<1> DEFINE plain == Padded(text)
           k == Blocks(Len(text))
           m == k * BlockSize
           e == Encrypt(plain)
<1>1. /\ IsFile(plain) /\ Len(plain) = m /\ DOMAIN plain = 1 .. m
      /\ Len(text) \in Nat \ {0} /\ Len(text) <= m /\ m \in Nat
    BY PaddedText
<1>2. (m - 1) \div BlockSize = k - 1
    BY <1>1, PaddedSize
<1>3. ((m - 1) \div BlockSize + 1) * BlockSize = m
    <2>1. k \in Int
        BY <1>1, CodecAssumption DEF Blocks
    <2>2. (k - 1) + 1 = k
        BY <2>1
    <2> QED
        BY <1>2, <2>2
<1> HIDE DEF k, m
<1>4. SubSeq(plain, 1, m) = plain
    BY <1>1, SubSeqFull DEF IsFile
<1> HIDE DEF plain
<1>5. /\ DOMAIN e = 1 .. m
      /\ \A i \in 1 .. m : e[i] = <<"cipher", SubSeq(plain, 1, ((i - 1) \div BlockSize + 1) * BlockSize),
                                  (i - 1) % BlockSize>>
    BY <1>1 DEF Encrypt
<1>6. Len(e) = m
    <2>1. e = [i \in 1 .. m |-> e[i]]
        BY <1>1 DEF Encrypt
    <2> HIDE DEF e
    <2> QED
        BY <1>1, <2>1, SegmentIsFile
<1>7. m \in 1 .. m
    BY <1>1
<1>8. Last(e) = <<"cipher", plain, (m - 1) % BlockSize>>
    BY <1>3, <1>4, <1>5, <1>6, <1>7 DEF Last
<1>9. Last(e)[2] = plain
    BY <1>8
<1>10. [i \in DOMAIN e |-> Last(e)[2][i]] = plain
    <2>1. plain = [i \in 1 .. m |-> plain[i]]
        BY <1>1, FileIsSegment
    <2> QED
        BY <1>5, <1>9, <2>1
<1>11. \A i \in DOMAIN e : e[i][1] = "cipher"
    BY <1>5
<1> QED
    BY <1>10, <1>11 DEF Decrypt, plain

LEMMA StrippedAgain ==
    ASSUME NEW text, IsFile(text), Validates(text)
    PROVE  Stripped(Padded(text)) = text
<1> DEFINE plain == Padded(text)
           n == Len(text)
           m == Blocks(n) * BlockSize
           T == {i \in 1 .. Len(plain) : plain[i] # Nul}
<1>1. /\ IsFile(plain) /\ Len(plain) = m /\ n \in Nat \ {0} /\ n <= m /\ m \in Nat
      /\ \A i \in 1 .. n : plain[i] = text[i]
      /\ \A i \in n + 1 .. m : plain[i] = Nul
    BY PaddedText
<1>2. Stripped(plain) = SubSeq(plain, 1, IF T # {} THEN Max(T) ELSE 0)
    BY DEF Stripped, SelectLastInSeq
<1> HIDE DEF plain, m
<1>3. text[n] # Nul
    <2>1. n \in DOMAIN text
        BY <1>1, FileIsSegment
    <2> QED
        BY <2>1, ValidLines
<1>4. n \in T
    BY <1>1, <1>3
<1>5. \A i \in T : i <= n
    BY <1>1
<1>6. T \subseteq Nat
    BY <1>1
<1> HIDE DEF T
<1>7. Max(T) = n
    <2>1. \A y \in T : n >= y
        BY <1>1, <1>5, <1>6
    <2>2. Max(T) \in T /\ \A y \in T : Max(T) >= y
        BY <1>4, <2>1 DEF Max
    <2>3. Max(T) >= n
        BY <1>4, <2>2
    <2>4. Max(T) <= n /\ Max(T) \in Nat
        BY <1>5, <1>6, <2>2
    <2>5. n \in Nat
        BY <1>1
    <2> QED
        BY <2>3, <2>4, <2>5
<1>8. Stripped(plain) = SubSeq(plain, 1, n)
    BY <1>2, <1>4, <1>7
<1> DEFINE part == SubSeq(plain, 1, n)
<1>9. /\ IsFile(part) /\ Len(part) = n /\ \A i \in 1 .. n : part[i] = plain[i]
    <2>1. n \in 0 .. Len(plain)
        BY <1>1
    <2> QED
        BY <1>1, <2>1, PartIsFile
<1> HIDE DEF part
<1>10. part = [i \in 1 .. n |-> part[i]] /\ text = [i \in 1 .. n |-> text[i]]
    BY <1>9, FileIsSegment
<1>11. part = text
    BY <1>1, <1>9, <1>10
<1> QED
    BY <1>8, <1>11 DEF part, plain
--------------------------------------------------------------------------------
(* Files whose texts can be read again: decode passes on any text that is   *)
(* made of lines, but reads a text back only if it begins with the version. *)
Text(text) == text # << >> /\ IsPlaintext(text) /\ Len(text) <= MaxSize + HeaderSize
Readable(file) == Decode(file) # Rejected => Text(Decode(file).text)

(* Whatever part of the file a save that was broken off has left.           *)
Safe(file) == IsFile(file) /\ \A prefix \in Prefixes(file) : Readable(prefix)

(* A cipher of texts that begin with the version.                          *)
Enciphers(payload) ==
    \A i \in DOMAIN payload :
        payload[i][1] = "cipher" /\ payload[i][2][1] = <<"version", FALSE, 2>>

(* Units before and after the header.                                      *)
LEMMA PayloadUnits ==
    ASSUME NEW file, IsFile(file), IsSigned(file), Len(file) > HeaderSize
    PROVE  /\ DOMAIN Payload(file) = 1 .. Len(file) - HeaderSize
           /\ \A i \in 1 .. Len(file) - HeaderSize : Payload(file)[i] = file[HeaderSize + i]
<1> DEFINE p == SubSeq(file, HeaderSize + 1, Len(file))
<1>1. Len(file) \in Nat /\ HeaderSize \in Nat
    BY FileIsSegment, CodecAssumption
<1>2. p = [i \in 1 .. 1 + Len(file) - (HeaderSize + 1) |-> file[i + (HeaderSize + 1) - 1]]
    BY <1>1, SubSeqProperties
<1>3. 1 + Len(file) - (HeaderSize + 1) = Len(file) - HeaderSize
    BY <1>1
<1>4. \A i \in 1 .. Len(file) - HeaderSize : i + (HeaderSize + 1) - 1 = HeaderSize + i
    BY <1>1
<1> HIDE DEF p
<1>5. /\ DOMAIN p = 1 .. Len(file) - HeaderSize
      /\ \A i \in 1 .. Len(file) - HeaderSize : p[i] = file[HeaderSize + i]
    BY <1>2, <1>3, <1>4
<1> QED
    BY <1>5 DEF p, Payload

LEMMA StrippedBegins ==
    ASSUME NEW plain, IsFile(plain), Stripped(plain) # << >>
    PROVE  /\ Len(plain) >= 1 /\ Stripped(plain)[1] = plain[1]
           /\ Len(Stripped(plain)) <= Len(plain)
<1> DEFINE T == {i \in 1 .. Len(plain) : plain[i] # Nul}
           k == IF T # {} THEN Max(T) ELSE 0
<1>1. Len(plain) \in Nat
    BY FileIsSegment
<1>2. Stripped(plain) = SubSeq(plain, 1, k)
    BY DEF Stripped, SelectLastInSeq
<1>3. T # {}
    <2>1. SUFFICES ASSUME T = {} PROVE FALSE
        OBVIOUS
    <2>2. k = 0
        BY <2>1
    <2>3. SubSeq(plain, 1, 0) = << >>
        BY <1>1, SubSeqEmpty DEF IsFile
    <2> QED
        BY <1>2, <2>2, <2>3
<1>4. Max(T) \in 1 .. Len(plain)
    <2>1. T \subseteq 1 .. Len(plain)
        OBVIOUS
    <2> HIDE DEF T
    <2>2. Max(T) \in T
        BY <1>1, <1>3, <2>1, MaxIsMember
    <2> QED
        BY <2>1, <2>2
<1>5. k = Max(T)
    BY <1>3
<1> HIDE DEF k, T
<1>6. k \in 1 .. Len(plain) /\ k \in 0 .. Len(plain)
    BY <1>1, <1>4, <1>5
<1>7. Len(SubSeq(plain, 1, k)) = k /\ SubSeq(plain, 1, k)[1] = plain[1]
    BY <1>1, <1>6, PartIsFile
<1> QED
    BY <1>1, <1>2, <1>6, <1>7

(* What is decrypted of a beginning of such a cipher begins with the version. *)
LEMMA DecryptedIsText ==
    ASSUME NEW payload, IsFile(payload), Enciphers(payload), Stripped(Decrypt(payload)) # << >>
    PROVE  LET text == Stripped(Decrypt(payload))
           IN  IsPlaintext(text) /\ Len(text) <= Len(payload)
<1> DEFINE made == [i \in DOMAIN payload |-> Last(payload)[2][i]]
           plain == Decrypt(payload)
<1>1. Len(payload) \in Nat /\ DOMAIN payload = 1 .. Len(payload)
    BY FileIsSegment
<1>2. IsFile(plain)
    BY DecryptIsFile
<1>3. Len(plain) >= 1 /\ Stripped(plain)[1] = plain[1] /\ Len(Stripped(plain)) <= Len(plain)
    BY <1>2, StrippedBegins
<1>4. plain = made
    <2>1. plain # << >>
        <3>1. Len(<< >>) = 0
            OBVIOUS
        <3> QED
            BY <1>3, <3>1
    <2> QED
        BY <2>1 DEF Decrypt
<1>5. Len(plain) = Len(payload)
    <2>1. made = [i \in 1 .. Len(payload) |-> made[i]]
        BY <1>1
    <2> QED
        BY <1>1, <1>4, <2>1, SegmentIsFile
<1>6. Len(payload) >= 1
    BY <1>3, <1>5
<1>7. Last(payload)[2][1] = <<"version", FALSE, 2>>
    <2>1. Len(payload) \in DOMAIN payload
        BY <1>1, <1>6
    <2> QED
        BY <2>1 DEF Enciphers, Last
<1>8. plain[1] = <<"version", FALSE, 2>>
    <2>1. 1 \in DOMAIN payload
        BY <1>1, <1>6
    <2>2. made[1] = Last(payload)[2][1]
        BY <2>1
    <2> QED
        BY <1>4, <1>7, <2>2
<1> HIDE DEF plain, made
<1>9. IsPlaintext(Stripped(plain))
    BY <1>3, <1>8 DEF IsPlaintext
<1> QED
    BY <1>3, <1>5, <1>9 DEF plain

Legible(file) ==
    \/ file = << >>
    \/ IsPlaintext(file)
    \/ Enciphers(Payload(file))
    \/ IsSigned(file) /\ Len(file) <= HeaderSize

LEMMA LegibleIsReadable ==
    ASSUME NEW file, IsFile(file), Legible(file)
    PROVE  Readable(file)
<1> DEFINE text == Stripped(Decrypt(Payload(file)))
<1>1. SUFFICES ASSUME Decode(file) # Rejected PROVE Text(Decode(file).text)
    BY DEF Readable
<1>2. file # << >> /\ Len(file) <= MaxSize + HeaderSize
    <2>1. Len(file) \in Nat /\ MaxSize \in Nat /\ HeaderSize \in Nat
        BY FileIsSegment, CodecAssumption
    <2>2. file # << >> /\ ~(Len(file) > MaxSize + HeaderSize)
        BY <1>1 DEF Decode
    <2> QED
        BY <2>1, <2>2
<1>3. CASE IsPlaintext(file)
    BY <1>1, <1>2, <1>3 DEF Decode, Text
<1>4. CASE ~IsPlaintext(file)
    <2>1. text # << >> /\ ~(IsSigned(file) /\ Len(file) <= HeaderSize)
        BY <1>1, <1>2, <1>4 DEF Decode
    <2>2. Decode(file).text = text
        BY <1>1, <1>2, <1>4 DEF Decode
    <2>3. IsFile(Payload(file)) /\ Enciphers(Payload(file))
        BY <1>2, <1>4, <2>1, PayloadIsFile DEF Legible
    <2>4. IsPlaintext(text) /\ Len(text) <= Len(Payload(file))
        BY <2>1, <2>3, DecryptedIsText
    <2>5. Len(Payload(file)) <= Len(file)
        <3>1. CASE ~IsSigned(file)
            BY <3>1, FileIsSegment DEF Payload
        <3>2. CASE IsSigned(file)
            <4>1. Len(file) \in Nat /\ HeaderSize \in Nat
                BY FileIsSegment, CodecAssumption
            <4>2. ~(Len(file) <= HeaderSize)
                BY <2>1, <3>2
            <4>3. DOMAIN Payload(file) = 1 .. Len(file) - HeaderSize
                BY <3>2, <4>1, <4>2, PayloadUnits
            <4>4. DOMAIN Payload(file) = 1 .. Len(Payload(file)) /\ Len(Payload(file)) \in Nat
                BY <2>3, FileIsSegment
            <4> HIDE DEF Payload
            <4>5. Len(Payload(file)) = Len(file) - HeaderSize
                BY <4>1, <4>2, <4>3, <4>4
            <4> QED
                BY <4>1, <4>5
        <3> QED
            BY <3>1, <3>2
    <2>6. Len(text) <= MaxSize + HeaderSize
        <3>1. Len(text) \in Nat /\ Len(Payload(file)) \in Nat /\ Len(file) \in Nat
              /\ MaxSize + HeaderSize \in Nat
            BY <2>3, DecryptIsFile, StrippedIsFile, FileIsSegment, CodecAssumption
        <3> HIDE DEF text
        <3> QED
            BY <1>2, <2>4, <2>5, <3>1
    <2> QED
        BY <2>1, <2>2, <2>4, <2>6 DEF Text
<1> QED
    BY <1>3, <1>4

LEMMA NothingIsReadable == IsFile(<< >>) /\ Readable(<< >>)
<1>1. IsFile(<< >>)
    BY EmptySeq, SeqIsFile
<1> QED
    BY <1>1 DEF Readable, Decode

LEMMA TextIsSafe ==
    ASSUME NEW text, IsFile(text), IsPlaintext(text)
    PROVE  Safe(text)
<1> SUFFICES ASSUME NEW k \in 0 .. Len(text) PROVE Readable(SubSeq(text, 1, k))
    BY DEF Safe, Prefixes
<1> DEFINE p == SubSeq(text, 1, k)
<1>1. IsFile(p) /\ Len(p) = k /\ \A i \in 1 .. k : p[i] = text[i]
    BY PartIsFile
<1>2. k \in Nat
    BY FileIsSegment
<1> SUFFICES Readable(p)
    BY DEF p
<1> HIDE DEF p
<1>3. CASE k = 0
    <2>1. p = << >>
        BY <1>1, <1>3, FileIsSegment
    <2>9. Legible(p)
        BY <1>1, <2>1 DEF Legible
    <2> QED
        BY <1>1, <2>9, LegibleIsReadable
<1>4. CASE k # 0
    <2>1. p[1] = text[1]
        BY <1>1, <1>2, <1>4
    <2>2. IsPlaintext(p)
        BY <2>1 DEF IsPlaintext
    <2>9. Legible(p)
        BY <1>1, <2>2 DEF Legible
    <2> QED
        BY <1>1, <2>9, LegibleIsReadable
<1> QED
    BY <1>3, <1>4

(* With a signature header in front or without.                            *)
LEMMA CipherIsSafe ==
    ASSUME NEW file, IsFile(file), file # << >>,
           IsSigned(file) => Len(file) > HeaderSize, Enciphers(Payload(file))
    PROVE  Safe(file)
<1> SUFFICES ASSUME NEW k \in 0 .. Len(file) PROVE Readable(SubSeq(file, 1, k))
    BY DEF Safe, Prefixes
<1> DEFINE p == SubSeq(file, 1, k)
<1>1. IsFile(p) /\ DOMAIN p = 1 .. k /\ Len(p) = k /\ \A i \in 1 .. k : p[i] = file[i]
    BY PartIsFile
<1>2. k \in Nat /\ Len(file) \in Nat /\ HeaderSize \in Nat /\ DOMAIN file = 1 .. Len(file)
    BY FileIsSegment, CodecAssumption
<1> SUFFICES Readable(p)
    BY DEF p
<1> HIDE DEF p
<1>3. CASE k = 0
    <2>1. p = << >>
        BY <1>1, <1>3, FileIsSegment
    <2>9. Legible(p)
        BY <1>1, <2>1 DEF Legible
    <2> QED
        BY <1>1, <2>9, LegibleIsReadable
<1>4. CASE k # 0 /\ ~IsSigned(file)
    <2>1. ~IsSigned(p)
        BY <1>1, <1>2, <1>4 DEF IsSigned
    <2>2. Payload(p) = p /\ Payload(file) = file
        BY <1>4, <2>1 DEF Payload
    <2>3. Enciphers(p)
        <3>1. Enciphers(file)
            BY <2>2
        <3> SUFFICES ASSUME NEW i \in 1 .. k
                     PROVE  p[i][1] = "cipher" /\ p[i][2][1] = <<"version", FALSE, 2>>
            BY <1>1 DEF Enciphers
        <3>2. p[i] = file[i] /\ i \in DOMAIN file
            BY <1>1, <1>2
        <3> QED
            BY <3>1, <3>2 DEF Enciphers
    <2>9. Legible(p)
        BY <1>1, <2>2, <2>3 DEF Legible
    <2> QED
        BY <1>1, <2>9, LegibleIsReadable
<1>5. CASE k # 0 /\ IsSigned(file)
    <2>1. IsSigned(p)
        BY <1>1, <1>2, <1>5 DEF IsSigned
    <2>2. CASE k <= HeaderSize
        <3>1. Legible(p)
            BY <1>1, <2>1, <2>2 DEF Legible
        <3> QED
            BY <1>1, <3>1, LegibleIsReadable
    <2>3. CASE k > HeaderSize
        <3>1. /\ DOMAIN Payload(p) = 1 .. k - HeaderSize
              /\ \A i \in 1 .. k - HeaderSize : Payload(p)[i] = p[HeaderSize + i]
            BY <1>1, <2>1, <2>3, PayloadUnits
        <3>2. /\ DOMAIN Payload(file) = 1 .. Len(file) - HeaderSize
              /\ \A i \in 1 .. Len(file) - HeaderSize : Payload(file)[i] = file[HeaderSize + i]
            BY <1>5, PayloadUnits
        <3>3. \A i \in 1 .. k - HeaderSize :
                  i \in 1 .. Len(file) - HeaderSize /\ HeaderSize + i \in 1 .. k
            BY <1>2
        <3>4. \A i \in 1 .. k - HeaderSize : Payload(p)[i] = Payload(file)[i]
            BY <1>1, <3>1, <3>2, <3>3
        <3>5. Enciphers(Payload(p))
            <4> SUFFICES ASSUME NEW i \in 1 .. k - HeaderSize
                         PROVE  /\ Payload(p)[i][1] = "cipher"
                                /\ Payload(p)[i][2][1] = <<"version", FALSE, 2>>
                BY <3>1 DEF Enciphers
            <4>1. Payload(p)[i] = Payload(file)[i] /\ i \in DOMAIN Payload(file)
                BY <3>2, <3>3, <3>4
            <4> QED
                BY <4>1 DEF Enciphers
        <3>9. Legible(p)
            BY <1>1, <3>5 DEF Legible
        <3> QED
            BY <1>1, <3>9, LegibleIsReadable
    <2> QED
        BY <1>2, <2>2, <2>3
<1> QED
    BY <1>3, <1>4, <1>5

(* What encode makes of a text, without a template and with one.           *)
LEMMA EncodedIsCipher ==
    ASSUME NEW text, IsFile(text), Validates(text)
    PROVE  LET e == Encrypt(Padded(text))
           IN  /\ IsFile(e) /\ ~IsSigned(e) /\ e # << >> /\ ~IsPlaintext(e)
               /\ Len(e) % BlockSize = 0 /\ Len(e) <= MaxSize
               /\ Enciphers(e)
<1> DEFINE plain == Padded(text)
           m == Blocks(Len(text)) * BlockSize
           e == Encrypt(plain)
<1>1. /\ IsFile(plain) /\ Len(plain) = m /\ DOMAIN plain = 1 .. m
      /\ Len(text) \in Nat \ {0} /\ Len(text) <= m /\ m \in Nat /\ m <= MaxSize
      /\ \A i \in 1 .. Len(text) : plain[i] = text[i]
    BY PaddedText
<1>2. m % BlockSize = 0
    BY <1>1, PaddedSize
<1>3. IsFile(e) /\ ~IsSigned(e)
    BY EncryptedIsFile
<1>4. plain[1] = <<"version", FALSE, 2>>
    <2>1. 1 \in 1 .. Len(text)
        BY <1>1
    <2> QED
        BY <1>1, <2>1 DEF Validates
<1> HIDE DEF plain, m
<1>5. /\ DOMAIN e = 1 .. m
      /\ \A i \in 1 .. m : e[i] = <<"cipher", SubSeq(plain, 1, ((i - 1) \div BlockSize + 1) * BlockSize),
                                  (i - 1) % BlockSize>>
    BY <1>1 DEF Encrypt
<1>6. ASSUME NEW i \in 1 .. m
      PROVE  e[i][1] = "cipher" /\ e[i][2][1] = <<"version", FALSE, 2>>
    <2> DEFINE b == (i - 1) \div BlockSize
               l == (b + 1) * BlockSize
    <2>1. BlockSize \in Nat /\ BlockSize > 0 /\ i - 1 \in Nat
        BY CodecAssumption
    <2>2. b \in Nat
        BY <2>1
    <2> HIDE DEF b
    <2>3. l \in Nat /\ l >= 1
        BY <2>1, <2>2, Products
    <2> HIDE DEF l
    <2>4. SubSeq(plain, 1, l)[1] = plain[1]
        <3>1. SubSeq(plain, 1, l) = [j \in 1 .. 1 + l - 1 |-> plain[j + 1 - 1]]
            BY <2>3, SubSeqProperties
        <3>2. 1 \in 1 .. 1 + l - 1 /\ 1 + 1 - 1 = 1
            BY <2>3
        <3>3. SubSeq(plain, 1, l)[1] = plain[1 + 1 - 1]
            BY <3>1, <3>2
        <3> QED
            BY <3>2, <3>3
    <2>5. e[i][1] = "cipher" /\ e[i][2] = SubSeq(plain, 1, l)
        BY <1>5 DEF l, b
    <2> QED
        BY <1>4, <2>4, <2>5
<1>7. Len(e) = m
    BY <1>1, <1>3, <1>5, FileIsSegment
<1>8. 1 \in 1 .. m
    BY <1>1
<1>9. e # << >> /\ ~IsPlaintext(e)
    <2>1. e[1][1] = "cipher"
        BY <1>6, <1>8
    <2>2. DOMAIN << >> = {}
        OBVIOUS
    <2> QED
        BY <1>5, <1>8, <2>1, <2>2 DEF IsPlaintext
<1> HIDE DEF e
<1>10. Enciphers(e)
    BY <1>5, <1>6 DEF Enciphers
<1> QED
    BY <1>1, <1>2, <1>3, <1>7, <1>9, <1>10 DEF e, plain

LEMMA EncodedIsFaithful ==
    ASSUME NEW text, IsFile(text), Validates(text)
    PROVE  LET e == Encrypt(Padded(text))
           IN  Decode(e).text = text /\ Safe(e)
<1> DEFINE e == Encrypt(Padded(text))
<1>1. /\ IsFile(e) /\ ~IsSigned(e) /\ e # << >> /\ ~IsPlaintext(e)
      /\ Len(e) % BlockSize = 0 /\ Len(e) <= MaxSize
      /\ Enciphers(e)
    BY EncodedIsCipher
<1>2. Stripped(Decrypt(e)) = text
    BY DecryptedAgain, StrippedAgain
<1>3. text # << >> /\ \A i \in DOMAIN text : IsLine(text[i])
    <2>1. Len(text) >= 1
        BY DEF Validates
    <2>2. Len(<< >>) = 0
        OBVIOUS
    <2> QED
        BY <2>1, <2>2, ValidLines
<1> HIDE DEF e
<1>4. Payload(e) = e
    BY <1>1 DEF Payload
<1>5. ~(Len(e) > MaxSize + HeaderSize)
    <2>1. Len(e) \in Nat /\ MaxSize \in Nat /\ HeaderSize \in Nat
        BY <1>1, FileIsSegment, CodecAssumption
    <2> QED
        BY <1>1, <2>1
<1>6. Decode(e).text = text
    BY <1>1, <1>2, <1>3, <1>4, <1>5 DEF Decode
<1>7. Safe(e)
    BY <1>1, <1>4, CipherIsSafe
<1> QED
    BY <1>6, <1>7 DEF e

LEMMA TemplateIsFaithful ==
    ASSUME NEW text, IsFile(text), Validates(text),
           NEW retail, IsFile(retail), Decode(retail).format = "signed",
           SamePayload(retail, Encrypt(Padded(text)))
    PROVE  Decode(retail).text = text /\ Safe(retail)
<1> DEFINE e == Encrypt(Padded(text))
<1>1. IsFile(e) /\ e # << >> /\ Enciphers(e)
    BY EncodedIsCipher
<1>2. Stripped(Decrypt(e)) = text
    BY DecryptedAgain, StrippedAgain
<1> HIDE DEF e
<1>3. IsSigned(retail)
    BY DecodedIsText
<1>4. Len(retail) = Len(e) + HeaderSize /\ Payload(retail) = e
    BY <1>3 DEF SamePayload, Payload, e
<1>5. Decode(retail) = [format |-> "signed", text |-> text]
    BY <1>2, <1>3, <1>4 DEF Decode, Rejected
<1>6. Len(retail) > HeaderSize
    <2>1. Len(e) \in Nat /\ HeaderSize \in Nat
        BY <1>1, FileIsSegment, CodecAssumption
    <2>2. Len(e) # 0
        BY <1>1, FileIsSegment
    <2> QED
        BY <1>4, <2>1, <2>2
<1>7. retail # << >>
    <2>1. DOMAIN << >> = {}
        OBVIOUS
    <2> QED
        BY <1>3, <2>1 DEF IsSigned
<1>8. Safe(retail)
    BY <1>1, <1>4, <1>6, <1>7, CipherIsSafe
<1> QED
    BY <1>5, <1>8

LEMMA TextIsFaithful ==
    ASSUME NEW text, IsFile(text), Text(text)
    PROVE  Decode(text).text = text /\ Safe(text)
<1>1. text # << >> /\ IsPlaintext(text) /\ Len(text) <= MaxSize + HeaderSize
    BY DEF Text
<1>2. ~(Len(text) > MaxSize + HeaderSize)
    <2>1. Len(text) \in Nat /\ MaxSize \in Nat /\ HeaderSize \in Nat
        BY FileIsSegment, CodecAssumption
    <2> QED
        BY <1>1, <2>1
<1>3. Decode(text).text = text
    BY <1>1, <1>2 DEF Decode
<1> QED
    BY <1>1, <1>3, TextIsSafe

--------------------------------------------------------------------------------
(* The files that the commands begin with, and those that editors save.    *)
TextsBeginWithTheVersion ==
    /\ \A d \in Disks : \A p \in Paths : d[p] # NoFile => Readable(d[p])
    /\ \A e \in Edits : Readable(e[2])

(* What a command is about to save decodes to the text that it has read,    *)
(* and nothing of what is ever on the disk is beyond reading again.        *)
Faithful ==
    /\ Checked
    /\ \A p \in Paths : disk[p] # NoFile => Readable(disk[p])
    /\ pc \notin {"idle", "read"} => Text(document.text)
    /\ pc = "template" => output = Encrypt(Padded(document.text))
    /\ pc \in {"create", "write"} => Decode(output).text = document.text /\ Safe(output)
    /\ OutputsAreFaithful

LEMMA FaithfulNext ==
    ASSUME TextsBeginWithTheVersion
    PROVE  Faithful /\ [Next]_vars => Faithful'
<1> SUFFICES ASSUME Faithful, [Next]_vars PROVE Faithful'
    OBVIOUS
<1>0. Checked /\ Checked' /\ FilesAreGenuine /\ Careful
    BY CheckedNext DEF Faithful, Checked, FilesAreGenuine
<1> DEFINE Stays == \A p \in Paths : disk'[p] # NoFile => Readable(disk'[p])
<1>1. ASSUME NEW c \in Commands, Begin(c) PROVE Faithful'
    BY <1>0, <1>1 DEF Faithful, Begin, OutputsAreFaithful
<1>2. CASE Read
    <2> DEFINE input == disk[command.in]
    <2>1. command.in \in Paths /\ command.verb \in {"view", "check", "decode", "encode"}
        BY <1>0, <1>2, SkuToolAssumption DEF Careful, Read
    <2>2. CASE Throw
        BY <1>0, <1>2, <2>2 DEF Faithful, Read, Throw, Return, OutputsAreFaithful
    <2>3. CASE document' # Rejected /\ Proceed(command.verb)
        <3>1. input # NoFile /\ document' = Decode(input)
            BY <1>2, <2>3 DEF Read
        <3>2. Text(document'.text)
            BY <2>1, <2>3, <3>1 DEF Faithful, Readable
        <3>3. result' # "done"
            BY <1>2, <2>3, <1>0 DEF Checked, Read, Proceed
        <3> QED
            BY <1>0, <1>2, <2>1, <2>3, <3>2, <3>3 DEF Faithful, Read, Proceed, OutputsAreFaithful
    <2> QED
        BY <1>2, <2>2, <2>3 DEF Read
<1>3. CASE View
    <2>1. command.verb = "view"
        BY <1>0, <1>3 DEF Checked, View
    <2> QED
        BY <1>0, <1>3, <2>1 DEF Faithful, View, Return, work, OutputsAreFaithful
<1>4. CASE Check
    <2>1. command.verb = "check"
        BY <1>0, <1>4 DEF Checked, Check
    <2> QED
        BY <1>0, <1>4, <2>1 DEF Faithful, Check, Return, work, OutputsAreFaithful
<1>5. CASE DecodeText
    <2>1. IsFile(document.text) /\ Text(document.text)
        BY <1>0, <1>5 DEF Faithful, FilesAreGenuine, DecodeText
    <2>2. Decode(output').text = document.text /\ Safe(output')
        BY <1>5, <2>1, TextIsFaithful DEF DecodeText
    <2>3. result' # "done"
        BY <1>0, <1>5 DEF Checked, DecodeText, Proceed
    <2> QED
        BY <1>0, <1>5, <2>1, <2>2, <2>3 DEF Faithful, DecodeText, Proceed, OutputsAreFaithful
<1>6. CASE EncodeText
    <2>1. CASE Throw /\ UNCHANGED output
        BY <1>0, <1>6, <2>1 DEF Faithful, EncodeText, Throw, Return, OutputsAreFaithful
    <2>2. CASE /\ Validates(document.text)
               /\ output' = Encrypt(Padded(document.text))
               /\ Proceed(IF command.template = NoPath THEN "create" ELSE "template")
        <3>1. IsFile(document.text)
            BY <1>0, <1>6 DEF FilesAreGenuine, EncodeText
        <3>2. Decode(output').text = document.text /\ Safe(output')
            BY <2>2, <3>1, EncodedIsFaithful
        <3>3. result' # "done"
            BY <1>0, <1>6, <2>2 DEF Checked, EncodeText, Proceed
        <3>4. UNCHANGED <<document, disk>> /\ pc' \in {"create", "template"}
            BY <1>6, <2>2 DEF EncodeText, Proceed
        <3>5. Text(document.text)
            BY <1>6 DEF Faithful, EncodeText
        <3> QED
            BY <1>0, <2>2, <3>2, <3>3, <3>4, <3>5 DEF Faithful, OutputsAreFaithful
    <2> QED
        BY <1>6, <2>1, <2>2 DEF EncodeText
<1>7. CASE Template
    <2> DEFINE retail == disk[command.template]
    <2>1. UNCHANGED <<disk, document>> /\ Text(document.text)
        BY <1>7 DEF Faithful, Template, Proceed, Throw
    <2>2. CASE Throw /\ UNCHANGED output
        BY <1>0, <2>1, <2>2 DEF Faithful, Throw, Return, OutputsAreFaithful
    <2>3. CASE /\ retail # NoFile
               /\ Decode(retail).format = "signed"
               /\ SamePayload(retail, output)
               /\ output' = SubSeq(retail, 1, HeaderSize) \o output
               /\ Proceed("create")
        <3>1. IsFile(retail)
            BY <1>0, <1>7, <2>3 DEF FilesAreGenuine, Careful, Template, Genuine
        <3>2. IsFile(output)
            BY <1>0, <1>7 DEF FilesAreGenuine, Template, Genuine
        <3>3. output' = retail
            BY <2>3, <3>1, <3>2, TemplateIsOutput
        <3>4. IsFile(document.text) /\ Validates(document.text)
            BY <1>0, <1>7 DEF Checked, Template
        <3>5. output = Encrypt(Padded(document.text))
            BY <1>7 DEF Faithful, Template
        <3>6. Decode(retail).text = document.text /\ Safe(retail)
            BY <2>3, <3>1, <3>4, <3>5, TemplateIsFaithful
        <3>7. result' # "done" /\ pc' = "create"
            BY <1>0, <1>7, <2>3 DEF Checked, Template, Proceed
        <3> QED
            BY <1>0, <2>1, <3>3, <3>6, <3>7 DEF Faithful, OutputsAreFaithful
    <2> QED
        BY <1>7, <2>2, <2>3 DEF Template
<1>8. CASE Create
    <2>1. CASE Throw
        BY <1>0, <1>8, <2>1 DEF Faithful, Create, Throw, Return, work, OutputsAreFaithful
    <2>2. CASE /\ disk' = [disk EXCEPT ![command.out] = << >>]
               /\ pc' = "write"
               /\ UNCHANGED result
        <3>1. Stays
            BY <1>0, <2>2, NothingIsReadable DEF Faithful, Careful
        <3>2. result' # "done"
            BY <1>0, <1>8, <2>2 DEF Checked, Create
        <3> QED
            BY <1>0, <1>8, <2>2, <3>1, <3>2 DEF Faithful, Create, work, OutputsAreFaithful
    <2> QED
        BY <1>8, <2>1, <2>2 DEF Create
<1>9. CASE Write
    <2>1. command.out \in Paths /\ disk = [p \in Paths |-> disk[p]]
        BY <1>0, <1>9, SkuToolAssumption DEF Careful, Write
    <2>2. Decode(output).text = document.text /\ Safe(output)
        BY <1>9 DEF Faithful, Write
    <2>3. pc' = "idle" /\ UNCHANGED <<command, document, output>>
        BY <1>9 DEF Write, Return, work
    <2>4. CASE disk' = [disk EXCEPT ![command.out] = output]
        <3>1. Readable(output)
            BY <2>2, WholeIsPrefix DEF Safe
        <3>2. Stays
            BY <2>1, <2>4, <3>1 DEF Faithful
        <3>3. disk'[command.out] = output
            BY <2>1, <2>4
        <3>4. OutputsAreFaithful'
            BY <2>2, <2>3, <3>3 DEF OutputsAreFaithful
        <3> QED
            BY <1>0, <2>3, <3>2, <3>4 DEF Faithful
    <2>5. ASSUME NEW prefix \in Prefixes(output), disk' = [disk EXCEPT ![command.out] = prefix],
                 result' = "broken off"
          PROVE  Faithful'
        <3>1. Readable(prefix)
            BY <2>2 DEF Safe
        <3>2. Stays
            BY <2>1, <2>5, <3>1 DEF Faithful
        <3>3. OutputsAreFaithful'
            BY <2>5 DEF OutputsAreFaithful
        <3> QED
            BY <1>0, <2>3, <3>2, <3>3 DEF Faithful
    <2> QED
        BY <1>9, <2>4, <2>5 DEF Write, Return
<1>10. CASE Die
    BY <1>0, <1>10 DEF Faithful, Die, Throw, Return, work, OutputsAreFaithful
<1>11. ASSUME NEW e \in Edits, Edit(e[1], e[2]) PROVE Faithful'
    <2>1. disk' = [disk EXCEPT ![e[1]] = e[2]] /\ UNCHANGED <<pc, document, output>>
        BY <1>11 DEF Edit, work
    <2>2. Stays
        BY <1>0, <2>1 DEF Faithful, Careful, TextsBeginWithTheVersion
    <2>3. result' # "done"
        BY <1>0, <1>11 DEF Checked, Edit
    <2> QED
        BY <1>0, <2>1, <2>2, <2>3 DEF Faithful, OutputsAreFaithful
<1>12. CASE UNCHANGED vars
    BY <1>0, <1>12 DEF vars, work, Faithful, OutputsAreFaithful
<1> QED
    BY <1>1, <1>2, <1>3, <1>4, <1>5, <1>6, <1>7, <1>8, <1>9, <1>10, <1>11, <1>12 DEF Next

(* What decode and encode save, with a template or without, decodes to the  *)
(* text of their input, at every length modulo the block size, whatever is  *)
(* edited, broken off or fails.  decode itself does not validate: of a file *)
(* that hides a text without the version in front it saves one that cannot  *)
(* be read again, so such files are excepted.                              *)
THEOREM SavesWhatWasRead ==
    ASSUME TextsBeginWithTheVersion
    PROVE  Spec => []OutputsAreFaithful
<1>1. Init => Faithful
    <2> SUFFICES ASSUME Init PROVE Faithful
        OBVIOUS
    <2>1. Checked
        BY GenuineInit DEF Init, Checked
    <2> QED
        BY <2>1 DEF Init, Faithful, OutputsAreFaithful, TextsBeginWithTheVersion
<1>2. Faithful => OutputsAreFaithful
    BY DEF Faithful
<1> QED
    BY <1>1, FaithfulNext, <1>2, PTL DEF Spec
================================================================================
