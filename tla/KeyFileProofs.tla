---------------------------- MODULE KeyFileProofs -----------------------------
(***************************************************************************)
(* Proofs about KeyFile for every value of its constants: no fingerprint   *)
(* that peers were given loses its key.                                    *)
(***************************************************************************)
EXTENDS KeyFile, TLAPS

Contents == [state : {"missing", "partial", "whole"}, kid : Int, bundle : Int,
             seed : Int, purpose : Purposes \cup {"none"}]

Commands == [kind : {"none", "keygen", "fingerprint", "register"},
             path : Paths \cup {"none"}, purpose : Purposes \cup {"none"}]

Types ==
    /\ keyPc \in [KeyProcesses -> {"down", "create", "fill", "load", "post"}]
    /\ command \in [KeyProcesses -> Commands]
    /\ held \in [KeyProcesses -> Contents]
    /\ keyFile \in [Paths -> Contents]
    /\ made \in Seq(Purposes)
    /\ announced \subseteq [path : Paths, key : Int, purpose : Purposes]

\* A command names a file and a purpose.
CommandOK ==
    \A p \in KeyProcesses :
        keyPc[p] # "down" => command[p].path \in Paths /\ command[p].purpose \in Purposes

Generated(k, purpose) == k \in 1 .. Len(made) /\ made[k] = purpose

\* What a file may hold, by its state.
ContentOK(f) ==
    LET c == keyFile[f] IN
    /\ c.state = "missing" => c = NoKey
    /\ c.state = "partial" => c = Partial(c.kid)
    /\ c.state = "whole" =>
          \E k \in 1 .. Len(made) :
              /\ Generated(k, c.purpose)
              /\ c.kid \in {k, -1} /\ c.bundle \in {k, -2} /\ c.seed \in {k, -3}
              /\ c.seed = -3 => Spoiled(f, "seed")

FilesOK == \A f \in Paths : ContentOK(f)

\* What a keygen holds is a key pair of its own, ...
HeldOK ==
    \A p \in KeyProcesses :
        keyPc[p] \in {"create", "fill"} =>
            \E k \in 1 .. Len(made) : /\ Generated(k, command[p].purpose)
                           /\ held[p] = KeyPair(k, command[p].purpose)

HeldDistinct ==
    \A p, q \in KeyProcesses :
        p # q /\ keyPc[p] \in {"create", "fill"} /\ keyPc[q] \in {"create", "fill"}
            => held[p].kid # held[q].kid

\* ... and the file it fills is the one it created, unless that was deleted.
FillOK ==
    \A p \in KeyProcesses :
        keyPc[p] = "fill" =>
            \/ keyFile[command[p].path] = Partial(held[p].kid)
            \/ Spoiled(command[p].path, "file")

\* What a registration is about to post is as good as announced.
Announcement(p) ==
    [path |-> command[p].path, key |-> held[p].kid, purpose |-> held[p].purpose]
PostOK ==
    \A p \in KeyProcesses :
        keyPc[p] = "post" => held[p].purpose \in Purposes /\ Kept(Announcement(p))

\* The inductive invariant.
IInv ==
    /\ Types /\ CommandOK
    /\ FilesOK /\ HeldOK /\ HeldDistinct /\ FillOK /\ PostOK
    /\ KeysKept

-----------------------------------------------------------------------------
(* Contents and keys *)

LEMMA ContentTypes ==
    /\ Idle \in Commands
    /\ NoKey \in Contents
    /\ \A k \in Int : Partial(k) \in Contents
    /\ \A k \in Int, purpose \in Purposes : KeyPair(k, purpose) \in Contents
  BY DEF Idle, Commands, NoKey, Partial, KeyPair, Contents, Purposes

LEMMA KeyInitial == KeyInit => IInv
  <1> SUFFICES ASSUME KeyInit PROVE IInv
    OBVIOUS
  <1>1. Types
    BY ContentTypes DEF KeyInit, Types
  <1>2. FilesOK
    BY DEF KeyInit, FilesOK, ContentOK, NoKey
  <1> QED
    BY <1>1, <1>2 DEF KeyInit, IInv, CommandOK, HeldOK, HeldDistinct, FillOK, PostOK, KeysKept

-----------------------------------------------------------------------------
(* What announcements and keys survive *)

\* A key that was generated stays generated, whatever is generated after it.
LEMMA GeneratedStays ==
    ASSUME Types, NEW k, NEW purpose, Generated(k, purpose),
           made' = made \/ \E q \in Purposes : made' = Append(made, q)
    PROVE  Generated(k, purpose)' /\ 1 .. Len(made) \subseteq 1 .. Len(made')
  BY DEF Types, Generated

\* An announcement stays good as long as every file keeps its seeds or is spoiled.
LEMMA KeptStays ==
    ASSUME Types, NEW n, Kept(n), spoiled \subseteq spoiled',
           made' = made \/ \E q \in Purposes : made' = Append(made, q),
           \/ keyFile'[n.path].seed = keyFile[n.path].seed
           \/ keyFile'[n.path].seed = n.key
           \/ Spoiled(n.path, "seed")' \/ Spoiled(n.path, "file")'
    PROVE  Kept(n)'
  BY DEF Types, Kept, Spoiled

\* A file without seeds has no announcement left, unless it was spoiled.
LEMMA SeedlessSpoiled ==
    ASSUME Types, NEW n, Kept(n), keyFile[n.path].seed = 0
    PROVE  Spoiled(n.path, "seed") \/ Spoiled(n.path, "file")
  BY DEF Types, Kept

-----------------------------------------------------------------------------
(* Every step keeps the invariant *)

\* A process that ends, and changes nothing else, keeps the invariant.
LEMMA QuitStep ==
    ASSUME IInv, NEW p \in KeyProcesses, Quit(p),
           UNCHANGED <<keyFile, made, announced, spoiled>>
    PROVE  IInv'
  <1> USE DEF IInv, Quit
  <1>1. Types'
    BY ContentTypes DEF Types
  <1>2. CommandOK'
    BY DEF CommandOK, Types
  <1>3. FilesOK'
    BY DEF FilesOK, ContentOK, Generated, Spoiled
  <1>4. HeldOK'
    BY DEF HeldOK, Types, Generated
  <1>5. HeldDistinct'
    BY DEF HeldDistinct, Types
  <1>6. FillOK'
    BY DEF FillOK, Types, Spoiled
  <1>7. PostOK'
    BY KeptStays DEF PostOK, Types, Announcement
  <1>8. KeysKept'
    BY KeptStays DEF KeysKept
  <1> QED
    BY <1>1, <1>2, <1>3, <1>4, <1>5, <1>6, <1>7, <1>8

LEMMA KeygenStep ==
    ASSUME IInv, NEW p \in KeyProcesses, NEW path \in Paths, NEW purpose \in Purposes,
           Keygen(p, path, purpose)
    PROVE  IInv'
  <1> USE DEF IInv, Keygen, Begin
  <1>0. /\ made' = Append(made, purpose) /\ made \in Seq(Purposes)
        /\ Len(made') = Len(made) + 1 /\ made'[Len(made')] = purpose
        /\ [kind |-> "keygen", path |-> path, purpose |-> purpose] \in Commands
    BY DEF Types, Commands
  <1>1. Types'
    BY <1>0, ContentTypes DEF Types
  <1>2. CommandOK'
    BY DEF CommandOK, Types
  <1>3. FilesOK'
    BY <1>0, GeneratedStays DEF FilesOK, ContentOK, Spoiled
  <1>4. HeldOK'
    BY <1>0, GeneratedStays DEF HeldOK, Types, Generated
  <1>5. HeldDistinct'
    BY <1>0 DEF HeldDistinct, HeldOK, Types, Generated, KeyPair
  <1>6. FillOK'
    BY DEF FillOK, Types, Spoiled
  <1>7. PostOK'
    BY <1>0, KeptStays DEF PostOK, Types, Announcement
  <1>8. KeysKept'
    BY <1>0, KeptStays DEF KeysKept
  <1> QED
    BY <1>1, <1>2, <1>3, <1>4, <1>5, <1>6, <1>7, <1>8

LEMMA CreateStep ==
    ASSUME IInv, NEW p \in KeyProcesses, CreateKeyFile(p)
    PROVE  IInv'
  <1> DEFINE f == command[p].path
  <1> USE DEF IInv
  <1>0. f \in Paths /\ held[p].kid \in Int
    BY DEF CreateKeyFile, CommandOK, Types, Contents
  <1>1. CASE keyFile[f] = NoKey
    <2>0. /\ keyFile' = [keyFile EXCEPT ![f] = Partial(held[p].kid)]
          /\ keyPc' = [keyPc EXCEPT ![p] = "fill"] /\ keyPc[p] = "create"
          /\ UNCHANGED <<command, held, made, announced, spoiled>>
      BY <1>1 DEF CreateKeyFile
    <2>1. Types'
      BY <1>0, <2>0, ContentTypes DEF Types
    <2>2. CommandOK'
      BY <2>0 DEF CommandOK, Types
    <2>3. FilesOK'
      <3> SUFFICES ASSUME NEW g \in Paths PROVE ContentOK(g)'
        BY DEF FilesOK
      <3>1. CASE g = f
        BY <1>0, <2>0, <3>1 DEF ContentOK, Types, Partial
      <3>2. CASE g # f
        BY <1>0, <2>0, <3>2 DEF FilesOK, ContentOK, Types, Generated, Spoiled
      <3> QED
        BY <3>1, <3>2
    <2>4. HeldOK'
      BY <2>0 DEF HeldOK, Types, Generated
    <2>5. HeldDistinct'
      BY <2>0 DEF HeldDistinct, Types
    <2>6. FillOK'
      <3> SUFFICES ASSUME NEW q \in KeyProcesses, keyPc'[q] = "fill"
                   PROVE  \/ keyFile'[command[q].path] = Partial(held[q].kid)
                          \/ Spoiled(command[q].path, "file")
        BY <2>0 DEF FillOK, Spoiled
      <3>1. CASE q = p
        BY <1>0, <2>0, <3>1 DEF Types
      <3>2. CASE q # p
        BY <1>0, <1>1, <2>0, <3>2 DEF FillOK, Types, Partial, NoKey
      <3> QED
        BY <3>1, <3>2
    <2>7. ASSUME NEW n, Kept(n), n.path \in Paths PROVE Kept(n)'
      <3>1. CASE n.path = f
        <4>1. Spoiled(f, "seed") \/ Spoiled(f, "file")
          BY <1>1, <2>7, <3>1, SeedlessSpoiled DEF NoKey
        <4> QED
          BY <2>0, <2>7, <3>1, <4>1, KeptStays DEF Spoiled
      <3>2. CASE n.path # f
        BY <2>0, <2>7, <3>2, KeptStays DEF Types
      <3> QED
        BY <3>1, <3>2
    <2>8. PostOK'
      BY <2>0, <2>7 DEF PostOK, CommandOK, Types, Announcement
    <2>9. KeysKept'
      BY <2>0, <2>7 DEF KeysKept, Types
    <2> QED
      BY <2>1, <2>2, <2>3, <2>4, <2>5, <2>6, <2>8, <2>9
  <1>2. CASE keyFile[f] # NoKey
    BY <1>2, QuitStep DEF CreateKeyFile
  <1> QED
    BY <1>1, <1>2

LEMMA FillStep ==
    ASSUME IInv, NEW p \in KeyProcesses, FillKeyFile(p)
    PROVE  IInv'
  <1> DEFINE f == command[p].path
             n0 == [path |-> f, key |-> held[p].kid, purpose |-> held[p].purpose]
  <1> USE DEF IInv
  <1>0. /\ keyPc[p] = "fill" /\ f \in Paths /\ command[p].purpose \in Purposes
        /\ Quit(p) /\ UNCHANGED <<made, spoiled>>
        /\ announced' = announced \cup {n0}
        /\ keyFile' = [keyFile EXCEPT ![f] =
                          IF @ = Partial(held[p].kid) THEN held[p] ELSE @]
    BY DEF FillKeyFile, Announce, CommandOK, KeyPair, HeldOK
  <1>k. PICK k \in 1 .. Len(made) : /\ Generated(k, command[p].purpose)
                                    /\ held[p] = KeyPair(k, command[p].purpose)
    BY <1>0 DEF HeldOK
  <1>h. /\ held[p].kid = k /\ held[p].seed = k /\ held[p].bundle = k /\ k # 0
        /\ held[p].state = "whole" /\ held[p].purpose = command[p].purpose /\ k \in Int
    BY <1>k DEF KeyPair, Types
  <1>1. Types'
    BY <1>0, <1>h, ContentTypes DEF Types, Quit
  <1>2. CommandOK'
    BY <1>0 DEF CommandOK, Types, Quit
  <1>3. FilesOK'
    <2> SUFFICES ASSUME NEW g \in Paths PROVE ContentOK(g)'
      BY DEF FilesOK
    <2>1. CASE keyFile'[g] = keyFile[g]
      BY <1>0, <2>1 DEF FilesOK, ContentOK, Generated, Spoiled
    <2>2. CASE keyFile'[g] # keyFile[g]
      <3>1. keyFile'[g] = held[p]
        BY <1>0, <2>2 DEF Types
      <3> QED
        BY <1>0, <1>k, <1>h, <3>1 DEF ContentOK, Generated
    <2> QED
      BY <2>1, <2>2
  <1>4. HeldOK'
    BY <1>0 DEF HeldOK, Types, Quit, Generated
  <1>5. HeldDistinct'
    BY <1>0 DEF HeldDistinct, Types, Quit
  <1>6. FillOK'
    <2> SUFFICES ASSUME NEW q \in KeyProcesses, q # p, keyPc[q] = "fill"
                 PROVE  \/ keyFile'[command[q].path] = Partial(held[q].kid)
                        \/ Spoiled(command[q].path, "file")
      BY <1>0 DEF FillOK, Types, Quit, Spoiled
    <2>1. held[q].kid # held[p].kid
      BY <1>0 DEF HeldDistinct
    <2> QED
      BY <1>0, <2>1 DEF FillOK, CommandOK, Partial, Types
  <1>7. ASSUME NEW n, Kept(n), n.path \in Paths PROVE Kept(n)'
    <2>1. CASE n.path = f /\ keyFile[f] = Partial(held[p].kid)
      <3>1. Spoiled(f, "seed") \/ Spoiled(f, "file")
        BY <1>7, <2>1, SeedlessSpoiled DEF Partial
      <3> QED
        BY <1>0, <1>7, <2>1, <3>1, KeptStays DEF Spoiled
    <2>2. CASE ~(n.path = f /\ keyFile[f] = Partial(held[p].kid))
      <3>1. keyFile'[n.path] = keyFile[n.path]
        BY <1>0, <1>7, <2>2 DEF Types
      <3> QED
        BY <1>0, <1>7, <3>1, KeptStays
    <2> QED
      BY <2>1, <2>2
  <1>8. ASSUME NEW n, n = n0 PROVE Kept(n)'
    <2>1. k \in DOMAIN made /\ made[k] = held[p].purpose
      BY <1>k, <1>h DEF Generated, Types
    <2>2. Spoiled(f, "file") \/ keyFile'[f].seed = k
      BY <1>0, <1>h DEF FillOK, Types
    <2>3. n.path = f /\ n.key = k /\ n.purpose = held[p].purpose
      BY <1>8, <1>h
    <2> QED
      BY <1>0, <2>1, <2>2, <2>3 DEF Kept, Spoiled
  <1>9. PostOK'
    BY <1>0, <1>7 DEF PostOK, CommandOK, Types, Announcement, Quit
  <1>10. KeysKept'
    <2> SUFFICES ASSUME NEW n \in announced' PROVE Kept(n)'
      BY DEF KeysKept
    <2>1. n = n0 \/ (n \in announced /\ Kept(n) /\ n.path \in Paths)
      BY <1>0 DEF KeysKept, Types
    <2> QED
      BY <1>7, <1>8, <2>1
  <1> QED
    BY <1>1, <1>2, <1>3, <1>4, <1>5, <1>6, <1>9, <1>10

\* "fingerprint" and "register" begin by reading.
LEMMA BeginStep ==
    ASSUME IInv, NEW p \in KeyProcesses, NEW path \in Paths, NEW purpose \in Purposes,
           NEW kind \in {"fingerprint", "register"},
           Begin(p, kind, path, purpose, "load"), UNCHANGED <<held, made>>
    PROVE  IInv'
  <1> USE DEF IInv, Begin
  <1>0. [kind |-> kind, path |-> path, purpose |-> purpose] \in Commands
    BY DEF Commands
  <1>1. Types'
    BY <1>0 DEF Types
  <1>2. CommandOK'
    BY DEF CommandOK, Types
  <1>3. FilesOK'
    BY DEF FilesOK, ContentOK, Generated, Spoiled
  <1>4. HeldOK'
    BY DEF HeldOK, Types, Generated
  <1>5. HeldDistinct'
    BY DEF HeldDistinct, Types
  <1>6. FillOK'
    BY DEF FillOK, Types, Spoiled
  <1>7. PostOK'
    BY KeptStays DEF PostOK, Types, Announcement
  <1>8. KeysKept'
    BY KeptStays DEF KeysKept
  <1> QED
    BY <1>1, <1>2, <1>3, <1>4, <1>5, <1>6, <1>7, <1>8

\* A process that ends with a fingerprint that is as good as announced.
LEMMA AnnounceStep ==
    ASSUME IInv, NEW p \in KeyProcesses, Quit(p), UNCHANGED <<keyFile, made, spoiled>>,
           NEW n \in [path : Paths, key : Int, purpose : Purposes], Kept(n),
           announced' = announced \cup {n}
    PROVE  IInv'
  <1> USE DEF IInv, Quit
  <1>1. Types'
    BY ContentTypes DEF Types
  <1>2. CommandOK'
    BY DEF CommandOK, Types
  <1>3. FilesOK'
    BY DEF FilesOK, ContentOK, Generated, Spoiled
  <1>4. HeldOK'
    BY DEF HeldOK, Types, Generated
  <1>5. HeldDistinct'
    BY DEF HeldDistinct, Types
  <1>6. FillOK'
    BY DEF FillOK, Types, Spoiled
  <1>7. PostOK'
    BY KeptStays DEF PostOK, Types, Announcement
  <1>8. KeysKept'
    BY KeptStays DEF KeysKept
  <1> QED
    BY <1>1, <1>2, <1>3, <1>4, <1>5, <1>6, <1>7, <1>8

\* What load() accepts is as good as announced.
LEMMA ReadableKept ==
    ASSUME IInv, NEW f \in Paths, NEW purpose, Readable(keyFile[f], purpose)
    PROVE  LET key == Rebuilt(keyFile[f]) IN
           /\ key.kid \in Int /\ key.purpose \in Purposes /\ key \in Contents
           /\ Kept([path |-> f, key |-> key.kid, purpose |-> key.purpose])
  <1> DEFINE c == keyFile[f]
  <1> USE DEF IInv
  <1>1. PICK k \in 1 .. Len(made) :
            /\ Generated(k, c.purpose)
            /\ c.kid \in {k, -1} /\ c.bundle \in {k, -2} /\ c.seed \in {k, -3}
            /\ c.seed = -3 => Spoiled(f, "seed")
    BY DEF Readable, FilesOK, ContentOK
  <1>2. c.purpose \in Purposes /\ k \in Int /\ k > 0 /\ Len(made) \in Nat
    BY <1>1 DEF Generated, Types
  <1>3. c.bundle = k
    BY <1>1, <1>2 DEF Readable
  <1>4. CASE c.seed = k
    <2>1. Rebuilt(c) = KeyPair(k, c.purpose)
      BY <1>3, <1>4 DEF Rebuilt
    <2>2. k \in DOMAIN made /\ made[k] = c.purpose
      BY <1>1 DEF Generated, Types
    <2>3. Kept([path |-> f, key |-> k, purpose |-> c.purpose])
      BY <1>4, <2>2 DEF Kept
    <2> QED
      BY <1>2, <2>1, <2>3, ContentTypes DEF KeyPair
  <1>5. CASE c.seed = -3
    <2>1. Rebuilt(c) = KeyPair(0, c.purpose) /\ Spoiled(f, "seed")
      BY <1>1, <1>2, <1>3, <1>5 DEF Rebuilt
    <2> QED
      BY <1>2, <2>1, ContentTypes DEF Kept, KeyPair
  <1> QED
    BY <1>1, <1>4, <1>5

\* A command that reads goes on only with what is as good as announced.
LEMMA LoadStep ==
    ASSUME IInv, NEW p \in KeyProcesses, LoadKeyFile(p)
    PROVE  IInv'
  <1> DEFINE f == command[p].path
             c == keyFile[f]
             key == Rebuilt(c)
  <1> USE DEF IInv
  <1>0. /\ f \in Paths /\ command[p].purpose \in Purposes /\ keyPc[p] = "load"
        /\ UNCHANGED <<keyFile, made, spoiled>>
    BY DEF LoadKeyFile, CommandOK
  <1>1. CASE Readable(c, command[p].purpose)
    <2>1. PICK n : n = [path |-> f, key |-> key.kid, purpose |-> key.purpose]
      OBVIOUS
    <2>2. /\ n \in [path : Paths, key : Int, purpose : Purposes] /\ Kept(n)
          /\ key.purpose \in Purposes /\ key \in Contents
      BY <1>0, <1>1, <2>1, ReadableKept
    <2>3. CASE command[p].kind = "fingerprint"
      <3>1. Quit(p) /\ announced' = announced \cup {n}
        BY <1>1, <2>1, <2>3 DEF LoadKeyFile, Announce
      <3> QED
        BY <1>0, <2>2, <3>1, AnnounceStep
    <2>4. CASE command[p].kind = "register"
      <3>0. /\ held' = [held EXCEPT ![p] = key]
            /\ keyPc' = [keyPc EXCEPT ![p] = "post"]
            /\ UNCHANGED <<command, announced>>
        BY <1>1, <2>4 DEF LoadKeyFile
      <3>1. Types'
        BY <1>0, <2>2, <3>0 DEF Types
      <3>2. CommandOK'
        BY <1>0, <3>0 DEF CommandOK, Types
      <3>3. FilesOK'
        BY <1>0, <3>0 DEF FilesOK, ContentOK, Generated, Spoiled
      <3>4. HeldOK'
        BY <1>0, <3>0 DEF HeldOK, Types, Generated
      <3>5. HeldDistinct'
        BY <1>0, <3>0 DEF HeldDistinct, Types
      <3>6. FillOK'
        BY <1>0, <3>0 DEF FillOK, Types, Spoiled
      <3>7. ASSUME NEW m, Kept(m) PROVE Kept(m)'
        BY <1>0, <3>7, KeptStays
      <3>8. PostOK'
        <4> SUFFICES ASSUME NEW q \in KeyProcesses, keyPc'[q] = "post"
                     PROVE  (held[q].purpose \in Purposes /\ Kept(Announcement(q)))'
          BY DEF PostOK
        <4>1. CASE q = p
          <5>1. held'[p] = key /\ n = Announcement(p)'
            BY <2>1, <3>0 DEF Types, Announcement
          <5> QED
            BY <2>2, <3>7, <4>1, <5>1
        <4>2. CASE q # p
          <5>1. PICK m : m = Announcement(q)
            OBVIOUS
          <5>2. /\ held'[q] = held[q] /\ m = Announcement(q)'
                /\ Kept(m) /\ held[q].purpose \in Purposes
            BY <3>0, <4>2, <5>1 DEF Types, Announcement, PostOK
          <5> QED
            BY <3>7, <5>2
        <4> QED
          BY <4>1, <4>2
      <3>9. KeysKept'
        BY <3>0, <3>7 DEF KeysKept
      <3> QED
        BY <3>1, <3>2, <3>3, <3>4, <3>5, <3>6, <3>8, <3>9
    <2>5. CASE command[p].kind \notin {"fingerprint", "register"}
      BY <1>0, <2>5, QuitStep DEF LoadKeyFile
    <2> QED
      BY <2>3, <2>4, <2>5
  <1>2. CASE ~Readable(c, command[p].purpose)
    <2>1. CASE command[p].kind = "fingerprint" /\ command[p].purpose = "recipient"
      <3>0. /\ command' = [command EXCEPT ![p].purpose = "sender"]
            /\ UNCHANGED <<keyPc, held, announced>>
        BY <1>2, <2>1 DEF LoadKeyFile
      <3>1. command[p] \in Commands /\ command'[p].path = f /\ command'[p].purpose = "sender"
        BY <3>0 DEF Types, Commands
      <3>2. Types'
        BY <1>0, <3>0 DEF Types, Commands, Purposes
      <3>3. CommandOK'
        BY <1>0, <3>0, <3>1 DEF CommandOK, Types, Purposes
      <3>4. FilesOK'
        BY <1>0 DEF FilesOK, ContentOK, Generated, Spoiled
      <3>5. HeldOK'
        BY <1>0, <3>0 DEF HeldOK, Types, Generated
      <3>6. HeldDistinct'
        BY <3>0 DEF HeldDistinct
      <3>7. FillOK'
        BY <1>0, <3>0 DEF FillOK, Types, Spoiled
      <3>8. PostOK'
        BY <1>0, <3>0, KeptStays DEF PostOK, Types, Announcement
      <3>9. KeysKept'
        BY <1>0, <3>0, KeptStays DEF KeysKept
      <3> QED
        BY <3>2, <3>3, <3>4, <3>5, <3>6, <3>7, <3>8, <3>9
    <2>2. CASE ~(command[p].kind = "fingerprint" /\ command[p].purpose = "recipient")
      BY <1>0, <1>2, <2>2, QuitStep DEF LoadKeyFile
    <2> QED
      BY <2>1, <2>2
  <1> QED
    BY <1>1, <1>2

\* The registration posts what it loaded.
LEMMA PostStep ==
    ASSUME IInv, NEW p \in KeyProcesses, PostKey(p)
    PROVE  IInv'
  <1>1. PICK n : n = Announcement(p)
    OBVIOUS
  <1>2. n \in [path : Paths, key : Int, purpose : Purposes] /\ Kept(n)
    BY <1>1 DEF IInv, PostKey, PostOK, CommandOK, Types, Contents, Announcement
  <1>3. announced' = announced \cup {n}
    BY <1>1 DEF PostKey, Announce, Announcement
  <1> QED
    BY <1>2, <1>3, AnnounceStep DEF PostKey

\* Damage and deletion are on record.
LEMMA SpoilStep ==
    ASSUME IInv, NEW f \in Paths,
           \/ DeleteKey(f)
           \/ \E part \in DOMAIN Damaged : DamageKey(f, part)
    PROVE  IInv'
  <1> DEFINE c == keyFile[f]
             d == keyFile'[f]
  <1> USE DEF IInv
  <1>a. c \in Contents /\ Len(made) \in Nat
    BY DEF Types
  <1>b. /\ UNCHANGED <<keyPc, command, held, made, announced>>
        /\ spoiled \subseteq spoiled'
        /\ keyFile' = [keyFile EXCEPT ![f] = d]
    BY DEF DeleteKey, DamageKey, Types
  <1>0. /\ UNCHANGED <<keyPc, command, held, made, announced>>
        /\ spoiled \subseteq spoiled'
        /\ keyFile' = [keyFile EXCEPT ![f] = d]
        /\ \/ d = NoKey /\ Spoiled(f, "file")'
           \/ /\ c.state = "whole"
              /\ \/ d = [c EXCEPT !.kid = -1]
                 \/ d = [c EXCEPT !.bundle = -2]
                 \/ d = [c EXCEPT !.seed = -3] /\ Spoiled(f, "seed")'
    BY <1>b DEF DeleteKey, DamageKey, Damaged, Spoiled, Types
  <1>1. Types'
    <2>1. d \in Contents
      BY <1>0, <1>a, ContentTypes DEF Contents
    <2> QED
      BY <1>0, <2>1 DEF Types
  <1>2. CommandOK'
    BY <1>0 DEF CommandOK
  <1>3. FilesOK'
    <2> SUFFICES ASSUME NEW g \in Paths PROVE ContentOK(g)'
      BY DEF FilesOK
    <2>1. CASE g # f
      BY <1>0, <2>1 DEF FilesOK, ContentOK, Types, Generated, Spoiled
    <2>2. CASE g = f /\ keyFile'[f] = NoKey
      BY <2>2 DEF ContentOK, NoKey
    <2>3. CASE g = f /\ keyFile[f].state = "whole"
      <3>1. PICK k \in 1 .. Len(made) :
                /\ Generated(k, c.purpose)
                /\ c.kid \in {k, -1} /\ c.bundle \in {k, -2} /\ c.seed \in {k, -3}
                /\ c.seed = -3 => Spoiled(f, "seed")
        BY <2>3 DEF FilesOK, ContentOK
      <3>2. CASE d = NoKey
        BY <2>2, <2>3, <3>2
      <3>3. CASE d # NoKey
        <4>1. /\ d.state = "whole" /\ d.purpose = c.purpose
              /\ d.kid \in {k, -1} /\ d.bundle \in {k, -2} /\ d.seed \in {k, -3}
              /\ d.seed = -3 => Spoiled(f, "seed")'
          BY <1>0, <1>a, <2>3, <3>1, <3>3 DEF Contents, Spoiled
        <4> QED
          BY <1>0, <2>3, <3>1, <4>1 DEF ContentOK, Generated
      <3> QED
        BY <3>2, <3>3
    <2> QED
      BY <1>0, <2>1, <2>2, <2>3
  <1>4. HeldOK'
    BY <1>0 DEF HeldOK, Generated
  <1>5. HeldDistinct'
    BY <1>0 DEF HeldDistinct
  <1>6. FillOK'
    BY <1>0 DEF FillOK, CommandOK, Types, Partial, Spoiled
  <1>7. ASSUME NEW n, Kept(n), n.path \in Paths PROVE Kept(n)'
    <2>1. \/ keyFile'[n.path].seed = keyFile[n.path].seed
          \/ Spoiled(n.path, "seed")' \/ Spoiled(n.path, "file")'
      <3>1. CASE n.path # f
        BY <1>0, <1>7, <3>1 DEF Types
      <3>2. CASE n.path = f
        BY <1>0, <1>a, <3>2 DEF Contents
      <3> QED
        BY <3>1, <3>2
    <2> QED
      BY <1>0, <1>7, <2>1, KeptStays
  <1>8. PostOK'
    BY <1>0, <1>7 DEF PostOK, CommandOK, Announcement
  <1>9. KeysKept'
    BY <1>0, <1>7 DEF KeysKept, Types
  <1> QED
    BY <1>1, <1>2, <1>3, <1>4, <1>5, <1>6, <1>8, <1>9

LEMMA KeyStuttering == ASSUME IInv, UNCHANGED keyVars PROVE IInv'
  BY DEF IInv, keyVars, Types, CommandOK, FilesOK, ContentOK, Generated, Spoiled, HeldOK,
         HeldDistinct, FillOK, PostOK, Announcement, KeysKept, Kept

LEMMA KeyStep == IInv /\ [KeyNext]_keyVars => IInv'
  <1> SUFFICES ASSUME IInv, [KeyNext]_keyVars PROVE IInv'
    OBVIOUS
  <1>1. CASE \E p \in KeyProcesses, path \in Paths, purpose \in Purposes :
                Keygen(p, path, purpose)
    BY <1>1, KeygenStep
  <1>2. CASE \E p \in KeyProcesses, path \in Paths, purpose \in Purposes :
                RegisterKey(p, path, purpose)
    BY <1>2, BeginStep DEF RegisterKey
  <1>3. CASE \E p \in KeyProcesses, path \in Paths : Fingerprint(p, path)
    BY <1>3, BeginStep DEF Fingerprint, Purposes
  <1>4. CASE \E p \in KeyProcesses : CreateKeyFile(p)
    BY <1>4, CreateStep
  <1>5. CASE \E p \in KeyProcesses : FillKeyFile(p)
    BY <1>5, FillStep
  <1>6. CASE \E p \in KeyProcesses : LoadKeyFile(p)
    BY <1>6, LoadStep
  <1>7. CASE \E p \in KeyProcesses : PostKey(p)
    BY <1>7, PostStep
  <1>8. CASE \E p \in KeyProcesses : PostRefused(p) \/ KeyCrash(p)
    BY <1>8, QuitStep DEF PostRefused, KeyCrash
  <1>9. CASE \E f \in Paths : DeleteKey(f) \/ \E part \in DOMAIN Damaged : DamageKey(f, part)
    BY <1>9, SpoilStep
  <1>10. CASE UNCHANGED keyVars
    BY <1>10, KeyStuttering
  <1> QED
    BY <1>1, <1>2, <1>3, <1>4, <1>5, <1>6, <1>7, <1>8, <1>9, <1>10 DEF KeyNext

LEMMA KeyInvariant == KeySpec => []IInv
  BY KeyInitial, KeyStep, PTL DEF KeySpec

-----------------------------------------------------------------------------
(* The theorems *)

\* No fingerprint that peers were given, by "sealed keygen", "fingerprint" or
\* "register", loses its key, for any number of processes, files and commands,
\* in any interleaving, with crashes, damage and deletions.
THEOREM AnnouncedKeysAreKept == KeySpec => []KeysKept
  <1>1. IInv => KeysKept
    BY DEF IInv
  <1> QED
    BY <1>1, KeyInvariant, PTL

\* A partial file names a key that was generated; a process that ended holds nothing.
Bounded ==
    /\ \A f \in Paths : keyFile[f].state = "partial" => keyFile[f].kid \in 1 .. Len(made)
    /\ \A p \in KeyProcesses : keyPc[p] = "down" => command[p] = Idle /\ held[p] = NoKey

LEMMA BoundedStep ==
    ASSUME IInv, Bounded, [KeyNext]_keyVars
    PROVE  Bounded'
  <1> USE DEF IInv, Types
  <1>1. ASSUME NEW p \in KeyProcesses, Quit(p), UNCHANGED <<keyFile, made>>
        PROVE  Bounded'
    BY <1>1 DEF Quit, Bounded
  <1>2. ASSUME NEW p \in KeyProcesses, NEW path \in Paths, NEW purpose \in Purposes,
               Keygen(p, path, purpose) \/ RegisterKey(p, path, purpose) \/ Fingerprint(p, path)
        PROVE  Bounded'
    <2>1. made' = made \/ made' = Append(made, purpose)
      BY <1>2 DEF Keygen, RegisterKey, Fingerprint
    <2>2. Len(made) \in Nat /\ Len(made') \in Nat /\ Len(made') >= Len(made)
      BY <2>1
    <2>3. /\ UNCHANGED keyFile
          /\ \A q \in KeyProcesses :
                keyPc'[q] = "down" => q # p /\ keyPc[q] = "down"
          /\ \A q \in KeyProcesses :
                q # p => command'[q] = command[q] /\ held'[q] = held[q]
      BY <1>2 DEF Keygen, RegisterKey, Fingerprint, Begin
    <2> QED
      BY <2>2, <2>3 DEF Bounded
  <1>3. ASSUME NEW p \in KeyProcesses, CreateKeyFile(p)
        PROVE  Bounded'
    <2>1. CASE Quit(p) /\ UNCHANGED keyFile
      BY <1>1, <1>3, <2>1 DEF CreateKeyFile
    <2>2. CASE /\ keyFile' = [keyFile EXCEPT ![command[p].path] = Partial(held[p].kid)]
               /\ keyPc' = [keyPc EXCEPT ![p] = "fill"]
               /\ UNCHANGED <<command, held>>
      <3>1. held[p].kid \in 1 .. Len(made) /\ UNCHANGED made
        BY <1>3 DEF CreateKeyFile, HeldOK, KeyPair
      <3>2. \A k : Partial(k).kid = k
        BY DEF Partial
      <3> QED
        BY <2>2, <3>1, <3>2 DEF Bounded
    <2> QED
      BY <1>3, <2>1, <2>2 DEF CreateKeyFile
  <1>4. ASSUME NEW p \in KeyProcesses, FillKeyFile(p)
        PROVE  Bounded'
    <2>1. held[p].state = "whole" /\ Quit(p) /\ UNCHANGED made
      BY <1>4 DEF FillKeyFile, HeldOK, KeyPair
    <2>2. \A f \in Paths : keyFile'[f] = keyFile[f] \/ keyFile'[f] = held[p]
      BY <1>4 DEF FillKeyFile
    <2> QED
      BY <2>1, <2>2 DEF Quit, Bounded
  <1>5. ASSUME NEW p \in KeyProcesses, LoadKeyFile(p)
        PROVE  Bounded'
    <2>1. keyPc[p] = "load" /\ UNCHANGED <<keyFile, made>>
      BY <1>5 DEF LoadKeyFile
    <2>2. \/ Quit(p)
          \/ /\ keyPc'[p] # "down"
             /\ \A q \in KeyProcesses : q # p => /\ keyPc'[q] = keyPc[q]
                                              /\ command'[q] = command[q]
                                              /\ held'[q] = held[q]
      BY <1>5 DEF LoadKeyFile
    <2> QED
      BY <1>1, <2>1, <2>2 DEF Bounded
  <1>6. ASSUME NEW f \in Paths, DeleteKey(f) \/ \E part \in DOMAIN Damaged : DamageKey(f, part)
        PROVE  Bounded'
    <2>1. UNCHANGED <<keyPc, command, held, made>>
      BY <1>6 DEF DeleteKey, DamageKey
    <2>2. \A g \in Paths : keyFile'[g] = keyFile[g] \/ keyFile'[g].state # "partial"
      <3>1. CASE DeleteKey(f)
        BY <3>1 DEF DeleteKey, NoKey
      <3>2. CASE \E part \in DOMAIN Damaged : DamageKey(f, part)
        BY <3>2 DEF DamageKey, Damaged, Contents
      <3> QED
        BY <1>6, <3>1, <3>2
    <2> QED
      BY <2>1, <2>2 DEF Bounded
  <1>7. CASE UNCHANGED keyVars
    BY <1>7 DEF keyVars, Bounded
  <1> QED
    BY <1>1, <1>2, <1>3, <1>4, <1>5, <1>6, <1>7
    DEF KeyNext, PostKey, PostRefused, KeyCrash, Purposes

\* Type correctness of key files, and no process holds a key past its command.
THEOREM KeyTypes == KeySpec => []KeyTypeOK
  <1>1. KeyInit => Bounded
    BY DEF KeyInit, Bounded, NoKey
  <1>2. IInv /\ Bounded /\ [KeyNext]_keyVars => Bounded'
    BY BoundedStep
  <1>3. IInv /\ Bounded => KeyTypeOK
    <2> SUFFICES ASSUME IInv, Bounded, NEW f \in Paths
                 PROVE  keyFile[f] \in [state : {"missing", "partial", "whole"},
                                        kid : -1 .. Len(made), bundle : -2 .. Len(made),
                                        seed : -3 .. Len(made), purpose : Purposes \cup {"none"}]
      BY DEF KeyTypeOK, Bounded
    <2> DEFINE c == keyFile[f]
    <2>1. /\ c \in Contents /\ Len(made) \in Nat
      BY DEF IInv, Types
    <2>2. /\ c.kid \in -1 .. Len(made) /\ c.bundle \in -2 .. Len(made)
          /\ c.seed \in -3 .. Len(made)
      <3>1. CASE c.state = "missing"
        <4>1. c.kid = 0 /\ c.bundle = 0 /\ c.seed = 0
          BY <3>1 DEF IInv, FilesOK, ContentOK, NoKey
        <4> QED
          BY <2>1, <4>1
      <3>2. CASE c.state = "partial"
        <4>1. c.kid \in 1 .. Len(made)
          BY <3>2 DEF Bounded
        <4>2. c = Partial(c.kid)
          BY <3>2 DEF IInv, FilesOK, ContentOK
        <4>3. \A k : Partial(k).bundle = 0 /\ Partial(k).seed = 0
          BY DEF Partial
        <4>4. c.bundle = 0 /\ c.seed = 0
          BY <4>2, <4>3
        <4> QED
          BY <2>1, <4>1, <4>4
      <3>3. CASE c.state = "whole"
        <4>1. PICK k \in 1 .. Len(made) :
                  c.kid \in {k, -1} /\ c.bundle \in {k, -2} /\ c.seed \in {k, -3}
          BY <3>3 DEF IInv, FilesOK, ContentOK
        <4> HIDE DEF c
        <4> QED
          BY <2>1, <4>1
      <3> QED
        BY <2>1, <3>1, <3>2, <3>3 DEF Contents
    <2> QED
      BY <2>1, <2>2 DEF Contents
  <1> QED
    BY <1>1, <1>2, <1>3, KeyInvariant, PTL DEF KeySpec

=============================================================================
