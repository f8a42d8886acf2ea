------------------------------- MODULE KeyFile --------------------------------
(***************************************************************************)
(* The key files of sealed mode (sealed/keys.py) and the commands that     *)
(* work on them (cli.py): "sealed keygen" generates a key pair, creates    *)
(* its file exclusively, writes it and prints the fingerprint; "sealed     *)
(* fingerprint" and "sealed register" load a file and print, or send to    *)
(* the relay (sealed/registry.py), the fingerprint of what they loaded.    *)
(*                                                                         *)
(* A key pair is a number; its fingerprint is a hash of the public bundle, *)
(* so the same number stands for it.  A key file holds that number three   *)
(* times: as its kid, in its public bundle, and in its private seeds.      *)
(*                                                                         *)
(* A definition named X_Something is X with a plausible bug, kept to show  *)
(* which property would notice it.                                         *)
(***************************************************************************)
EXTENDS Integers, Sequences

CONSTANTS
    KeyProcesses,    \* processes that execute sealed commands
    Paths,           \* the files named by --out and --key
    MaxCommands,     \* bound on the commands started
    MaxKeyFaults     \* bound on crashes, damage, deletions, failing requests

ASSUME KeyAssumption == MaxCommands \in Nat /\ MaxKeyFaults \in Nat

VARIABLES
    keyPc,       \* where each process is
    command,     \* what it executes: [kind, path, purpose]
    held,        \* the key pair it holds in memory
    keyFile,     \* the key files: [state, kid, bundle, seed, purpose]
    made,        \* the purpose of each key pair generated, in order
    announced,   \* history: fingerprints printed or registered: [path, key, purpose]
    spoiled,     \* history: what was damaged or deleted: [path, part]
    commands,    \* commands started
    keyFaults    \* faults so far

keyBounds == <<commands, keyFaults>>
keyVars == <<keyPc, command, held, keyFile, made, announced, spoiled, keyBounds>>

Purposes == {"recipient", "sender"}
NoKey == [state |-> "missing", kid |-> 0, bundle |-> 0, seed |-> 0, purpose |-> "none"]
Partial(k) ==  \* created for key k
    [state |-> "partial", kid |-> k, bundle |-> 0, seed |-> 0, purpose |-> "none"]
Damaged == [kid |-> -1, bundle |-> -2, seed |-> -3]          \* no two hash alike
Idle == [kind |-> "none", path |-> "none", purpose |-> "none"]

\* generate(): both halves, the bundle derived from them, and its fingerprint.
KeyPair(k, purpose) ==
    [state |-> "whole", kid |-> k, bundle |-> k, seed |-> k, purpose |-> purpose]

KeyInit ==
    /\ keyPc = [p \in KeyProcesses |-> "down"]
    /\ command = [p \in KeyProcesses |-> Idle]
    /\ held = [p \in KeyProcesses |-> NoKey]
    /\ keyFile = [f \in Paths |-> NoKey]
    /\ made = <<>>
    /\ announced = {} /\ spoiled = {}
    /\ commands = 0 /\ keyFaults = 0

KeyFault == keyFaults < MaxKeyFaults /\ keyFaults' = keyFaults + 1 /\ UNCHANGED commands

Begin(p, kind, path, purpose, l) ==
    /\ keyPc[p] = "down"
    /\ commands < MaxCommands
    /\ commands' = commands + 1
    /\ command' = [command EXCEPT ![p] = [kind |-> kind, path |-> path, purpose |-> purpose]]
    /\ keyPc' = [keyPc EXCEPT ![p] = l]
    /\ UNCHANGED <<keyFile, announced, spoiled, keyFaults>>

Quit(p) ==
    /\ keyPc' = [keyPc EXCEPT ![p] = "down"]
    /\ command' = [command EXCEPT ![p] = Idle]
    /\ held' = [held EXCEPT ![p] = NoKey]

Announce(p, key) ==
    announced' = announced \cup
        {[path |-> command[p].path, key |-> key.kid, purpose |-> key.purpose]}

-----------------------------------------------------------------------------
(* sealed keygen *)

\* The key pair is generated, in memory.
Keygen(p, path, purpose) ==
    /\ Begin(p, "keygen", path, purpose, "create")
    /\ made' = Append(made, purpose)
    /\ held' = [held EXCEPT ![p] = KeyPair(Len(made'), purpose)]

\* The file is opened without O_EXCL.
CreateKeyFile_Truncates(p) ==
    /\ keyPc[p] = "create"
    /\ keyFile' = [keyFile EXCEPT ![command[p].path] = Partial(held[p].kid)]
    /\ keyPc' = [keyPc EXCEPT ![p] = "fill"]
    /\ UNCHANGED <<command, held, made, announced, spoiled, keyBounds>>

\* os.open(O_CREAT | O_EXCL): the file is created, empty, or the command ends.
CreateKeyFile(p) ==
    /\ keyPc[p] = "create"
    /\ IF keyFile[command[p].path] = NoKey
       THEN /\ keyFile' = [keyFile EXCEPT ![command[p].path] = Partial(held[p].kid)]
            /\ keyPc' = [keyPc EXCEPT ![p] = "fill"]
            /\ UNCHANGED <<command, held>>
       ELSE Quit(p) /\ UNCHANGED keyFile
    /\ UNCHANGED <<made, announced, spoiled, keyBounds>>

\* The document is written to the file that was created, which may have been
\* deleted since, and the fingerprint printed.
FillKeyFile(p) ==
    /\ keyPc[p] = "fill"
    /\ keyFile' = [keyFile EXCEPT ![command[p].path] =
                      IF @ = Partial(held[p].kid) THEN held[p] ELSE @]
    /\ Announce(p, held[p])
    /\ Quit(p)
    /\ UNCHANGED <<made, spoiled, keyBounds>>

-----------------------------------------------------------------------------
(* sealed fingerprint, sealed register *)

\* "fingerprint" tries the file as a recipient key first.
Fingerprint(p, path) ==
    /\ Begin(p, "fingerprint", path, "recipient", "load")
    /\ UNCHANGED <<held, made>>

\* "register" wants a recipient key with --client, a sender key with --strategy.
RegisterKey(p, path, purpose) ==
    /\ Begin(p, "register", path, purpose, "load")
    /\ UNCHANGED <<held, made>>

\* _read_private_file: JSON of the right kind and purpose, whose kid is the
\* fingerprint of its bundle.
Readable(content, purpose) ==
    content.state = "whole" /\ content.purpose = purpose /\ content.kid = content.bundle

\* load() rebuilds the key pair from the seeds and the bundle's created_at: with
\* either of them damaged, one that keygen never generated.
Rebuilt(content) ==
    KeyPair(IF content.seed = content.bundle THEN content.seed ELSE 0, content.purpose)

\* A file that does not load ends the command, except that "fingerprint" goes on
\* to read it as a sender key.
LoadKeyFile(p) ==
    /\ keyPc[p] = "load"
    /\ LET content == keyFile[command[p].path] IN
       CASE Readable(content, command[p].purpose) /\ command[p].kind = "register" ->
               /\ held' = [held EXCEPT ![p] = Rebuilt(content)]
               /\ keyPc' = [keyPc EXCEPT ![p] = "post"]
               /\ UNCHANGED <<command, announced>>
         [] Readable(content, command[p].purpose) /\ command[p].kind = "fingerprint" ->
               Announce(p, Rebuilt(content)) /\ Quit(p)
         [] ~Readable(content, command[p].purpose)
               /\ command[p].kind = "fingerprint" /\ command[p].purpose = "recipient" ->
               /\ command' = [command EXCEPT ![p].purpose = "sender"]
               /\ UNCHANGED <<keyPc, held, announced>>
         [] OTHER -> Quit(p) /\ UNCHANGED announced
    /\ UNCHANGED <<keyFile, made, spoiled, keyBounds>>

\* The bundle and its fingerprint are posted, and the relay stores them.
PostKey(p) ==
    /\ keyPc[p] = "post"
    /\ Announce(p, held[p])
    /\ Quit(p)
    /\ UNCHANGED <<keyFile, made, spoiled, keyBounds>>

\* The relay refuses the key.
PostRefused(p) ==
    /\ keyPc[p] = "post"
    /\ KeyFault
    /\ Quit(p)
    /\ UNCHANGED <<keyFile, made, announced, spoiled>>

-----------------------------------------------------------------------------
(* Faults *)

\* The process dies or its write fails: nothing removes a partial file.
KeyCrash(p) ==
    /\ keyPc[p] # "down"
    /\ KeyFault
    /\ Quit(p)
    /\ UNCHANGED <<keyFile, made, announced, spoiled>>

\* A part of a file is damaged from outside, and still parses.
DamageKey(f, part) ==
    /\ keyFile[f].state = "whole"
    /\ KeyFault
    /\ keyFile' = [keyFile EXCEPT ![f][part] = Damaged[part]]
    /\ spoiled' = spoiled \cup {[path |-> f, part |-> part]}
    /\ UNCHANGED <<keyPc, command, held, made, announced>>

\* The operator deletes a file, which is the only way past a partial one.
DeleteKey(f) ==
    /\ keyFile[f] # NoKey
    /\ KeyFault
    /\ keyFile' = [keyFile EXCEPT ![f] = NoKey]
    /\ spoiled' = spoiled \cup {[path |-> f, part |-> "file"]}
    /\ UNCHANGED <<keyPc, command, held, made, announced>>

KeyNext ==
    \/ \E p \in KeyProcesses :
          \/ \E path \in Paths, purpose \in Purposes :
                Keygen(p, path, purpose) \/ RegisterKey(p, path, purpose)
          \/ \E path \in Paths : Fingerprint(p, path)
          \/ CreateKeyFile(p) \/ FillKeyFile(p)
          \/ LoadKeyFile(p)
          \/ PostKey(p) \/ PostRefused(p)
          \/ KeyCrash(p)
    \/ \E f \in Paths : DeleteKey(f) \/ \E part \in DOMAIN Damaged : DamageKey(f, part)

KeySpec == KeyInit /\ [][KeyNext]_keyVars

-----------------------------------------------------------------------------
(* Properties *)

\* Type correctness; a process that ended holds nothing.
KeyTypeOK ==
    /\ \A f \in Paths :
          keyFile[f] \in [state : {"missing", "partial", "whole"}, kid : -1 .. Len(made),
                          bundle : -2 .. Len(made), seed : -3 .. Len(made),
                          purpose : Purposes \cup {"none"}]
    /\ \A p \in KeyProcesses : keyPc[p] = "down" => command[p] = Idle /\ held[p] = NoKey

Spoiled(f, part) == [path |-> f, part |-> part] \in spoiled

\* The key behind a fingerprint was generated for its purpose, unless the seeds
\* were damaged, and its private half is still in the file it came from, unless
\* that was damaged or deleted.
Kept(n) ==
    /\ Spoiled(n.path, "seed") \/ (n.key \in DOMAIN made /\ made[n.key] = n.purpose)
    /\ \/ Spoiled(n.path, "seed") \/ Spoiled(n.path, "file")
       \/ keyFile[n.path].seed = n.key

\* No fingerprint that peers were given loses its key, whatever key files are
\* generated, by several processes under one name, abandoned and damaged.
KeysKept == \A n \in announced : Kept(n)

=============================================================================
