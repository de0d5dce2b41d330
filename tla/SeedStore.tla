------------------------------ MODULE SeedStore ------------------------------
(***************************************************************************)
(* The operator's encrypted seed and the passphrase that opens it: `seed   *)
(* init`, `seed keychain enable` and `disable`                             *)
(* (src/src/cli/commands/seed.ts), the macOS Keychain entry                *)
(* (src/src/cli/keychain.ts), and what a command that signs is offered     *)
(* (src/src/cli/prompt.ts, src/src/cli/seedStore.ts).  Commands run at any *)
(* number of terminals, a command's prompts and checks take their time,    *)
(* and the Keychain is reached through a program whose exit status says    *)
(* nothing.                                                                *)
(*                                                                         *)
(* A blob is the seed it holds and the passphrase that opens it.  Each     *)
(* terminal has an environment of its own: it holds a blob, names the one  *)
(* seed file, or does neither.  One `keychain enable` runs at a time, and  *)
(* its write, read-back and deletion are one step.  Commands without a     *)
(* terminal are turned away before they read anything and are no steps,    *)
(* nor are those that find a platform without Keychain.                    *)
(***************************************************************************)
EXTENDS Integers

CONSTANTS
    Terminals,      \* shells of the operator's machine
    Seeds,          \* mnemonics
    Passphrases,    \* what the operator may type
    NoBlob,         \* no seed file, or nothing set in the environment
    TheFile,        \* an environment that names the seed file
    NoEntry,        \* the Keychain holds no entry
    Mangled,        \* what `security` stored is not what it was given
    MaxSeedInits    \* bound: runs of `seed init`

ASSUME PassphraseAssumption == {NoEntry, Mangled} \cap Passphrases = {}

Blob == [seed : Seeds, pass : Passphrases]

\* excused: the entry was of no use, and known to be.
Attempt == [by : {"typed", "entry"}, opened : BOOLEAN, excused : BOOLEAN]

ASSUME BlobAssumption == {NoBlob, TheFile} \cap Blob = {} /\ NoBlob # TheFile
ASSUME SeedInitsAssumption == MaxSeedInits \in Nat

VARIABLES
    seedFile,   \* the blob in the file
    env,        \* STABLERAILS_ENCRYPTED_SEED, or STABLERAILS_SEED_FILE, of each
                \* terminal
    entry,      \* the passphrase in the Keychain
    enabling,   \* the passphrase `keychain enable` has checked and not stored
    attempt,    \* what came of the last command that had to open the seed
    \* history
    seedInits,  \* runs of `seed init`
    checked,    \* the blob in use when the passphrase of each was checked
    misstored   \* `keychain enable` said the store failed, and the entry stayed

seedVars == <<seedFile, env, entry, enabling, attempt, seedInits, checked, misstored>>

SeedTypeOK ==
    /\ seedFile \in Blob \cup {NoBlob}
    /\ env \in [Terminals -> Blob \cup {NoBlob, TheFile}]
    /\ entry \in Passphrases \cup {NoEntry, Mangled}
    /\ enabling \in Passphrases \cup {NoEntry}
    /\ attempt \in Attempt
    /\ seedInits \in 0 .. MaxSeedInits
    /\ checked \in [{"entry", "enabling"} -> Blob \cup {NoBlob}]
    /\ misstored \in BOOLEAN

SeedInit ==
    /\ seedFile \in Blob \cup {NoBlob}
    /\ env \in [Terminals -> {NoBlob, TheFile}]
    /\ entry = NoEntry /\ enabling = NoEntry
    /\ attempt = [by |-> "typed", opened |-> TRUE, excused |-> FALSE]
    /\ seedInits = 0 /\ misstored = FALSE
    /\ checked = [what \in {"entry", "enabling"} |-> NoBlob]

\* encryptedSeedFromEnv: a blob in the environment goes before the file.
CurrentBlob(t) == IF env[t] = TheFile THEN seedFile ELSE env[t]

Opens(t, pass) == CurrentBlob(t) # NoBlob /\ pass = CurrentBlob(t).pass

-----------------------------------------------------------------------------

\* seed init writes over the file, whatever it held ...
InitWritesFile(blob) ==
    /\ seedInits < MaxSeedInits
    /\ seedFile' = blob
    /\ seedInits' = seedInits + 1
    /\ UNCHANGED <<env, entry, enabling, attempt, checked, misstored>>

\* ... or, where none is named, prints the blob, and the operator exports it at
\* some terminals.
InitIsExported(blob) ==
    /\ seedInits < MaxSeedInits
    /\ \E exported \in SUBSET Terminals :
          env' = [t \in Terminals |-> IF t \in exported THEN blob ELSE env[t]]
    /\ seedInits' = seedInits + 1
    /\ UNCHANGED <<seedFile, entry, enabling, attempt, checked, misstored>>

\* A terminal is set up afresh, or as another one is.
SetUp(t) ==
    /\ \E set \in {NoBlob, TheFile} \cup {env[u] : u \in Terminals} :
          env' = [env EXCEPT ![t] = set]
    /\ UNCHANGED <<seedFile, entry, enabling, attempt, seedInits, checked, misstored>>

\* Slip: the passphrase is stored as it was typed.
SlipEnableChecks(t, pass) ==
    /\ enabling = NoEntry /\ CurrentBlob(t) # NoBlob
    /\ enabling' = pass
    /\ checked' = [checked EXCEPT !["enabling"] = CurrentBlob(t)]
    /\ UNCHANGED <<seedFile, env, entry, attempt, seedInits, misstored>>

\* keychain enable: the passphrase typed has to open the seed in use.
EnableChecks(t, pass) ==
    /\ enabling = NoEntry
    /\ Opens(t, pass)
    /\ enabling' = pass
    /\ checked' = [checked EXCEPT !["enabling"] = CurrentBlob(t)]
    /\ UNCHANGED <<seedFile, env, entry, attempt, seedInits, misstored>>

\* Touch ID fails, or the terminal goes away: nothing was stored.
EnableEnds ==
    /\ enabling # NoEntry
    /\ enabling' = NoEntry
    /\ UNCHANGED <<seedFile, env, entry, attempt, seedInits, checked, misstored>>

\* storeKeychainPassphrase: write, read back, and delete what is not the same.
\* The entry stays if it cannot be read back, or the deletion, whose error is
\* swallowed, fails.
EnableStores ==
    /\ enabling # NoEntry
    /\ \E stored \in {enabling, Mangled, entry}, readable, deleted \in BOOLEAN :
          LET same == readable /\ stored = enabling
              gone == readable /\ ~same /\ deleted
          IN  /\ entry' = IF gone THEN NoEntry ELSE stored
              /\ misstored' = (~same /\ ~gone)
              /\ checked' = IF same
                            THEN [checked EXCEPT !["entry"] = checked["enabling"]]
                            ELSE checked
    /\ enabling' = NoEntry
    /\ UNCHANGED <<seedFile, env, attempt, seedInits>>

\* keychain disable.
Disable ==
    /\ entry' = NoEntry
    /\ misstored' = FALSE
    /\ UNCHANGED <<seedFile, env, enabling, attempt, seedInits, checked>>

\* promptSeedPassphrase, then encryptedSeedFromEnv and decryptSeed.  The entry
\* is offered if there is one that is neither switched off nor kept back by
\* Touch ID; what does not open the seed is not followed by another prompt.
Sign(t) ==
    /\ \/ \E pass \in Passphrases :
             attempt' = [by |-> "typed", opened |-> Opens(t, pass), excused |-> FALSE]
       \/ /\ entry # NoEntry
          /\ attempt' = [by |-> "entry", opened |-> Opens(t, entry),
                         excused |-> misstored \/ CurrentBlob(t) # checked["entry"]]
    /\ UNCHANGED <<seedFile, env, entry, enabling, seedInits, checked, misstored>>

SeedNext ==
    \/ \E blob \in Blob : InitWritesFile(blob) \/ InitIsExported(blob)
    \/ \E t \in Terminals :
          \/ SetUp(t) \/ Sign(t)
          \/ \E pass \in Passphrases : EnableChecks(t, pass)
    \/ EnableEnds \/ EnableStores \/ Disable

SeedSpec == SeedInit /\ [][SeedNext]_seedVars

-----------------------------------------------------------------------------
(* Property *)

\* Wherever the seed in use is the one that the passphrase in the Keychain was
\* checked against, Touch ID opens it, unless the command that stored the
\* passphrase said that it had failed.
EntryOpensSeed ==
    attempt.by = "entry" => attempt.opened \/ attempt.excused
=============================================================================
