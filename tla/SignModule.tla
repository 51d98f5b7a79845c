----------------------------- MODULE SignModule -----------------------------
(***************************************************************************)
(* `make` of the whole repository, one after another: the Makefile starts  *)
(* a sub-make for every sample, up to `jobs` at a time, and each of them,  *)
(* once its module is built in a directory of its own, runs                *)
(* scripts/sign-module.sh.  What the samples share, and what a make leaves *)
(* to the next one, is the local key pair, MOK.priv and MOK.der, which the *)
(* first script that misses one of the two files generates.                *)
(*                                                                         *)
(* openssl and sign-file are not part of the repository: openssl creates   *)
(* and then fills the key file, then the certificate, in place, and may    *)
(* fail on the way; sign-file reads the key, then the certificate, and     *)
(* refuses a pair that does not match.                                     *)
(***************************************************************************)
EXTENDS Naturals, FiniteSets

CONSTANTS
  Samples,     \* the samples
  Pairs,       \* the key pairs openssl may generate
  FirstJobs,   \* the -j of a make that starts without one of the two files
  Jobs,        \* the -j of a make that starts with both
  FirstFiles   \* what MOK.priv and MOK.der are before the first make

(***************************************************************************)
(* A file is absent, partial (empty or cut short), or its half of a pair.  *)
(***************************************************************************)
Contents == {"absent", "partial"} \cup Pairs

ASSUME SignAssumption ==
  /\ IsFiniteSet(Samples)
  /\ {"absent", "partial"} \cap Pairs = {}
  /\ FirstJobs \cup Jobs \subseteq Nat \ {0}
  /\ FirstFiles \subseteq Contents \X Contents

VARIABLES
  jobs,                 \* make -j jobs
  sign_file, openssl,   \* the two tools are there
  key, cert,            \* MOK.priv and MOK.der
  step,                 \* where the build of each sample is
  signer                \* the pair openssl has made, or the key sign-file
                        \* has read, for each sample

vars == <<jobs, sign_file, openssl, key, cert, step, signer>>
tools == <<jobs, sign_file, openssl>>

Generating == {"open_key", "write_key", "open_cert", "write_cert"}
Running == {"check", "read_key", "read_cert"} \cup Generating
Failed == {"not_generated", "not_signed", "interrupted"}
Ended == {"signed", "unsigned"} \cup Failed

TypeOK ==
  /\ jobs \in Nat \ {0} /\ sign_file \in BOOLEAN /\ openssl \in BOOLEAN
  /\ key \in Contents /\ cert \in Contents
  /\ step \in [Samples -> {"waiting"} \cup Running \cup Ended]
  /\ signer \in [Samples -> Contents]

\* The jobs of a make that finds the files k and c.
JobsWith(k, c) == IF "absent" \in {k, c} THEN FirstJobs ELSE Jobs

Init ==
  /\ sign_file \in BOOLEAN /\ openssl \in BOOLEAN
  /\ \E f \in FirstFiles : key = f[1] /\ cert = f[2]
  /\ jobs \in JobsWith(key, cert)
  /\ step = [s \in Samples |-> "waiting"]
  /\ signer = [s \in Samples |-> "absent"]

-----------------------------------------------------------------------------
Goto(s, from, to) == step[s] = from /\ step' = [step EXCEPT ![s] = to]

At(steps) == {s \in Samples : step[s] \in steps}

\* make starts no new job after one has failed.
StartBuild(s) ==
  /\ At(Failed) = {}
  /\ Cardinality(At(Running)) < jobs
  /\ Goto(s, "waiting", "check")
  /\ UNCHANGED <<tools, key, cert, signer>>

\* Fault: only the key is looked for.
KeyMissingOnly == key = "absent"

KeyMissing == key = "absent" \/ cert = "absent"

\* sign-file is missing: the module stays unsigned and the script succeeds.
NoSignFile(s) ==
  /\ ~sign_file
  /\ Goto(s, "check", "unsigned")
  /\ UNCHANGED <<tools, key, cert, signer>>

\* A key is needed and openssl is missing: likewise.
NoOpenssl(s) ==
  /\ sign_file /\ KeyMissing /\ ~openssl
  /\ Goto(s, "check", "unsigned")
  /\ UNCHANGED <<tools, key, cert, signer>>

\* openssl req is run to make the key ...
GenerateKey(s) ==
  /\ sign_file /\ KeyMissing /\ openssl
  /\ Goto(s, "check", "open_key")
  /\ UNCHANGED <<tools, key, cert, signer>>

\* ... or the files that are there are used, whatever is in them.
UseKey(s) ==
  /\ sign_file /\ ~KeyMissing
  /\ Goto(s, "check", "read_key")
  /\ UNCHANGED <<tools, key, cert, signer>>

OpenKey(s) ==
  /\ Goto(s, "open_key", "write_key")
  /\ key' = "partial"
  /\ UNCHANGED <<tools, cert, signer>>

\* A pair is never generated twice.
WriteKey(s) ==
  /\ Goto(s, "write_key", "open_cert")
  /\ \E p \in Pairs :
       /\ p \notin {key, cert} /\ \A t \in Samples : p # signer[t]
       /\ key' = p
       /\ signer' = [signer EXCEPT ![s] = p]
  /\ UNCHANGED <<tools, cert>>

OpenCert(s) ==
  /\ Goto(s, "open_cert", "write_cert")
  /\ cert' = "partial"
  /\ UNCHANGED <<tools, key, signer>>

WriteCert(s) ==
  /\ Goto(s, "write_cert", "read_key")
  /\ cert' = signer[s]
  /\ UNCHANGED <<tools, key, signer>>

(***************************************************************************)
(* openssl fails, before, between or within its writes: set -e ends the    *)
(* script, and the files stay as they are.                                 *)
(***************************************************************************)
OpensslFails(s) ==
  /\ \E from \in Generating : Goto(s, from, "not_generated")
  /\ UNCHANGED <<tools, key, cert, signer>>

Readable(file) == file \notin {"absent", "partial"}

\* sign-file reads the key; set -e turns its failure into the script's.
ReadKey(s) ==
  /\ Goto(s, "read_key", IF Readable(key) THEN "read_cert" ELSE "not_signed")
  /\ signer' = [signer EXCEPT ![s] = key]
  /\ UNCHANGED <<tools, key, cert>>

\* It reads the certificate of that key and signs the module.
ReadCert(s) ==
  /\ Goto(s, "read_cert", IF cert = signer[s] THEN "signed" ELSE "not_signed")
  /\ UNCHANGED <<tools, key, cert, signer>>

-----------------------------------------------------------------------------
MakeEnded ==
  /\ At(Running) = {}
  /\ At(Failed) # {} \/ At({"waiting"}) = {}

\* make is interrupted, and with it whatever runs: the files stay as they are.
Interrupt ==
  /\ ~MakeEnded
  /\ step' = [s \in Samples |-> IF step[s] \in Ended THEN step[s] ELSE "interrupted"]
  /\ UNCHANGED <<tools, key, cert, signer>>

(***************************************************************************)
(* make is run again, on the files the one before has left: every sample   *)
(* is built and signed anew.  The tools may have come or gone.             *)
(***************************************************************************)
MakeAgain ==
  /\ MakeEnded
  /\ jobs' \in JobsWith(key, cert)
  /\ sign_file' \in BOOLEAN /\ openssl' \in BOOLEAN
  /\ step' = [s \in Samples |-> "waiting"]
  /\ signer' = [s \in Samples |-> "absent"]
  /\ UNCHANGED <<key, cert>>

BuildStep(s) ==
  \/ StartBuild(s)
  \/ NoSignFile(s) \/ NoOpenssl(s) \/ GenerateKey(s) \/ UseKey(s)
  \/ OpenKey(s) \/ WriteKey(s) \/ OpenCert(s) \/ WriteCert(s) \/ OpensslFails(s)
  \/ ReadKey(s) \/ ReadCert(s)

Next == (\E s \in Samples : BuildStep(s)) \/ Interrupt \/ MakeAgain

Spec == Init /\ [][Next]_vars

-----------------------------------------------------------------------------
(***************************************************************************)
(* Properties.                                                             *)
(***************************************************************************)

BothThere == "absent" \notin {key, cert}

\* The tools can sign: sign-file is there, and so are the files or openssl.
CanSign == sign_file /\ (openssl \/ BothThere)

\* Both files exist, which is all the script tests, but they are no pair.
BrokenPair == BothThere /\ ~(Readable(key) /\ key = cert)

\* This make was interrupted, or openssl failed in it.
Disturbed == At({"interrupted", "not_generated"}) # {}

\* What make promises of a sample: signed, or unsigned without the tools.
SignedIfPossible(s) ==
  IF CanSign THEN step[s] = "signed" /\ signer[s] = cert /\ key = cert
             ELSE step[s] = "unsigned"

(***************************************************************************)
(* When make returns, every module is signed, and with the pair that is    *)
(* then on disk, so that the certificate the user enrolls loads them all;  *)
(* without the tools, every module is left unsigned and make succeeds.  A  *)
(* module that is neither makes make fail, and it has a cause that is      *)
(* still to be seen: an interruption, a failure of openssl, or files that  *)
(* are no pair.  What was signed before stays signed with the pair on disk *)
(* (README.md:54-57 and 154-160; sign-module.sh:3-27).                     *)
(***************************************************************************)
SignedByKeyOnDisk ==
  MakeEnded =>
    \A s \in Samples :
      \/ SignedIfPossible(s)
      \/ (Disturbed \/ BrokenPair) /\ step[s] \in {"waiting"} \cup Failed

(***************************************************************************)
(* A make that nothing disturbs signs every module if the tools can,       *)
(* whatever became of the makes before: the scripts generate the pair that *)
(* a make before has not completed (README.md:54-57 and 162).              *)
(***************************************************************************)
NextMakeSigns ==
  MakeEnded /\ ~Disturbed => \A s \in Samples : SignedIfPossible(s)
=============================================================================
