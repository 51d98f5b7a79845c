------------------------- MODULE SignModule_proofs -------------------------
(***************************************************************************)
(* Unless make -j has to generate the key pair, every module is signed     *)
(* with the pair on disk, or make fails for a cause that can be seen: for  *)
(* any samples and numbers of jobs, whatever the files are at first, and   *)
(* through any interruptions and failures of openssl.  Either the scripts  *)
(* run one at a time, or none of them writes a file they share.            *)
(***************************************************************************)
EXTENDS SignModule, FiniteSetTheorems, TLAPS

\* One script at a time and none after a failure, or none that generates a pair.
NoRaceInv ==
  /\ jobs = 1 => /\ \A s, t \in At(Running) : s = t
                 /\ At(Running) # {} => At(Failed) = {}
  /\ jobs # 1 => ~KeyMissing /\ At(Generating) = {}

\* What the build of a sample knows of the files.
BuildInv(s) ==
  /\ step[s] = "unsigned" => ~CanSign
  /\ step[s] = "not_signed" => BrokenPair
  /\ step[s] \in Generating => sign_file /\ openssl /\ At({"signed"}) = {}
  /\ step[s] \in {"open_cert", "write_cert"} => key = signer[s] /\ key \in Pairs
  /\ step[s] \in {"read_key", "read_cert", "signed"} => sign_file /\ ~KeyMissing
  /\ step[s] \in {"read_cert", "signed"} => signer[s] = key /\ Readable(key)
  /\ step[s] = "signed" => key = cert

IInv == TypeOK /\ NoRaceInv /\ \A s \in Samples : BuildInv(s)

-----------------------------------------------------------------------------
\* The program points, distinct and typed.
LEMMA Points ==
  /\ Running \cap Ended = {} /\ "waiting" \notin Running \cup Ended
  /\ Generating \subseteq Running /\ Failed \subseteq Ended
BY DEF Running, Ended, Failed, Generating

LEMMA AtDef == \A S : \A s : s \in At(S) <=> s \in Samples /\ step[s] \in S
BY DEF At

\* At most zero builds running are none.
LEMMA NoneRunning ==
  ASSUME Cardinality(At(Running)) < 1
  PROVE  At(Running) = {}
<1>1. IsFiniteSet(At(Running))
  BY SignAssumption, FS_Subset DEF SignAssumption, At
<1>2. Cardinality(At(Running)) \in Nat
  BY <1>1, FS_CardinalityType
<1>3. Cardinality(At(Running)) = 0
  BY <1>2
<1> QED
  BY <1>1, <1>3, FS_EmptySet

\* While a pair is generated, every other build waits.
LEMMA Alone ==
  ASSUME IInv, NEW s \in Samples, step[s] \in Generating
  PROVE  /\ jobs = 1 /\ sign_file /\ openssl
         /\ \A t \in Samples \ {s} : step[t] = "waiting"
<1>1. jobs = 1
  BY AtDef DEF IInv, NoRaceInv
<1>2. sign_file /\ openssl /\ At({"signed"}) = {}
  BY DEF IInv, BuildInv
<1>3. s \in At(Running)
  BY AtDef, Points
<1>4. ASSUME NEW t \in Samples \ {s} PROVE step[t] = "waiting"
  <2>1. step[t] \notin Running /\ step[t] \notin Failed
    BY <1>1, <1>3, AtDef DEF IInv, NoRaceInv
  <2>2. step[t] # "signed"
    BY <1>2, AtDef
  <2>3. step[t] # "unsigned"
    BY <1>2 DEF IInv, BuildInv, CanSign
  <2> QED
    BY <2>1, <2>2, <2>3 DEF IInv, TypeOK, Ended
<1> QED
  BY <1>1, <1>2, <1>4

-----------------------------------------------------------------------------
\* The jobs of a make are a number, and only one if it may generate the pair.
LEMMA JobsSafe ==
  ASSUME FirstJobs \subseteq {1}, NEW k, NEW c, NEW j \in JobsWith(k, c)
  PROVE  j \in Nat \ {0} /\ (j # 1 => k # "absent" /\ c # "absent")
BY SignAssumption DEF SignAssumption, JobsWith

LEMMA InitIInv ==
  ASSUME FirstJobs \subseteq {1}, Init
  PROVE  IInv
<1>1. key \in Contents /\ cert \in Contents
  BY SignAssumption DEF Init, SignAssumption
<1>2. jobs \in Nat \ {0} /\ (jobs # 1 => ~KeyMissing)
  BY JobsSafe DEF Init, KeyMissing, BothThere
<1>3. \A s \in Samples : step[s] = "waiting"
  BY DEF Init
<1>4. TypeOK
  BY <1>1, <1>2 DEF Init, TypeOK, Contents
<1>5. At(Running) = {} /\ At(Generating) = {}
  BY <1>3, Points DEF At
<1>6. NoRaceInv
  BY <1>2, <1>5 DEF NoRaceInv
<1>7. \A s \in Samples : BuildInv(s)
  BY <1>3 DEF BuildInv, Generating
<1> QED
  BY <1>4, <1>6, <1>7 DEF IInv

LEMMA TypeStep ==
  ASSUME TypeOK, NEW s \in Samples, BuildStep(s)
  PROVE  TypeOK'
<1>1. UNCHANGED tools
  BY DEF BuildStep, StartBuild, NoSignFile, NoOpenssl, GenerateKey, UseKey, OpenKey,
         WriteKey, OpenCert, WriteCert, OpensslFails, ReadKey, ReadCert
<1>2. key' \in Contents /\ cert' \in Contents
  BY DEF BuildStep, StartBuild, NoSignFile, NoOpenssl, GenerateKey, UseKey, OpenKey,
         WriteKey, OpenCert, WriteCert, OpensslFails, ReadKey, ReadCert, TypeOK, Contents
<1>3. \E p \in Running \cup Ended : step' = [step EXCEPT ![s] = p]
  BY DEF BuildStep, StartBuild, NoSignFile, NoOpenssl, GenerateKey, UseKey, OpenKey,
         WriteKey, OpenCert, WriteCert, OpensslFails, ReadKey, ReadCert, Goto, Running,
         Ended, Failed, Generating
<1>4. signer' \in [Samples -> Contents]
  BY DEF BuildStep, StartBuild, NoSignFile, NoOpenssl, GenerateKey, UseKey, OpenKey,
         WriteKey, OpenCert, WriteCert, OpensslFails, ReadKey, ReadCert, TypeOK, Contents
<1> QED
  BY <1>1, <1>2, <1>3, <1>4 DEF TypeOK, tools

\* Where the other builds are does not change.
LEMMA OthersStay ==
  ASSUME TypeOK, NEW s \in Samples, NEW from, NEW to, Goto(s, from, to)
  PROVE  /\ step[s] = from /\ step'[s] = to
         /\ \A t \in Samples \ {s} : step'[t] = step[t]
BY DEF TypeOK, Goto

\* A step of build s other than its first keeps the builds that run alone.
LEMMA RaceKept ==
  ASSUME IInv, NEW s \in Samples, NEW from \in Running, NEW to, Goto(s, from, to),
         to \notin Failed \/ to \notin Running,
         jobs' = jobs,
         jobs # 1 => to \notin Generating /\ UNCHANGED <<key, cert>>
  PROVE  NoRaceInv'
<1>1. step[s] = from /\ step'[s] = to /\ \A t \in Samples \ {s} : step'[t] = step[t]
  BY OthersStay DEF IInv
<1>2. ASSUME jobs = 1, NEW t \in Samples, step'[t] \in Running
      PROVE  t = s /\ \A u \in Samples : step'[u] \notin Failed
  <2>1. s \in At(Running) /\ At(Failed) = {}
    BY <1>1, <1>2, AtDef DEF IInv, NoRaceInv
  <2>2. t = s
    BY <1>1, <1>2, <2>1, AtDef DEF IInv, NoRaceInv
  <2>3. to \notin Failed
    BY <1>1, <1>2, <2>2
  <2> QED
    BY <1>1, <2>1, <2>2, <2>3, AtDef
<1>3. ASSUME jobs # 1 PROVE ~KeyMissing' /\ \A t \in Samples : step'[t] \notin Generating
  <2>1. ~KeyMissing /\ \A t \in Samples : step[t] \notin Generating
    BY <1>3, AtDef DEF IInv, NoRaceInv
  <2> QED
    BY <1>1, <1>3, <2>1 DEF KeyMissing, BothThere
<1> QED
  BY <1>2, <1>3 DEF NoRaceInv, At

\* A step that writes neither file: what it has to show of its own build.
LEMMA FilesKept ==
  ASSUME IInv, NEW s \in Samples, NEW from \in Running, NEW to, Goto(s, from, to),
         to \notin Failed \/ to \notin Running,
         UNCHANGED <<tools, key, cert>>,
         \A t \in Samples \ {s} : signer'[t] = signer[t],
         to \in Generating => jobs = 1,
         BuildInv(s)'
  PROVE  NoRaceInv' /\ \A t \in Samples : BuildInv(t)'
<1>1. /\ step[s] = from /\ step'[s] = to
      /\ \A t \in Samples \ {s} : step'[t] = step[t]
  BY OthersStay DEF IInv
<1>2. NoRaceInv'
  BY RaceKept DEF tools
<1>3. ASSUME NEW t \in Samples \ {s} PROVE BuildInv(t)'
  <2>1. BuildInv(t) /\ step'[t] = step[t] /\ signer'[t] = signer[t]
    BY <1>1, <1>3 DEF IInv
  <2>2. step[t] \notin Generating
    BY <1>1, <1>3, Alone, Points
  <2> QED
    BY <2>1, <2>2
    DEF BuildInv, CanSign, BrokenPair, KeyMissing, BothThere, Readable, tools, Generating
<1> QED
  BY <1>2, <1>3

\* A step of openssl: the other builds wait, and know nothing of the files.
LEMMA OthersWait ==
  ASSUME IInv, NEW s \in Samples, NEW from \in Generating, NEW to, Goto(s, from, to),
         to \notin Failed \/ to \notin Running,
         jobs' = jobs,
         BuildInv(s)'
  PROVE  NoRaceInv' /\ \A t \in Samples : BuildInv(t)'
<1>1. /\ step[s] = from /\ step'[s] = to
      /\ \A t \in Samples \ {s} : step'[t] = step[t]
  BY OthersStay DEF IInv
<1>2. jobs = 1 /\ \A t \in Samples \ {s} : step[t] = "waiting"
  BY <1>1, Alone
<1>3. NoRaceInv'
  BY <1>2, RaceKept, Points
<1>4. \A t \in Samples \ {s} : BuildInv(t)'
  BY <1>1, <1>2 DEF BuildInv, Generating
<1> QED
  BY <1>3, <1>4

-----------------------------------------------------------------------------
(***************************************************************************)
(* One lemma per kind of step.                                             *)
(***************************************************************************)

LEMMA StartKeeps ==
  ASSUME IInv, NEW s \in Samples, StartBuild(s)
  PROVE  NoRaceInv' /\ \A t \in Samples : BuildInv(t)'
<1>1. /\ Goto(s, "waiting", "check") /\ UNCHANGED <<tools, key, cert, signer>>
      /\ At(Failed) = {}
  BY DEF StartBuild
<1>2. /\ step[s] = "waiting" /\ step'[s] = "check"
      /\ \A t \in Samples \ {s} : step'[t] = step[t]
  BY <1>1, OthersStay DEF IInv
<1>3. jobs = 1 => At(Running) = {}
  BY NoneRunning DEF StartBuild
<1>4. jobs' = 1 => \A t, u \in At(Running)' : t = u
  BY <1>1, <1>2, <1>3, Points DEF At, tools
<1>5. /\ At(Generating)' = At(Generating) /\ At({"signed"})' = At({"signed"})
      /\ At(Failed)' = {}
  BY <1>1, <1>2 DEF At, Generating, Failed
<1>6. NoRaceInv'
  BY <1>1, <1>4, <1>5 DEF IInv, NoRaceInv, KeyMissing, BothThere, tools
<1>7. BuildInv(s)'
  BY <1>2 DEF BuildInv, Generating
<1>8. ASSUME NEW t \in Samples \ {s} PROVE BuildInv(t)'
  <2>1. BuildInv(t) /\ step'[t] = step[t]
    BY <1>2, <1>8 DEF IInv
  <2> QED
    BY <1>1, <1>5, <2>1
    DEF BuildInv, CanSign, BrokenPair, KeyMissing, BothThere, Readable, tools
<1> QED
  BY <1>6, <1>7, <1>8

\* A build is left unsigned, for want of sign-file or of openssl.
LEMMA UnsignedKeeps ==
  ASSUME IInv, NEW s \in Samples, NoSignFile(s) \/ NoOpenssl(s)
  PROVE  NoRaceInv' /\ \A t \in Samples : BuildInv(t)'
<1>1. /\ Goto(s, "check", "unsigned") /\ UNCHANGED <<tools, key, cert>>
      /\ \A t \in Samples \ {s} : signer'[t] = signer[t]
  BY DEF NoSignFile, NoOpenssl
<1>2. step'[s] = "unsigned"
  BY <1>1, OthersStay DEF IInv
<1>3. ~CanSign
  BY DEF CanSign, KeyMissing, BothThere, NoSignFile, NoOpenssl
<1>4. BuildInv(s)'
  BY <1>1, <1>2, <1>3 DEF BuildInv, CanSign, KeyMissing, BothThere, tools, Generating
<1> QED
  BY <1>1, <1>4, FilesKept DEF Running, Failed, Generating

\* openssl is about to be run: no module has been signed yet.
LEMMA GenerateKeeps ==
  ASSUME IInv, NEW s \in Samples, GenerateKey(s)
  PROVE  NoRaceInv' /\ \A t \in Samples : BuildInv(t)'
<1>1. /\ Goto(s, "check", "open_key") /\ UNCHANGED <<tools, key, cert>>
      /\ \A t \in Samples \ {s} : signer'[t] = signer[t]
  BY DEF GenerateKey
<1>2. step[s] = "check" /\ step'[s] = "open_key" /\ \A t \in Samples \ {s} : step'[t] = step[t]
  BY <1>1, OthersStay DEF IInv
<1>3. KeyMissing /\ sign_file /\ openssl
  BY DEF GenerateKey
<1>4. jobs = 1
  BY <1>3 DEF IInv, NoRaceInv
<1>5. \A t \in Samples : step[t] # "signed"
  BY <1>3 DEF IInv, BuildInv
<1>6. At({"signed"})' = {}
  BY <1>2, <1>5 DEF At
<1>7. BuildInv(s)'
  BY <1>1, <1>2, <1>3, <1>6 DEF BuildInv, tools
<1> QED
  BY <1>1, <1>4, <1>7, FilesKept DEF Running, Failed

\* Both files are there.
LEMMA UseKeeps ==
  ASSUME IInv, NEW s \in Samples, UseKey(s)
  PROVE  NoRaceInv' /\ \A t \in Samples : BuildInv(t)'
<1>1. /\ Goto(s, "check", "read_key") /\ UNCHANGED <<tools, key, cert>>
      /\ \A t \in Samples \ {s} : signer'[t] = signer[t]
      /\ sign_file /\ ~KeyMissing
  BY DEF UseKey
<1>2. step'[s] = "read_key"
  BY <1>1, OthersStay DEF IInv
<1>3. BuildInv(s)'
  BY <1>1, <1>2 DEF BuildInv, KeyMissing, BothThere, tools, Generating
<1> QED
  BY <1>1, <1>3, FilesKept DEF Running, Failed, Generating

\* sign-file reads the key that is on disk, or refuses it.
LEMMA ReadKeyKeeps ==
  ASSUME IInv, NEW s \in Samples, ReadKey(s)
  PROVE  NoRaceInv' /\ \A t \in Samples : BuildInv(t)'
<1>1. step[s] = "read_key"
  BY DEF ReadKey, Goto
<1>2. sign_file /\ ~KeyMissing
  BY <1>1 DEF IInv, BuildInv
<1>3. /\ UNCHANGED <<tools, key, cert>>
      /\ signer'[s] = key /\ \A t \in Samples \ {s} : signer'[t] = signer[t]
  BY DEF ReadKey, IInv, TypeOK
<1>4. CASE Readable(key)
  <2>1. Goto(s, "read_key", "read_cert")
    BY <1>4 DEF ReadKey
  <2>2. step'[s] = "read_cert"
    BY <2>1, OthersStay DEF IInv
  <2>3. BuildInv(s)'
    BY <1>2, <1>3, <1>4, <2>2 DEF BuildInv, KeyMissing, BothThere, Readable, tools, Generating
  <2> QED
    BY <1>3, <2>1, <2>3, FilesKept DEF Running, Failed, Generating
<1>5. CASE ~Readable(key)
  <2>1. Goto(s, "read_key", "not_signed")
    BY <1>5 DEF ReadKey
  <2>2. step'[s] = "not_signed"
    BY <2>1, OthersStay DEF IInv
  <2>3. BrokenPair'
    BY <1>2, <1>3, <1>5 DEF BrokenPair, KeyMissing, BothThere, Readable
  <2>4. BuildInv(s)'
    BY <2>2, <2>3 DEF BuildInv, Generating
  <2> QED
    BY <1>3, <2>1, <2>4, FilesKept DEF Running, Generating
<1> QED
  BY <1>4, <1>5

\* sign-file signs the module, or refuses the certificate.
LEMMA ReadCertKeeps ==
  ASSUME IInv, NEW s \in Samples, ReadCert(s)
  PROVE  NoRaceInv' /\ \A t \in Samples : BuildInv(t)'
<1>1. step[s] = "read_cert"
  BY DEF ReadCert, Goto
<1>2. sign_file /\ ~KeyMissing /\ signer[s] = key /\ Readable(key)
  BY <1>1 DEF IInv, BuildInv
<1>3. UNCHANGED <<tools, key, cert, signer>>
  BY DEF ReadCert
<1>4. CASE cert = key
  <2>1. Goto(s, "read_cert", "signed")
    BY <1>2, <1>4 DEF ReadCert
  <2>2. step'[s] = "signed"
    BY <2>1, OthersStay DEF IInv
  <2>3. BuildInv(s)'
    BY <1>2, <1>3, <1>4, <2>2 DEF BuildInv, KeyMissing, BothThere, Readable, tools, Generating
  <2> QED
    BY <1>3, <2>1, <2>3, FilesKept DEF Running, Failed, Generating
<1>5. CASE cert # key
  <2>1. Goto(s, "read_cert", "not_signed")
    BY <1>2, <1>5 DEF ReadCert
  <2>2. step'[s] = "not_signed"
    BY <2>1, OthersStay DEF IInv
  <2>3. BrokenPair'
    BY <1>2, <1>3, <1>5 DEF BrokenPair, KeyMissing, BothThere
  <2>4. BuildInv(s)'
    BY <2>2, <2>3 DEF BuildInv, Generating
  <2> QED
    BY <1>3, <2>1, <2>4, FilesKept DEF Running, Generating
<1> QED
  BY <1>4, <1>5

\* The key file is created or emptied, then written.
LEMMA KeyKeeps ==
  ASSUME IInv, NEW s \in Samples, OpenKey(s) \/ WriteKey(s)
  PROVE  NoRaceInv' /\ \A t \in Samples : BuildInv(t)'
<1>1. step[s] \in {"open_key", "write_key"}
  BY DEF OpenKey, WriteKey, Goto
<1>2. /\ sign_file /\ openssl /\ \A t \in Samples \ {s} : step[t] = "waiting"
  BY <1>1, Alone DEF Generating
<1>3. UNCHANGED tools
  BY DEF OpenKey, WriteKey
<1>4. PICK from \in {"open_key", "write_key"}, to \in {"write_key", "open_cert"} :
        Goto(s, from, to) /\ (to = "open_cert" => WriteKey(s))
  BY DEF OpenKey, WriteKey
<1>5. step'[s] = to /\ \A t \in Samples \ {s} : step'[t] = step[t]
  BY <1>4, OthersStay DEF IInv
<1>6. At({"signed"})' = {}
  BY <1>2, <1>5 DEF At
<1>7. to = "open_cert" => key' = signer'[s] /\ key' \in Pairs
  BY <1>4 DEF WriteKey, IInv, TypeOK
<1>8. BuildInv(s)'
  BY <1>2, <1>3, <1>5, <1>6, <1>7 DEF BuildInv, tools
<1> QED
  BY <1>3, <1>4, <1>8, OthersWait DEF Generating, Failed, tools

\* The certificate file is created or emptied.
LEMMA OpenCertKeeps ==
  ASSUME IInv, NEW s \in Samples, OpenCert(s)
  PROVE  NoRaceInv' /\ \A t \in Samples : BuildInv(t)'
<1>1. Goto(s, "open_cert", "write_cert") /\ UNCHANGED <<tools, key, signer>>
  BY DEF OpenCert
<1>2. /\ step[s] = "open_cert" /\ step'[s] = "write_cert"
      /\ \A t \in Samples \ {s} : step'[t] = step[t]
  BY <1>1, OthersStay DEF IInv
<1>3. /\ sign_file /\ openssl /\ \A t \in Samples \ {s} : step[t] = "waiting"
  BY <1>2, Alone DEF Generating
<1>4. key = signer[s] /\ key \in Pairs
  BY <1>2 DEF IInv, BuildInv
<1>5. At({"signed"})' = {}
  BY <1>2, <1>3 DEF At
<1>6. BuildInv(s)'
  BY <1>1, <1>2, <1>3, <1>4, <1>5 DEF BuildInv, tools
<1> QED
  BY <1>1, <1>6, OthersWait DEF Generating, Failed, tools

\* The certificate is written: the pair is complete.
LEMMA WriteCertKeeps ==
  ASSUME IInv, NEW s \in Samples, WriteCert(s)
  PROVE  NoRaceInv' /\ \A t \in Samples : BuildInv(t)'
<1>1. Goto(s, "write_cert", "read_key") /\ cert' = signer[s] /\ UNCHANGED <<tools, key, signer>>
  BY DEF WriteCert
<1>2. step[s] = "write_cert" /\ step'[s] = "read_key"
  BY <1>1, OthersStay DEF IInv
<1>3. sign_file
  BY <1>2, Alone DEF Generating
<1>4. key = signer[s] /\ key \in Pairs
  BY <1>2 DEF IInv, BuildInv
<1>5. ~KeyMissing'
  BY <1>1, <1>4, SignAssumption DEF SignAssumption, KeyMissing, BothThere
<1>6. BuildInv(s)'
  BY <1>1, <1>2, <1>3, <1>5 DEF BuildInv, tools, Generating
<1> QED
  BY <1>1, <1>6, OthersWait DEF Generating, Failed, tools

\* openssl fails: nothing is known of the files but that nobody uses them.
LEMMA FailKeeps ==
  ASSUME IInv, NEW s \in Samples, OpensslFails(s)
  PROVE  NoRaceInv' /\ \A t \in Samples : BuildInv(t)'
<1> PICK from \in Generating : Goto(s, from, "not_generated")
  BY DEF OpensslFails
<1>1. step'[s] = "not_generated" /\ UNCHANGED tools
  BY OthersStay DEF IInv, OpensslFails
<1>2. BuildInv(s)'
  BY <1>1 DEF BuildInv, Generating
<1> QED
  BY <1>1, <1>2, OthersWait DEF Running, Generating, tools

\* The interrupted make runs nothing any more, and what has ended is as it was.
LEMMA InterruptKeeps ==
  ASSUME IInv, Interrupt
  PROVE  IInv'
<1>1. /\ UNCHANGED <<tools, key, cert, signer>>
      /\ \A s \in Samples : step'[s] = IF step[s] \in Ended THEN step[s] ELSE "interrupted"
  BY DEF Interrupt
<1>2. TypeOK'
  <2>1. step' \in [Samples -> {"waiting"} \cup Running \cup Ended]
    BY DEF Interrupt, Ended, Failed
  <2> QED
    BY <1>1, <2>1 DEF IInv, TypeOK, tools
<1>3. \A s \in Samples : step'[s] \in Ended
  BY <1>1 DEF Ended, Failed
<1>4. At(Running)' = {} /\ At(Generating)' = {}
  BY <1>3, Points DEF At
<1>5. NoRaceInv'
  BY <1>1, <1>4 DEF IInv, NoRaceInv, KeyMissing, BothThere, tools
<1>6. ASSUME NEW s \in Samples PROVE BuildInv(s)'
  <2>1. CASE step'[s] = "interrupted"
    BY <2>1 DEF BuildInv, Generating
  <2>2. CASE step'[s] = step[s]
    <3>1. step'[s] \notin Generating
      BY <1>3, Points
    <3>2. BuildInv(s)
      BY DEF IInv
    <3> QED
      BY <1>1, <2>2, <3>1, <3>2
         DEF BuildInv, CanSign, BrokenPair, KeyMissing, BothThere, Readable, tools, Generating
  <2> QED
    BY <1>1, <2>1, <2>2
<1> QED
  BY <1>2, <1>5, <1>6 DEF IInv

\* A make that is run again knows nothing of the files.
LEMMA AgainKeeps ==
  ASSUME FirstJobs \subseteq {1}, IInv, MakeAgain
  PROVE  IInv'
<1>1. /\ UNCHANGED <<key, cert>> /\ jobs' \in JobsWith(key, cert)
      /\ \A s \in Samples : step'[s] = "waiting"
  BY DEF MakeAgain
<1>2. jobs' \in Nat \ {0} /\ (jobs' # 1 => ~KeyMissing)
  BY <1>1, JobsSafe DEF KeyMissing, BothThere
<1>3. TypeOK'
  BY <1>1, <1>2 DEF MakeAgain, IInv, TypeOK, Contents
<1>4. At(Running)' = {} /\ At(Generating)' = {}
  BY <1>1, Points DEF At
<1>5. NoRaceInv'
  BY <1>1, <1>2, <1>4 DEF NoRaceInv, KeyMissing, BothThere
<1>6. \A s \in Samples : BuildInv(s)'
  BY <1>1 DEF BuildInv, Generating
<1> QED
  BY <1>3, <1>5, <1>6 DEF IInv

-----------------------------------------------------------------------------
LEMMA NextIInv ==
  ASSUME FirstJobs \subseteq {1}, IInv, [Next]_vars
  PROVE  IInv'
<1>1. CASE UNCHANGED vars
  BY <1>1 DEF vars, IInv, TypeOK, NoRaceInv, BuildInv, At, KeyMissing, BothThere, CanSign,
              BrokenPair, Readable
<1>2. ASSUME NEW s \in Samples, BuildStep(s) PROVE IInv'
  <2>1. TypeOK'
    BY <1>2, TypeStep DEF IInv
  <2>2. NoRaceInv' /\ \A t \in Samples : BuildInv(t)'
    BY <1>2, StartKeeps, UnsignedKeeps, GenerateKeeps, UseKeeps, KeyKeeps, OpenCertKeeps,
       WriteCertKeeps, FailKeeps, ReadKeyKeeps, ReadCertKeeps DEF BuildStep
  <2> QED
    BY <2>1, <2>2 DEF IInv
<1> QED
  BY <1>1, <1>2, InterruptKeeps, AgainKeeps DEF Next

LEMMA IInvSigned ==
  ASSUME IInv
  PROVE  SignedByKeyOnDisk
<1> SUFFICES ASSUME MakeEnded, NEW s \in Samples
             PROVE  \/ SignedIfPossible(s)
                    \/ (Disturbed \/ BrokenPair) /\ step[s] \in {"waiting"} \cup Failed
  BY DEF SignedByKeyOnDisk
<1>1. BuildInv(s)
  BY DEF IInv
<1>2. CASE step[s] \in {"signed", "unsigned"}
  BY <1>1, <1>2 DEF BuildInv, SignedIfPossible, CanSign, KeyMissing, BothThere
<1>3. CASE step[s] \in {"waiting"} \cup Failed
  <2>1. PICK t \in Samples : step[t] \in Failed
    BY <1>3, AtDef DEF MakeEnded
  <2>2. step[t] = "not_signed" => BrokenPair
    BY DEF IInv, BuildInv
  <2>3. step[t] # "not_signed" => Disturbed
    BY <2>1, AtDef DEF Disturbed, Failed
  <2> QED
    BY <1>3, <2>2, <2>3
<1>4. step[s] \notin Running
  BY AtDef DEF MakeEnded
<1> QED
  BY <1>2, <1>3, <1>4 DEF IInv, TypeOK, Ended

(***************************************************************************)
(* When make returns, every module is signed with the pair on disk, or, if *)
(* the tools are missing, left unsigned; or make was interrupted, openssl  *)
(* failed, or the files are no pair.  For any samples and numbers of jobs, *)
(* any contents of the two files at first and any sequence of makes, each  *)
(* of which may be interrupted or fail at any point, as long as a make     *)
(* that starts without one of the files runs one job at a time             *)
(* (sign-module.sh:3-27).                                                  *)
(***************************************************************************)
THEOREM SafeBuildsSign ==
  ASSUME FirstJobs \subseteq {1}
  PROVE  Spec => []SignedByKeyOnDisk
<1>1. Init => IInv
  BY InitIInv
<1>2. IInv /\ [Next]_vars => IInv'
  BY NextIInv
<1>3. IInv => SignedByKeyOnDisk
  BY IInvSigned
<1> QED
  BY <1>1, <1>2, <1>3, PTL DEF Spec
=============================================================================
