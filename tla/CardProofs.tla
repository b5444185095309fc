----------------------------- MODULE CardProofs -----------------------------
(***************************************************************************)
(* Theorems about SecureElement, for every card: any number of channels,   *)
(* containers, directory records, blocks, parts and failed exchanges.      *)
(***************************************************************************)
EXTENDS SecureElement, FiniteSetTheorems, WellFoundedInduction, TLAPS

-----------------------------------------------------------------------------
(* The inductive invariant *)

Names == { "none", "file", "object", "certificate", "parse key", "sign", "decrypt" }

\* Where an operation is that has its applet selected.
BodyPcs == { "containers", "container", "find", "pin", "mse sign", "hash", "sign",
             "get response", "mse decrypt", "decipher", "open file", "read", "directory",
             "record", "probe" }

Pcs == BodyPcs \cup { "idle", "close first", "open", "select", "undo", "close" }

Operations ==
    [name : Names, pc : Pcs, applet : Applets, arg : DOMAIN Containers \cup Labels, i : Nat,
     got : Seq(Nat), files : Seq(Labels), ret : { "NONE", "0", "ERROR" }, faulty : BOOLEAN]

Results ==
    [name : Names, arg : DOMAIN Containers \cup Labels, ret : { "NONE", "0", "ERROR" },
     got : Seq(Nat), selected : BOOLEAN, faulty : BOOLEAN]

Types ==
    /\ TypeOK /\ op \in Operations /\ result \in Results
    /\ faults.channel <= faults.all

\* Which operation can be where.
Fits(pc, name) ==
    /\ pc \in { "mse sign", "hash", "sign", "get response" } => name = "sign"
    /\ pc \in { "mse decrypt", "decipher" } => name = "decrypt"
    /\ pc \in { "containers", "container", "find" } => name \in { "certificate", "parse key" }
    /\ pc \in { "directory", "record" } => name \in { "object", "certificate", "parse key" }
    /\ pc = "probe" => name = "object"
    /\ pc = "open file" => name \in { "file", "certificate" }
    /\ pc = "read" => name \in { "file", "object", "certificate" }
    /\ pc = "pin" => name \in { "file", "object", "sign", "decrypt" }

\* What an operation has done where it is, and what an applet that is selected can rely on.
Control ==
    /\ op.pc # "idle" => op.name # "none" /\ (op.applet = "MF" <=> op.name = "file")
    /\ IF op.name = "object" THEN op.arg \in Labels ELSE op.arg \in DOMAIN Containers
    /\ Fits(op.pc, op.name)
    /\ op.pc \in { "idle", "close first", "open", "select", "undo" } => op.ret = "NONE"
    /\ op.pc \in BodyPcs => op.ret = "ERROR"
    /\ op.pc \in { "close first" } \cup BodyPcs => applets[op.applet].selected
    /\ op.pc \in { "select", "undo" } \cup BodyPcs => Ch \in Open
    /\ \A a \in Applets : applets[a].selected => applets[a].channel \in Channels

\* ReadyOnChannel, and the PIN that the reading of an object has verified before
\* it comes to the object.
Ready ==
    /\ ReadyOnChannel
    /\ op.pc \in { "directory", "record" } /\ op.name = "object" => Here.pin

\* A channel that is open is the one in use, or one that a failed exchange has
\* cost.
Accounted ==
    /\ op.pc \in { "idle", "close first", "open" } => Cardinality(Open) <= faults.channel
    /\ op.pc = "close" /\ ~applets[op.applet].selected =>
          Cardinality(Open) <= faults.channel
    /\ op.pc \in { "select", "undo", "close" } \cup BodyPcs =>
          Cardinality(Open \ { Ch }) <= faults.channel

\* An operation that gives up without a failure has found no free channel.
Excused ==
    /\ op.pc = "undo" => op.faulty
    /\ op.pc = "close" /\ op.ret = "NONE" /\ ~op.faulty => faults.channel >= NumChannels
    /\ SelectUnlessFull

UpTo(n) == [k \in 1..n |-> k]
BlocksBefore(n) == [k \in 1..n |-> k - 1]

\* The card and the client agree on the parts of the signature that were sent.
InParts ==
    /\ op.pc \in BodyPcs \ { "get response" } => Here.sent = 0
    /\ op.pc \notin { "read", "get response", "close" } => op.got = << >>
    /\ op.pc = "get response" => Here.sent \in 1..Parts - 1 /\ op.got = UpTo(Here.sent)
    /\ op.pc = "close" /\ op.name = "sign" /\ op.ret = "0" => op.got = UpTo(Parts)
    /\ SignatureWhole

\* The blocks that were read are those before the next one.
InBlocks ==
    /\ op.pc = "read" =>
          op.i < Blocks /\ (op.name = "file" \/ ~op.faulty => op.got = BlocksBefore(op.i))
    /\ op.pc = "close" /\ op.name \in { "file", "object", "certificate" } /\ op.ret = "0"
       /\ (op.name = "file" \/ ~op.faulty) => op.got = BlocksBefore(Blocks)
    /\ ObjectWhole

\* One of the records below r is the certificate of container cid.
Certified(cid, r) == \E k \in DOMAIN Directory :
                        k < r /\ Directory[k] = [kind |-> "cert", of |-> cid]

All == Cardinality(DOMAIN Containers)

\* What there is to say of a list of key pairs: each comes from a container with a
\* key, has a number that this container can have, and a certificate only if the
\* directory has one of that number; each container is there once; those below n
\* are all there; the first one of a number has the certificate that the records
\* below r have.
Pairs == [of : DOMAIN Containers, cid : Cids, cert : BOOLEAN]

Sound(list) == \A kp \in list : /\ Alike(kp.cid, kp.of)
                                /\ kp.cert => HasCertificate(kp.cid)
Single(list) == \A kp, other \in list : kp.of = other.of => kp = other
Below(list, n) == \A kp \in list : kp.of < n
Covers(list, n) == \A c \in DOMAIN Containers :
                      c < n /\ Containers[c] # "empty" => \E kp \in list : kp.of = c
Front(list, kp) == \A other \in list : other.cid = kp.cid => other.of <= kp.of
CertifiedTo(list, r) == \A kp \in list : Front(list, kp) /\ Certified(kp.cid, r) => kp.cert

\* The list is being made.
Listing ==
    \/ op.pc \in { "containers", "container" }
    \/ op.pc \in { "directory", "record" } /\ op.name # "object"

\* The list is complete up to where the reading has come, and it is not touched
\* afterwards.
InList ==
    /\ Sound(keypairs) /\ Single(keypairs)
    /\ op.pc = "containers" => keypairs = {}
    /\ op.pc = "container" => /\ op.i \in DOMAIN Containers /\ Below(keypairs, op.i)
                              /\ ~patchy => Covers(keypairs, op.i)
    /\ op.pc = "directory" /\ Listing /\ ~patchy => Covers(keypairs, All)
    /\ op.pc = "record" => op.i <= Len(Directory)
    /\ op.pc = "record" /\ Listing /\ ~patchy =>
          Covers(keypairs, All) /\ CertifiedTo(keypairs, op.i)
    /\ ~Listing /\ ~patchy /\ keypairs # {} =>
          Covers(keypairs, All) /\ CertifiedTo(keypairs, Len(Directory) + 1)

CardInv ==
    Types /\ Control /\ Ready /\ Accounted /\ Excused /\ InParts /\ InBlocks /\ InList

-----------------------------------------------------------------------------
(* The operations that the actions are built from *)

ChannelStates ==
    [applet : Applets \cup { "none", "closed" }, pin : BOOLEAN,
     env : DOMAIN Containers \cup { NoKey }, hash : BOOLEAN, sent : 0..Parts]

Counts == [all : 0..MaxFaults, channel : 0..MaxFaults]

\* All but faulty is as in next.
Follows(r, next) ==
    /\ r \in Operations
    /\ r.name = next.name /\ r.pc = next.pc /\ r.applet = next.applet /\ r.arg = next.arg
    /\ r.i = next.i /\ r.got = next.got /\ r.files = next.files /\ r.ret = next.ret

\* The containers are numbered from zero.
LEMMA ContainerNumbers ==
    /\ All \in Nat \ { 0 } /\ DOMAIN Containers = 0..All - 1 /\ 0 \in DOMAIN Containers
    /\ \A cid \in DOMAIN Containers : cid \in Nat /\ Containers[cid] \in Contents
<1>1. Containers \in [0..All - 1 -> Contents] /\ All \in Nat \ { 0 }
  BY CardAssumption DEF All
<1>2. DOMAIN Containers = 0..All - 1
  BY <1>1
<1> QED
  BY <1>1, <1>2

LEMMA IdleType == Idle \in Operations
<1>1. << >> \in Seq(Nat) /\ << >> \in Seq(Labels)
  OBVIOUS
<1> QED
  BY <1>1, ContainerNumbers DEF Idle, Operations, Names, Pcs, BodyPcs, Applets

\* Going somewhere changes nothing else, but for the counter.
LEMMA GotoFacts ==
    ASSUME op \in Operations, NEW pc \in Pcs
    PROVE  /\ Goto(pc) \in Operations
           /\ Goto(pc).pc = pc /\ Goto(pc).i = 0
           /\ Goto(pc).name = op.name /\ Goto(pc).applet = op.applet
           /\ Goto(pc).arg = op.arg /\ Goto(pc).got = op.got /\ Goto(pc).files = op.files
           /\ Goto(pc).ret = op.ret /\ Goto(pc).faulty = op.faulty
  BY DEF Goto, Operations

\* So does ending an operation, but for what it returns.
LEMMA OverFacts ==
    ASSUME op \in Operations, NEW ret \in { "0", "ERROR" }
    PROVE  /\ Over(ret) \in Operations
           /\ Over(ret).pc = "close" /\ Over(ret).i = 0 /\ Over(ret).ret = ret
           /\ Over(ret).name = op.name /\ Over(ret).applet = op.applet
           /\ Over(ret).arg = op.arg /\ Over(ret).got = op.got /\ Over(ret).files = op.files
           /\ Over(ret).faulty = op.faulty
<1>1. "close" \in Pcs
  BY DEF Pcs
<1> QED
  BY <1>1 DEF Over, Goto, Operations

LEMMA ContinueFacts ==
    ASSUME NEW next \in Operations, Continue(next)
    PROVE  /\ Follows(op', next)
           /\ op'.faulty = (next.faulty \/ faults' # faults)
<1> DEFINE f == next.faulty \/ faults' # faults
<1>1. op' = [next EXCEPT !.faulty = f]
  BY DEF Continue
<1>2. f \in BOOLEAN
  OBVIOUS
<1> HIDE DEF f
<1>3. op' \in Operations /\ op'.faulty = f
  BY <1>1, <1>2 DEF Operations
<1>4. Follows(op', next)
  BY <1>1, <1>3 DEF Follows, Operations
<1> QED
  BY <1>3, <1>4 DEF f

\* A failure is counted once, and as one about channels where it is one.
LEMMA FaultFacts ==
    ASSUME Types, Fault
    PROVE  /\ faults' \in Counts /\ faults' # faults /\ faults'.channel <= faults'.all
           /\ faults'.channel = faults.channel + (IF AboutChannels THEN 1 ELSE 0)
<1>1. /\ faults.all \in 0..MaxFaults /\ faults.channel \in 0..MaxFaults
      /\ faults \in Counts /\ MaxFaults \in Nat /\ faults.channel <= faults.all
  BY CardAssumption DEF Types, TypeOK, Counts
<1> QED
  BY <1>1 DEF Fault, Counts

\* What the types say of the channel in use.
LEMMA HereFacts ==
    ASSUME Types, Ch \in Open
    PROVE  /\ Ch \in Channels /\ Here \in ChannelStates /\ Here.applet # "closed"
           /\ card \in [Channels -> ChannelStates] /\ faults \in Counts
           /\ op \in Operations /\ NumChannels \in Nat
  BY CardAssumption DEF Types, TypeOK, Open, Here, ChannelStates, Counts

\* A command that does not close the channel leaves the others alone.  It is
\* obeyed, and the operation goes on; or it fails and is obeyed or not.
LEMMA CommandFacts ==
    ASSUME Types, Ch \in Open,
           NEW new \in ChannelStates, new.applet # "closed",
           NEW next \in Operations, NEW failed \in Operations,
           Command(new, next, failed)
    PROVE  /\ card' \in [Channels -> ChannelStates] /\ Open' = Open
           /\ faults' \in Counts /\ faults'.channel <= faults'.all
           /\ faults'.channel >= faults.channel
           /\ card'[Ch] \in { Here, new }
           /\ \/ /\ faults' = faults /\ card'[Ch] = new
                 /\ Follows(op', next) /\ op'.faulty = next.faulty
              \/ faults' # faults /\ Follows(op', failed) /\ op'.faulty
<1> DEFINE after == [card EXCEPT ![Ch] = new]
<1>1. /\ after \in [Channels -> ChannelStates] /\ after[Ch] = new
      /\ \A c \in Channels \ { Ch } : after[c] = card[c]
  BY HereFacts
<1>2. \A f \in { card, after } : { c \in Channels : f[c].applet # "closed" } = Open
  BY <1>1, HereFacts DEF Open
<1>3. card' \in { card, after } => Open' = Open
  BY <1>2 DEF Open, Channels
<1>4. CASE Answered(after) /\ Continue(next)
  <2>1. card' = after /\ faults' = faults
    BY <1>4 DEF Answered
  <2>2. Follows(op', next) /\ op'.faulty = (next.faulty \/ faults' # faults)
    BY <1>4, ContinueFacts
  <2>3. op'.faulty = next.faulty
    BY <2>1, <2>2 DEF Operations
  <2>4. faults.channel \in Nat /\ faults.channel <= faults.all
    BY HereFacts DEF Types, Counts
  <2> QED
    BY <1>1, <1>3, <2>1, <2>2, <2>3, <2>4, HereFacts DEF Here
<1>5. CASE (Refused \/ Lost(after)) /\ Continue(failed)
  <2>1. card' \in { card, after } /\ Fault
    BY <1>5 DEF Refused, Lost
  <2>2. Follows(op', failed) /\ op'.faulty = (failed.faulty \/ faults' # faults)
    BY <1>5, ContinueFacts
  <2>3. /\ faults' # faults /\ faults' \in Counts /\ faults'.channel <= faults'.all
        /\ faults'.channel >= faults.channel
    BY <2>1, FaultFacts, HereFacts DEF Counts
  <2>4. card' \in [Channels -> ChannelStates] /\ card'[Ch] \in { Here, new }
    BY <1>1, <2>1, HereFacts DEF Here
  <2> QED
    BY <1>3, <2>1, <2>2, <2>3, <2>4
<1> QED
  BY <1>4, <1>5 DEF Command

-----------------------------------------------------------------------------
(* Steps of an operation that has its applet selected *)

\* What all of them have in common.
BodyStep ==
    /\ op.pc \in BodyPcs /\ op'.pc \in BodyPcs \cup { "close" }
    /\ op' \in Operations
    /\ op'.name = op.name /\ op'.applet = op.applet /\ op'.arg = op.arg
    /\ op'.ret # "ERROR" => op'.pc = "close" /\ op'.ret = "0"
    /\ UNCHANGED << applets, key, result >>
    /\ card' \in [Channels -> ChannelStates] /\ Open' = Open
    /\ faults' \in Counts /\ faults'.channel <= faults'.all
    /\ faults'.channel >= faults.channel

\* Where the step leads: what the card keeps for the channel, and the operation.
At(here, pc, i, got, ret) ==
    /\ card'[Ch] = here
    /\ op'.pc = pc /\ op'.i = i /\ op'.got = got /\ op'.ret = ret
    /\ op'.faulty = (op.faulty \/ faults' # faults)

\* A failed exchange ends the operation.
Fails ==
    /\ faults' # faults
    /\ op'.pc = "close" /\ op'.ret = "ERROR" /\ op'.faulty

\* A way on for an operation that has its applet selected.
Advances(r) ==
    /\ r \in Operations /\ r.pc \in BodyPcs \cup { "close" }
    /\ r.name = op.name /\ r.applet = op.applet /\ r.arg = op.arg
    /\ r.ret # "ERROR" => r.pc = "close" /\ r.ret = "0"
    /\ r.faulty = op.faulty

LEMMA BodyFacts ==
    ASSUME Types, Control, op.pc \in BodyPcs
    PROVE  /\ Ch \in Open /\ op.ret = "ERROR" /\ op \in Operations
           /\ Here \in ChannelStates /\ Here.applet # "closed"
           /\ Advances(op) /\ Advances(Over("ERROR")) /\ Advances(Over("0"))
           /\ \A pc \in BodyPcs : Advances(Goto(pc))
<1>1. Ch \in Open /\ op.ret = "ERROR" /\ op \in Operations
  BY DEF Control, Types
<1>2. Here \in ChannelStates /\ Here.applet # "closed"
  BY <1>1, HereFacts
<1>3. Advances(op)
  BY <1>1 DEF Advances
<1>4. ASSUME NEW ret \in { "0", "ERROR" }
      PROVE  Advances(Over(ret))
  BY <1>1, <1>4, OverFacts DEF Advances
<1>5. ASSUME NEW pc \in BodyPcs
      PROVE  Advances(Goto(pc))
  <2>1. pc \in Pcs
    BY DEF Pcs
  <2> QED
    BY <1>1, <2>1, GotoFacts DEF Advances
<1> QED
  BY <1>1, <1>2, <1>3, <1>4, <1>5

\* A command of an applet that is selected is a step of its operation.
LEMMA AdvanceStep ==
    ASSUME Types, Control, op.pc \in BodyPcs,
           NEW new \in ChannelStates, new.applet # "closed",
           NEW next, Advances(next), NEW failed, Advances(failed),
           Command(new, next, failed), UNCHANGED << applets, key, result >>
    PROVE  /\ BodyStep
           /\ card'[Ch] \in { Here, new }
           /\ op'.faulty = (op.faulty \/ faults' # faults)
           /\ \/ faults' = faults /\ card'[Ch] = new /\ Follows(op', next)
              \/ faults' # faults /\ Follows(op', failed)
<1>1. Ch \in Open /\ op \in Operations
  BY BodyFacts
<1>2. next \in Operations /\ failed \in Operations
  BY DEF Advances
<1>3. /\ card' \in [Channels -> ChannelStates] /\ Open' = Open
      /\ faults' \in Counts /\ faults'.channel <= faults'.all
      /\ faults'.channel >= faults.channel
      /\ card'[Ch] \in { Here, new }
  BY <1>1, <1>2, CommandFacts
<1>4. \/ /\ faults' = faults /\ card'[Ch] = new
         /\ Follows(op', next) /\ op'.faulty = next.faulty
      \/ faults' # faults /\ Follows(op', failed) /\ op'.faulty
  BY <1>1, <1>2, CommandFacts
<1>5. CASE /\ faults' = faults /\ card'[Ch] = new
           /\ Follows(op', next) /\ op'.faulty = next.faulty
  BY <1>3, <1>5 DEF BodyStep, Follows, Advances, Operations
<1>6. CASE faults' # faults /\ Follows(op', failed) /\ op'.faulty
  BY <1>3, <1>6 DEF BodyStep, Follows, Advances, Operations
<1> QED
  BY <1>4, <1>5, <1>6

\* Most commands end the operation when they fail.
LEMMA CommandStep ==
    ASSUME Types, Control, op.pc \in BodyPcs,
           NEW new \in ChannelStates, new.applet # "closed", NEW pc \in BodyPcs,
           Command(new, Goto(pc), Over("ERROR")), UNCHANGED << applets, key, result >>
    PROVE  BodyStep /\ (Fails \/ (faults' = faults /\ At(new, pc, 0, op.got, op.ret)))
<1>1. Advances(Goto(pc)) /\ Advances(Over("ERROR")) /\ op \in Operations /\ pc \in Pcs
  BY BodyFacts DEF Pcs
<1>2. /\ BodyStep
      /\ op'.faulty = (op.faulty \/ faults' # faults)
      /\ \/ faults' = faults /\ card'[Ch] = new /\ Follows(op', Goto(pc))
         \/ faults' # faults /\ Follows(op', Over("ERROR"))
  BY <1>1, AdvanceStep
<1>3. CASE faults' = faults /\ card'[Ch] = new /\ Follows(op', Goto(pc))
  BY <1>1, <1>2, <1>3, GotoFacts DEF At, Follows
<1>4. CASE faults' # faults /\ Follows(op', Over("ERROR"))
  BY <1>1, <1>2, <1>4, OverFacts DEF Fails, Follows
<1> QED
  BY <1>2, <1>3, <1>4

LEMMA VerifyPinStep ==
    ASSUME Types, Control, VerifyPin
    PROVE  /\ BodyStep
           /\ \/ Fails
              \/ /\ faults' = faults
                 /\ \E pc \in { "mse sign", "mse decrypt", "directory", "open file" } :
                      /\ op.name = "sign" => pc = "mse sign"
                      /\ op.name = "decrypt" => pc = "mse decrypt"
                      /\ op.name = "object" => pc = "directory"
                      /\ op.name = "file" => pc = "open file"
                      /\ At([Here EXCEPT !.pin = TRUE], pc, 0, op.got, op.ret)
<1> DEFINE pc == CASE op.name = "sign" -> "mse sign"
                   [] op.name = "decrypt" -> "mse decrypt"
                   [] op.name = "object" -> "directory"
                   [] OTHER -> "open file"
<1>1. op.pc \in BodyPcs /\ pc \in BodyPcs
  BY DEF VerifyPin, BodyPcs
<1>2. /\ [Here EXCEPT !.pin = TRUE] \in ChannelStates
      /\ [Here EXCEPT !.pin = TRUE].applet # "closed"
  BY <1>1, BodyFacts DEF ChannelStates
<1>3. /\ Command([Here EXCEPT !.pin = TRUE], Goto(pc), Over("ERROR"))
      /\ UNCHANGED << applets, key, result >>
  BY DEF VerifyPin
<1>4. /\ pc \in { "mse sign", "mse decrypt", "directory", "open file" }
      /\ op.name = "sign" => pc = "mse sign"
      /\ op.name = "decrypt" => pc = "mse decrypt"
      /\ op.name = "object" => pc = "directory"
      /\ op.name = "file" => pc = "open file"
  OBVIOUS
<1> HIDE DEF pc
<1>5. BodyStep /\ (\/ Fails
                   \/ faults' = faults /\ At([Here EXCEPT !.pin = TRUE], pc, 0, op.got, op.ret))
  BY <1>1, <1>2, <1>3, CommandStep
<1> QED
  BY <1>4, <1>5

LEMMA MseSetBeforeSignatureStep ==
    ASSUME Types, Control, MseSetBeforeSignature
    PROVE  BodyStep /\ (\/ Fails
                        \/ /\ faults' = faults
                           /\ At([Here EXCEPT !.env = op.arg], "hash", 0, op.got, op.ret))
<1>1. op.pc \in BodyPcs /\ op.arg \in DOMAIN Containers /\ "hash" \in BodyPcs
  BY DEF MseSetBeforeSignature, Control, Fits, BodyPcs
<1>2. /\ [Here EXCEPT !.env = op.arg] \in ChannelStates
      /\ [Here EXCEPT !.env = op.arg].applet # "closed"
  BY <1>1, BodyFacts DEF ChannelStates
<1>3. /\ Command([Here EXCEPT !.env = op.arg], Goto("hash"), Over("ERROR"))
      /\ UNCHANGED << applets, key, result >>
  BY DEF MseSetBeforeSignature
<1> QED
  BY <1>1, <1>2, <1>3, CommandStep

LEMMA PsoHashExternallyStep ==
    ASSUME Types, Control, PsoHashExternally
    PROVE  BodyStep /\ (\/ Fails
                        \/ /\ faults' = faults
                           /\ At([Here EXCEPT !.hash = TRUE], "sign", 0, op.got, op.ret))
<1>1. op.pc \in BodyPcs /\ op.arg \in DOMAIN Containers /\ "sign" \in BodyPcs
  BY DEF PsoHashExternally, Control, Fits, BodyPcs
<1>2. /\ [Here EXCEPT !.hash = TRUE] \in ChannelStates
      /\ [Here EXCEPT !.hash = TRUE].applet # "closed"
  BY <1>1, BodyFacts DEF ChannelStates
<1>3. /\ Command([Here EXCEPT !.hash = TRUE], Goto("sign"), Over("ERROR"))
      /\ UNCHANGED << applets, key, result >>
  BY DEF PsoHashExternally
<1> QED
  BY <1>1, <1>2, <1>3, CommandStep

LEMMA MseSetBeforeDecryptStep ==
    ASSUME Types, Control, MseSetBeforeDecrypt
    PROVE  BodyStep /\ (\/ Fails
                        \/ /\ faults' = faults
                           /\ At([Here EXCEPT !.env = op.arg], "decipher", 0, op.got, op.ret))
<1>1. op.pc \in BodyPcs /\ op.arg \in DOMAIN Containers /\ "decipher" \in BodyPcs
  BY DEF MseSetBeforeDecrypt, Control, Fits, BodyPcs
<1>2. /\ [Here EXCEPT !.env = op.arg] \in ChannelStates
      /\ [Here EXCEPT !.env = op.arg].applet # "closed"
  BY <1>1, BodyFacts DEF ChannelStates
<1>3. /\ Command([Here EXCEPT !.env = op.arg], Goto("decipher"), Over("ERROR"))
      /\ UNCHANGED << applets, key, result >>
  BY DEF MseSetBeforeDecrypt
<1> QED
  BY <1>1, <1>2, <1>3, CommandStep

LEMMA OpenFileStep ==
    ASSUME Types, Control, OpenFile
    PROVE  BodyStep /\ (\/ Fails
                        \/ /\ faults' = faults
                           /\ At(Here, "read", 0, op.got, op.ret))
<1>1. op.pc \in BodyPcs /\ op.arg \in DOMAIN Containers /\ "read" \in BodyPcs
  BY DEF OpenFile, Control, Fits, BodyPcs
<1>2. /\ Here \in ChannelStates
      /\ Here.applet # "closed"
  BY <1>1, BodyFacts DEF ChannelStates
<1>3. /\ Command(Here, Goto("read"), Over("ERROR"))
      /\ UNCHANGED << applets, key, result >>
  BY DEF OpenFile
<1> QED
  BY <1>1, <1>2, <1>3, CommandStep

\* A part is appended; the last one ends the operation.
LEMMA NextPartFacts ==
    ASSUME Types, Control, op.pc \in BodyPcs
    PROVE  /\ Advances(NextPart(op))
           /\ NextPart(op).pc = (IF Here.sent + 1 = Parts THEN "close" ELSE "get response")
           /\ NextPart(op).got = Append(op.got, Here.sent + 1)
           /\ NextPart(op).ret = (IF Here.sent + 1 = Parts THEN "0" ELSE "ERROR")
           /\ NextPart(op).i = op.i
<1> DEFINE got == Append(op.got, Here.sent + 1)
           pc == IF Here.sent + 1 = Parts THEN "close" ELSE "get response"
           ret == IF Here.sent + 1 = Parts THEN "0" ELSE "ERROR"
<1>1. op \in Operations /\ op.ret = "ERROR" /\ Here.sent + 1 \in Nat
  BY BodyFacts DEF ChannelStates
<1>2. got \in Seq(Nat)
  BY <1>1 DEF Operations
<1>3. /\ pc \in Pcs /\ pc \in BodyPcs \cup { "close" } /\ ret \in { "0", "ERROR" }
      /\ ret # "ERROR" => pc = "close" /\ ret = "0"
  BY DEF Pcs, BodyPcs
<1>4. NextPart(op) = [op EXCEPT !.got = got, !.pc = pc, !.ret = ret]
  BY <1>1 DEF NextPart
<1> HIDE DEF got, pc, ret
<1>5. /\ NextPart(op) \in Operations
      /\ NextPart(op).pc = pc /\ NextPart(op).got = got /\ NextPart(op).ret = ret
      /\ NextPart(op).i = op.i /\ NextPart(op).name = op.name
      /\ NextPart(op).applet = op.applet /\ NextPart(op).arg = op.arg
      /\ NextPart(op).faulty = op.faulty
  BY <1>1, <1>2, <1>3, <1>4 DEF Operations
<1>6. Advances(NextPart(op))
  BY <1>3, <1>5 DEF Advances
<1> QED
  BY <1>5, <1>6 DEF got, pc, ret

\* The step of PsoComputeDigitalSignature and of GetResponse.
PartStep ==
    \/ Fails
    \/ /\ faults' = faults
       /\ card'[Ch].sent = Here.sent + 1
       /\ card'[Ch] = [Here EXCEPT !.sent = Here.sent + 1]
       /\ op'.got = Append(op.got, Here.sent + 1)
       /\ op'.faulty = op.faulty
       /\ IF Here.sent + 1 = Parts THEN op'.pc = "close" /\ op'.ret = "0"
          ELSE op'.pc = "get response" /\ op'.ret = "ERROR"

LEMMA PartFacts ==
    ASSUME Types, Control, op.pc \in BodyPcs, Here.sent < Parts,
           Command([Here EXCEPT !.sent = Here.sent + 1], NextPart(op), Over("ERROR")),
           UNCHANGED << applets, key, result >>
    PROVE  BodyStep /\ PartStep
<1> DEFINE new == [Here EXCEPT !.sent = Here.sent + 1]
<1>1. /\ new \in ChannelStates /\ new.applet # "closed" /\ new.sent = Here.sent + 1
      /\ op \in Operations /\ op.faulty \in BOOLEAN
  <2>1. /\ Here \in ChannelStates /\ Here.applet # "closed"
        /\ op \in Operations /\ op.faulty \in BOOLEAN
    BY BodyFacts DEF Operations
  <2>2. Parts \in Nat
    BY CardAssumption
  <2>3. Here.sent + 1 \in 0..Parts
    BY <2>1, <2>2 DEF ChannelStates
  <2> QED
    BY <2>1, <2>3 DEF ChannelStates
<1>2. Advances(NextPart(op)) /\ Advances(Over("ERROR"))
  BY BodyFacts, NextPartFacts
<1> HIDE DEF new
<1>3. /\ BodyStep
      /\ op'.faulty = (op.faulty \/ faults' # faults)
      /\ \/ faults' = faults /\ card'[Ch] = new /\ Follows(op', NextPart(op))
         \/ faults' # faults /\ Follows(op', Over("ERROR"))
  BY <1>1, <1>2, AdvanceStep DEF new
<1>4. CASE faults' = faults /\ card'[Ch] = new /\ Follows(op', NextPart(op))
  <2>1. op'.faulty = op.faulty
    BY <1>1, <1>3, <1>4
  <2>2. /\ op'.pc = NextPart(op).pc /\ op'.got = NextPart(op).got
        /\ op'.ret = NextPart(op).ret
    BY <1>4 DEF Follows
  <2>3. card'[Ch].sent = Here.sent + 1
    BY <1>1, <1>4
  <2>4. PartStep
    BY <1>4, <2>1, <2>2, <2>3, NextPartFacts DEF PartStep, new
  <2> QED
    BY <1>3, <2>4
<1>5. CASE faults' # faults /\ Follows(op', Over("ERROR"))
  BY <1>1, <1>3, <1>5, OverFacts DEF PartStep, Fails, Follows
<1> QED
  BY <1>3, <1>4, <1>5

LEMMA PsoComputeDigitalSignatureStep ==
    ASSUME Types, Control, InParts, PsoComputeDigitalSignature
    PROVE  BodyStep /\ PartStep
<1>1. op.pc \in BodyPcs /\ Here.sent = 0 /\ Here.sent < Parts /\ Here.sent + 1 = 1
  BY CardAssumption DEF PsoComputeDigitalSignature, InParts, BodyPcs
<1>2. /\ Command([Here EXCEPT !.sent = Here.sent + 1], NextPart(op), Over("ERROR"))
      /\ UNCHANGED << applets, key, result >>
  BY <1>1 DEF PsoComputeDigitalSignature
<1> QED
  BY <1>1, <1>2, PartFacts

LEMMA GetResponseStep ==
    ASSUME Types, Control, InParts, GetResponse
    PROVE  BodyStep /\ PartStep
<1> Parts \in Nat
  BY CardAssumption
<1>0. Here.sent \in 1..Parts - 1
  BY DEF GetResponse, InParts
<1>1. op.pc \in BodyPcs
  BY DEF GetResponse, BodyPcs
<1>2. Here.sent < Parts
  BY <1>0
<1>3. /\ Command([Here EXCEPT !.sent = Here.sent + 1], NextPart(op), Over("ERROR"))
      /\ UNCHANGED << applets, key, result >>
  BY DEF GetResponse
<1> QED
  BY <1>1, <1>2, <1>3, PartFacts

\* psoDecipher is over, or has one more command to send.
LEMMA PsoDecipherStep ==
    ASSUME Types, Control, PsoDecipher
    PROVE  /\ BodyStep
           /\ \/ Fails
              \/ op'.pc = "close"
              \/ At(Here, "decipher", 1, op.got, op.ret)
<1>1. op.pc \in BodyPcs
  BY DEF PsoDecipher, BodyPcs
<1>2. /\ Here \in ChannelStates /\ Here.applet # "closed" /\ op \in Operations
      /\ Advances(Over("0")) /\ Advances(Over("ERROR")) /\ Advances(op)
  BY <1>1, BodyFacts
<1> DEFINE more == [op EXCEPT !.i = 1]
<1>3. /\ more \in Operations /\ more.name = op.name /\ more.pc = op.pc /\ more.i = 1
      /\ more.applet = op.applet /\ more.arg = op.arg /\ more.got = op.got
      /\ more.ret = op.ret /\ more.faulty = op.faulty
  BY <1>2 DEF Operations
<1>4. Advances(more)
  BY <1>2, <1>3 DEF Advances
<1>5. PICK last \in BOOLEAN :
         Command(Here, IF last THEN Over("0") ELSE more, Over("ERROR"))
  BY DEF PsoDecipher
<1>6. UNCHANGED << applets, key, result >> /\ op.pc = "decipher"
  BY DEF PsoDecipher
<1> DEFINE next == IF last THEN Over("0") ELSE more
<1>7. Advances(next)
  BY <1>2, <1>4
<1> HIDE DEF more, next
<1>8. /\ BodyStep /\ card'[Ch] = Here
      /\ op'.faulty = (op.faulty \/ faults' # faults)
      /\ \/ faults' = faults /\ Follows(op', next)
         \/ faults' # faults /\ Follows(op', Over("ERROR"))
  BY <1>1, <1>2, <1>5, <1>6, <1>7, AdvanceStep DEF next
<1>9. CASE faults' # faults /\ Follows(op', Over("ERROR"))
  BY <1>2, <1>8, <1>9, OverFacts DEF Follows, Fails
<1>10. CASE faults' = faults /\ Follows(op', Over("0"))
  BY <1>2, <1>8, <1>10, OverFacts DEF Follows
<1>11. CASE faults' = faults /\ Follows(op', more)
  BY <1>3, <1>6, <1>8, <1>11 DEF Follows, At
<1> QED
  BY <1>8, <1>9, <1>10, <1>11 DEF next

\* A step that sends nothing, or that leaves the card as it is.
LEMMA StillStep ==
    ASSUME Types, Control, op.pc \in BodyPcs,
           NEW next, Advances(next), Continue(next), card' = card,
           UNCHANGED faults \/ Fault, UNCHANGED << applets, key, result >>
    PROVE  /\ BodyStep /\ card'[Ch] = Here /\ Follows(op', next)
           /\ op'.faulty = (op.faulty \/ faults' # faults)
<1>1. Ch \in Open /\ next \in Operations
  BY BodyFacts DEF Advances
<1>2. Follows(op', next) /\ op'.faulty = (op.faulty \/ faults' # faults)
  BY <1>1, ContinueFacts DEF Advances
<1>3. /\ faults \in Counts /\ faults.channel \in Nat /\ faults.channel <= faults.all
      /\ card \in [Channels -> ChannelStates]
  BY <1>1, HereFacts DEF Types, Counts
<1>4. faults' \in Counts /\ faults'.channel <= faults'.all /\ faults'.channel >= faults.channel
  <2>1. CASE UNCHANGED faults
    BY <1>3, <2>1
  <2>2. CASE Fault
    BY <1>3, <2>2, FaultFacts DEF Counts
  <2> QED
    BY <2>1, <2>2
<1>5. card' \in [Channels -> ChannelStates] /\ Open' = Open /\ card'[Ch] = Here
  BY <1>3 DEF Open, Channels, Here
<1> QED
  BY <1>2, <1>4, <1>5 DEF BodyStep, Follows, Advances

LEMMA QuietStep ==
    ASSUME Types, Control, op.pc \in BodyPcs,
           NEW next, Advances(next), op' = next,
           UNCHANGED << card, faults, applets, key, result >>
    PROVE  BodyStep /\ card'[Ch] = Here /\ Follows(op', next) /\ op'.faulty = op.faulty
<1>1. Ch \in Open /\ next \in Operations
  BY BodyFacts DEF Advances
<1>2. /\ faults \in Counts /\ faults.channel \in Nat /\ faults.channel <= faults.all
      /\ card \in [Channels -> ChannelStates]
  BY <1>1, HereFacts DEF Types, Counts
<1>3. card' \in [Channels -> ChannelStates] /\ Open' = Open /\ card'[Ch] = Here
  BY <1>2 DEF Open, Channels, Here
<1> QED
  BY <1>1, <1>2, <1>3 DEF BodyStep, Follows, Advances

\* Where the reading of a file is after a block.
BlockStep(got) ==
    IF op.i + 1 < Blocks THEN At(Here, "read", op.i + 1, got, "ERROR")
    ELSE At(Here, "close", 0, got, "0")

LEMMA NextBlockFacts ==
    ASSUME Types, Control, op.pc = "read", NEW r, Advances(r), r.pc = "read", r.i = op.i
    PROVE  /\ Advances(NextBlock(r)) /\ NextBlock(r).got = r.got
           /\ IF op.i + 1 < Blocks
              THEN NextBlock(r).pc = "read" /\ NextBlock(r).i = op.i + 1
                   /\ NextBlock(r).ret = "ERROR"
              ELSE NextBlock(r).pc = "close" /\ NextBlock(r).i = 0 /\ NextBlock(r).ret = "0"
<1>1. r \in Operations /\ r.ret = "ERROR" /\ op.i \in Nat /\ op.i + 1 \in Nat
  BY DEF Advances, Types, Operations
<1>2. "close" \in Pcs /\ "read" \in BodyPcs /\ 0 \in Nat
  BY DEF Pcs, BodyPcs
<1>3. CASE op.i + 1 < Blocks
  <2>1. NextBlock(r) = [r EXCEPT !.i = op.i + 1]
    BY <1>3 DEF NextBlock
  <2>2. /\ NextBlock(r) \in Operations /\ NextBlock(r).i = op.i + 1
        /\ NextBlock(r).pc = r.pc /\ NextBlock(r).got = r.got /\ NextBlock(r).ret = r.ret
        /\ NextBlock(r).name = r.name /\ NextBlock(r).applet = r.applet
        /\ NextBlock(r).arg = r.arg /\ NextBlock(r).faulty = r.faulty
    BY <1>1, <2>1 DEF Operations
  <2> QED
    BY <1>1, <1>3, <2>2 DEF Advances
<1>4. CASE ~(op.i + 1 < Blocks)
  <2>1. NextBlock(r) = [r EXCEPT !.i = 0, !.pc = "close", !.ret = "0"]
    BY <1>4 DEF NextBlock
  <2>2. /\ NextBlock(r) \in Operations /\ NextBlock(r).i = 0
        /\ NextBlock(r).pc = "close" /\ NextBlock(r).got = r.got /\ NextBlock(r).ret = "0"
        /\ NextBlock(r).name = r.name /\ NextBlock(r).applet = r.applet
        /\ NextBlock(r).arg = r.arg /\ NextBlock(r).faulty = r.faulty
    BY <1>1, <1>2, <2>1 DEF Operations
  <2>3. Advances(NextBlock(r))
    BY <2>2 DEF Advances
  <2> QED
    BY <1>4, <2>2, <2>3
<1> QED
  BY <1>3, <1>4

\* A block that is read is appended; one that MIAS cannot read is passed over.
LEMMA ReadBinaryStep ==
    ASSUME Types, Control, ReadBinary
    PROVE  /\ BodyStep
           /\ \/ faults' = faults /\ BlockStep(Append(op.got, op.i))
              \/ Fails
              \/ faults' # faults /\ op.applet # "MF" /\ BlockStep(op.got)
<1> DEFINE r == [op EXCEPT !.got = Append(op.got, op.i)]
<1>1. op.pc = "read" /\ op.pc \in BodyPcs /\ UNCHANGED << applets, key, result >>
  BY DEF ReadBinary, BodyPcs
<1>2. /\ Here \in ChannelStates /\ Here.applet # "closed" /\ op \in Operations
      /\ Advances(Over("ERROR")) /\ Advances(op) /\ op.ret = "ERROR"
  BY <1>1, BodyFacts
<1>3. Append(op.got, op.i) \in Seq(Nat)
  BY <1>2 DEF Operations
<1>4. /\ r \in Operations /\ r.name = op.name /\ r.pc = op.pc /\ r.i = op.i
      /\ r.applet = op.applet /\ r.arg = op.arg /\ r.got = Append(op.got, op.i)
      /\ r.ret = op.ret /\ r.faulty = op.faulty
  BY <1>2, <1>3 DEF Operations
<1>5. Advances(r)
  BY <1>2, <1>4 DEF Advances
<1>6. Command(Here, NextBlock(r), ReadFailed)
  BY DEF ReadBinary
<1> HIDE DEF r
<1>7. Advances(NextBlock(r)) /\ Advances(NextBlock(op)) /\ Advances(ReadFailed)
  BY <1>1, <1>2, <1>4, <1>5, NextBlockFacts DEF ReadFailed
<1>8. /\ BodyStep /\ card'[Ch] = Here
      /\ op'.faulty = (op.faulty \/ faults' # faults)
      /\ \/ faults' = faults /\ Follows(op', NextBlock(r))
         \/ faults' # faults /\ Follows(op', ReadFailed)
  BY <1>1, <1>2, <1>6, <1>7, AdvanceStep
<1>9. CASE faults' = faults /\ Follows(op', NextBlock(r))
  BY <1>1, <1>4, <1>5, <1>8, <1>9, NextBlockFacts DEF BlockStep, At, Follows
<1>10. CASE faults' # faults /\ Follows(op', ReadFailed) /\ op.applet = "MF"
  BY <1>2, <1>8, <1>10, OverFacts DEF Fails, Follows, ReadFailed
<1>11. CASE faults' # faults /\ Follows(op', ReadFailed) /\ op.applet # "MF"
  <2>1. Follows(op', NextBlock(op))
    BY <1>11 DEF ReadFailed
  <2> QED
    BY <1>1, <1>2, <1>8, <1>11, <2>1, NextBlockFacts DEF BlockStep, At, Follows
<1> QED
  BY <1>8, <1>9, <1>10, <1>11

LEMMA ReadDirectoryStep ==
    ASSUME Types, Control, ReadDirectory
    PROVE  /\ BodyStep
           /\ \/ faults' = faults /\ At(Here, "record", 0, op.got, op.ret)
              \/ Fails /\ op.name = "object"
              \/ faults' # faults /\ op.name # "object" /\ At(Here, "find", 0, op.got, op.ret)
<1> DEFINE failed == IF op.name = "object" THEN Over("ERROR") ELSE Goto("find")
<1>1. /\ op.pc \in BodyPcs /\ UNCHANGED << applets, key, result >>
      /\ { "record", "find" } \subseteq BodyPcs /\ BodyPcs \subseteq Pcs
  BY DEF ReadDirectory, BodyPcs, Pcs
<1>2. /\ Here \in ChannelStates /\ Here.applet # "closed" /\ op \in Operations
      /\ Advances(Goto("record")) /\ Advances(failed)
  BY <1>1, BodyFacts
<1>3. Command(Here, Goto("record"), failed)
  BY DEF ReadDirectory
<1> HIDE DEF failed
<1>4. /\ BodyStep /\ card'[Ch] = Here
      /\ op'.faulty = (op.faulty \/ faults' # faults)
      /\ \/ faults' = faults /\ Follows(op', Goto("record"))
         \/ faults' # faults /\ Follows(op', failed)
  BY <1>1, <1>2, <1>3, AdvanceStep
<1>5. CASE faults' = faults /\ Follows(op', Goto("record"))
  BY <1>1, <1>2, <1>4, <1>5, GotoFacts DEF At, Follows
<1>6. CASE faults' # faults /\ Follows(op', failed) /\ op.name = "object"
  BY <1>2, <1>4, <1>6, OverFacts DEF Fails, Follows, failed
<1>7. CASE faults' # faults /\ Follows(op', failed) /\ op.name # "object"
  BY <1>1, <1>2, <1>4, <1>7, GotoFacts DEF At, Follows, failed
<1> QED
  BY <1>4, <1>5, <1>6, <1>7

\* Where the reading of the directory is after a record.
RecordStep ==
    IF op.i < Len(Directory) THEN At(Here, "record", op.i + 1, op.got, op.ret)
    ELSE At(Here, IF op.name = "object" THEN "probe" ELSE "find", 0, op.got, op.ret)

LEMMA NextRecordFacts ==
    ASSUME Types, Control, op.pc = "record",
           NEW r, Advances(r), r.pc = "record", r.i = op.i, r.got = op.got, r.ret = op.ret
    PROVE  /\ Advances(NextRecord(r)) /\ NextRecord(r).got = op.got
           /\ NextRecord(r).ret = op.ret
           /\ IF op.i < Len(Directory)
              THEN NextRecord(r).pc = "record" /\ NextRecord(r).i = op.i + 1
              ELSE /\ NextRecord(r).pc = (IF op.name = "object" THEN "probe" ELSE "find")
                   /\ NextRecord(r).i = 0
<1>1. r \in Operations /\ r.ret = "ERROR" /\ op.i + 1 \in Nat /\ op.ret = "ERROR"
  BY DEF Advances, Types, Operations
<1> DEFINE pc == IF op.name = "object" THEN "probe" ELSE "find"
<1>2. pc \in Pcs /\ pc \in BodyPcs /\ 0 \in Nat
  BY DEF Pcs, BodyPcs
<1>3. CASE op.i < Len(Directory)
  <2>1. NextRecord(r) = [r EXCEPT !.i = op.i + 1]
    BY <1>3 DEF NextRecord
  <2>2. /\ NextRecord(r) \in Operations /\ NextRecord(r).i = op.i + 1
        /\ NextRecord(r).pc = r.pc /\ NextRecord(r).got = r.got /\ NextRecord(r).ret = r.ret
        /\ NextRecord(r).name = r.name /\ NextRecord(r).applet = r.applet
        /\ NextRecord(r).arg = r.arg /\ NextRecord(r).faulty = r.faulty
    BY <1>1, <2>1 DEF Operations
  <2> QED
    BY <1>1, <1>3, <2>2 DEF Advances
<1>4. CASE ~(op.i < Len(Directory))
  <2>1. NextRecord(r) = [r EXCEPT !.i = 0, !.pc = pc]
    BY <1>4 DEF NextRecord
  <2> HIDE DEF pc
  <2>2. /\ NextRecord(r) \in Operations /\ NextRecord(r).i = 0
        /\ NextRecord(r).pc = pc /\ NextRecord(r).got = r.got /\ NextRecord(r).ret = r.ret
        /\ NextRecord(r).name = r.name /\ NextRecord(r).applet = r.applet
        /\ NextRecord(r).arg = r.arg /\ NextRecord(r).faulty = r.faulty
    BY <1>1, <1>2, <2>1 DEF Operations
  <2>3. Advances(NextRecord(r))
    BY <1>1, <1>2, <2>2 DEF Advances
  <2> QED
    BY <1>4, <2>2, <2>3 DEF pc
<1> QED
  BY <1>3, <1>4

\* A record is read, or passed over.
LEMMA ReadRecordStep ==
    ASSUME Types, Control, InList, ReadRecord
    PROVE  BodyStep /\ RecordStep
<1>1. /\ op.pc = "record" /\ op.pc \in BodyPcs /\ UNCHANGED << applets, key, result >>
      /\ op.i \in Nat /\ op.i <= Len(Directory)
  BY DEF ReadRecord, BodyPcs, InList, Types, Operations
<1>2. /\ Here \in ChannelStates /\ Here.applet # "closed" /\ op \in Operations
      /\ Advances(op) /\ op.ret = "ERROR"
  BY <1>1, BodyFacts
<1>3. ASSUME NEW r, Advances(r), r.pc = "record", r.i = op.i, r.got = op.got, r.ret = op.ret,
             Follows(op', NextRecord(r)), card'[Ch] = Here,
             op'.faulty = (op.faulty \/ faults' # faults)
      PROVE  RecordStep
  BY <1>1, <1>3, NextRecordFacts DEF RecordStep, At, Follows
<1>4. Advances(NextRecord(op))
  BY <1>1, <1>2, NextRecordFacts
<1>5. CASE op.i = 0
  <2>1. Continue(NextRecord(op)) /\ card' = card /\ UNCHANGED faults
    BY <1>5 DEF ReadRecord, Answered
  <2>2. /\ BodyStep /\ card'[Ch] = Here /\ Follows(op', NextRecord(op))
        /\ op'.faulty = (op.faulty \/ faults' # faults)
    BY <1>1, <1>4, <2>1, StillStep
  <2> QED
    BY <1>1, <1>2, <1>3, <2>2
<1>6. CASE op.i # 0
  <2> DEFINE record == Directory[op.i]
             files == << record.of >> \o op.files
             next == IF record.kind = "p11" THEN [op EXCEPT !.files = files] ELSE op
  <2>1. record \in Records
    BY <1>1, <1>6, CardAssumption
  <2>2. Command(Here, NextRecord(next), NextRecord(op))
    BY <1>6 DEF ReadRecord
  <2>3. /\ Advances(next) /\ next.pc = "record" /\ next.i = op.i /\ next.got = op.got
        /\ next.ret = op.ret
    <3>1. CASE record.kind # "p11"
      BY <1>1, <1>2, <3>1
    <3>2. CASE record.kind = "p11"
      <4>1. record.of \in Labels
        BY <2>1, <3>2 DEF Records
      <4>2. files \in Seq(Labels)
        BY <1>2, <4>1 DEF Operations
      <4> HIDE DEF files
      <4>3. next = [op EXCEPT !.files = files]
        BY <3>2
      <4> HIDE DEF next
      <4>4. /\ next \in Operations /\ next.name = op.name /\ next.pc = op.pc
            /\ next.i = op.i /\ next.applet = op.applet /\ next.arg = op.arg
            /\ next.got = op.got /\ next.ret = op.ret /\ next.faulty = op.faulty
        BY <1>2, <4>2, <4>3 DEF Operations
      <4> QED
        BY <1>1, <1>2, <4>4 DEF Advances
    <3> QED
      BY <3>1, <3>2
  <2> HIDE DEF next
  <2>4. Advances(NextRecord(next))
    BY <1>1, <2>3, NextRecordFacts
  <2>5. /\ BodyStep /\ card'[Ch] = Here
        /\ op'.faulty = (op.faulty \/ faults' # faults)
        /\ Follows(op', NextRecord(next)) \/ Follows(op', NextRecord(op))
    BY <1>1, <1>2, <1>4, <2>2, <2>4, AdvanceStep
  <2> QED
    BY <1>1, <1>2, <1>3, <2>3, <2>5
<1> QED
  BY <1>5, <1>6

\* There is no object left, or one is found, or the next one is tried.
LEMMA ProbeObjectStep ==
    ASSUME Types, Control, ProbeObject
    PROVE  /\ BodyStep
           /\ \/ op'.pc = "close" /\ op'.ret = "ERROR"
              \/ At(Here, "read", 0, op.got, op.ret)
              \/ At(Here, "probe", op.i, op.got, op.ret)
<1>1. /\ op.pc = "probe" /\ op.pc \in BodyPcs /\ UNCHANGED << applets, key, result >>
      /\ "read" \in BodyPcs /\ "read" \in Pcs
  BY DEF ProbeObject, BodyPcs, Pcs
<1>2. /\ Here \in ChannelStates /\ Here.applet # "closed" /\ op \in Operations
      /\ Advances(op) /\ op.ret = "ERROR" /\ Advances(Over("ERROR"))
      /\ Advances(Goto("read"))
  BY <1>1, BodyFacts
<1>3. CASE op.files = << >>
  <2>1. UNCHANGED << card, faults >> /\ op' = Over("ERROR")
    BY <1>3 DEF ProbeObject
  <2>2. BodyStep /\ Follows(op', Over("ERROR"))
    BY <1>1, <1>2, <2>1, QuietStep
  <2> QED
    BY <1>2, <2>2, OverFacts DEF Follows
<1>4. CASE op.files # << >>
  <2> DEFINE others == [op EXCEPT !.files = Tail(op.files)]
             next == IF Head(op.files) = op.arg THEN Goto("read") ELSE others
  <2>1. Command(Here, next, others)
    BY <1>4 DEF ProbeObject
  <2>2. Tail(op.files) \in Seq(Labels)
    BY <1>2, <1>4 DEF Operations
  <2>3. /\ others \in Operations /\ others.name = op.name /\ others.pc = op.pc
        /\ others.i = op.i /\ others.applet = op.applet /\ others.arg = op.arg
        /\ others.got = op.got /\ others.ret = op.ret /\ others.faulty = op.faulty
    BY <1>2, <2>2 DEF Operations
  <2>4. Advances(others)
    BY <1>2, <2>3 DEF Advances
  <2>5. Advances(next)
    BY <1>2, <2>4
  <2> HIDE DEF others, next
  <2>6. /\ BodyStep /\ card'[Ch] = Here
        /\ op'.faulty = (op.faulty \/ faults' # faults)
        /\ Follows(op', next) \/ Follows(op', others)
    BY <1>1, <1>2, <2>1, <2>4, <2>5, AdvanceStep
  <2>7. CASE Follows(op', others)
    BY <1>1, <2>3, <2>6, <2>7 DEF At, Follows
  <2>8. CASE Follows(op', Goto("read"))
    BY <1>1, <1>2, <2>6, <2>8, GotoFacts DEF At, Follows
  <2> QED
    BY <2>6, <2>7, <2>8 DEF next
<1> QED
  BY <1>3, <1>4

LEMMA ReadContainersStep ==
    ASSUME Types, Control, ReadContainers
    PROVE  /\ BodyStep
           /\ \/ faults' = faults /\ At(Here, "container", 0, op.got, op.ret)
              \/ faults' # faults /\ At(Here, "find", 0, op.got, op.ret)
<1>1. /\ op.pc \in BodyPcs /\ UNCHANGED << applets, key, result >>
      /\ { "container", "find" } \subseteq BodyPcs /\ BodyPcs \subseteq Pcs
  BY DEF ReadContainers, BodyPcs, Pcs
<1>2. /\ Here \in ChannelStates /\ Here.applet # "closed" /\ op \in Operations
      /\ Advances(Goto("container")) /\ Advances(Goto("find"))
  BY <1>1, BodyFacts
<1>3. Command(Here, Goto("container"), Goto("find"))
  BY DEF ReadContainers
<1>4. /\ BodyStep /\ card'[Ch] = Here
      /\ op'.faulty = (op.faulty \/ faults' # faults)
      /\ \/ faults' = faults /\ Follows(op', Goto("container"))
         \/ faults' # faults /\ Follows(op', Goto("find"))
  BY <1>1, <1>2, <1>3, AdvanceStep
<1> QED
  BY <1>1, <1>2, <1>4, GotoFacts DEF At, Follows

\* Where the reading of the containers is after one of them.
ContainerStep ==
    IF op.i + 1 \in DOMAIN Containers THEN At(Here, "container", op.i + 1, op.got, op.ret)
    ELSE At(Here, "directory", 0, op.got, op.ret)

\* A container is read, or passed over; or the rest of them are.
LEMMA ReadContainerStep ==
    ASSUME Types, Control, ReadContainer
    PROVE  /\ BodyStep
           /\ \/ faults' = faults /\ ContainerStep
              \/ /\ faults' # faults
                 /\ ContainerStep \/ At(Here, "directory", 0, op.got, op.ret)
<1>1. /\ op.pc = "container" /\ op.pc \in BodyPcs /\ UNCHANGED << applets, key, result >>
      /\ "directory" \in BodyPcs /\ "directory" \in Pcs
  BY DEF ReadContainer, BodyPcs, Pcs
<1>2. /\ op \in Operations /\ Advances(op) /\ op.ret = "ERROR" /\ op.i + 1 \in Nat
      /\ Advances(Goto("directory"))
  BY <1>1, BodyFacts DEF Operations
<1>3. /\ NextContainer(op) \in Operations
      /\ NextContainer(op).name = op.name /\ NextContainer(op).applet = op.applet
      /\ NextContainer(op).arg = op.arg /\ NextContainer(op).got = op.got
      /\ NextContainer(op).ret = op.ret /\ NextContainer(op).faulty = op.faulty
      /\ IF op.i + 1 \in DOMAIN Containers
         THEN NextContainer(op).pc = "container" /\ NextContainer(op).i = op.i + 1
         ELSE NextContainer(op).pc = "directory" /\ NextContainer(op).i = 0
  <2>1. CASE op.i + 1 \in DOMAIN Containers
    <3>1. NextContainer(op) = [op EXCEPT !.i = op.i + 1]
      BY <2>1 DEF NextContainer
    <3>2. NextContainer(op) \in Operations
      BY <1>2, <3>1 DEF Operations
    <3>3. NextContainer(op).pc = "container" /\ NextContainer(op).i = op.i + 1
      BY <1>1, <1>2, <3>1 DEF Operations
    <3>4. /\ NextContainer(op).name = op.name /\ NextContainer(op).applet = op.applet
          /\ NextContainer(op).arg = op.arg /\ NextContainer(op).got = op.got
          /\ NextContainer(op).ret = op.ret /\ NextContainer(op).faulty = op.faulty
      BY <1>2, <3>1 DEF Operations
    <3> QED
      BY <2>1, <3>2, <3>3, <3>4
  <2>2. CASE op.i + 1 \notin DOMAIN Containers
    <3>1. NextContainer(op) = [op EXCEPT !.i = 0, !.pc = "directory"]
      BY <2>2 DEF NextContainer
    <3>2. NextContainer(op) \in Operations
      <4>1. op \in Operations /\ "directory" \in Pcs /\ 0 \in Nat
        BY <1>1, <1>2
      <4> QED
        BY <3>1, <4>1 DEF Operations
    <3>3. NextContainer(op).pc = "directory" /\ NextContainer(op).i = 0
      BY <1>2, <3>1 DEF Operations
    <3>4. /\ NextContainer(op).name = op.name /\ NextContainer(op).applet = op.applet
          /\ NextContainer(op).arg = op.arg /\ NextContainer(op).got = op.got
          /\ NextContainer(op).ret = op.ret /\ NextContainer(op).faulty = op.faulty
      BY <1>2, <3>1 DEF Operations
    <3> QED
      BY <2>2, <3>2, <3>3, <3>4
  <2> QED
    BY <2>1, <2>2
<1>4. Advances(NextContainer(op))
  BY <1>1, <1>2, <1>3 DEF Advances
<1>5. CASE Answered(card) /\ Continue(NextContainer(op))
  <2>1. card' = card /\ UNCHANGED faults
    BY <1>5 DEF Answered
  <2>2. /\ BodyStep /\ card'[Ch] = Here /\ Follows(op', NextContainer(op))
        /\ op'.faulty = (op.faulty \/ faults' # faults)
    BY <1>1, <1>4, <1>5, <2>1, StillStep
  <2> QED
    BY <1>3, <2>1, <2>2 DEF ContainerStep, At, Follows
<1>6. CASE Refused /\ Continue(Goto("directory"))
  <2>1. card' = card /\ Fault /\ faults' # faults
    BY <1>6, FaultFacts DEF Refused
  <2>2. /\ BodyStep /\ card'[Ch] = Here /\ Follows(op', Goto("directory"))
        /\ op'.faulty = (op.faulty \/ faults' # faults)
    BY <1>1, <1>2, <1>6, <2>1, StillStep
  <2> QED
    BY <1>1, <1>2, <2>1, <2>2, GotoFacts DEF At, Follows
<1>7. CASE Lost(card) /\ Continue(NextContainer(op))
  <2>1. card' = card /\ Fault /\ faults' # faults
    BY <1>7, FaultFacts DEF Lost
  <2>2. /\ BodyStep /\ card'[Ch] = Here /\ Follows(op', NextContainer(op))
        /\ op'.faulty = (op.faulty \/ faults' # faults)
    BY <1>1, <1>4, <1>7, <2>1, StillStep
  <2> QED
    BY <1>3, <2>1, <2>2 DEF ContainerStep, At, Follows
<1> QED
  BY <1>5, <1>6, <1>7 DEF ReadContainer

LEMMA FindStep ==
    ASSUME Types, Control, Find
    PROVE  /\ BodyStep /\ faults' = faults
           /\ \/ op'.pc = "close" /\ (op.name = "certificate" => op'.ret = "ERROR")
              \/ op.name = "certificate" /\ At(Here, "open file", 0, op.got, op.ret)
<1> DEFINE found == FirstOf(op.arg)
           next == CASE op.name = "parse key" -> Over(IF found # {} THEN "0" ELSE "ERROR")
                     [] op.name = "certificate" /\ \E kp \in found : kp.cert ->
                           Goto("open file")
                     [] OTHER -> Over("ERROR")
<1>1. /\ op.pc \in BodyPcs /\ op' = next /\ op.name \in { "certificate", "parse key" }
      /\ UNCHANGED << card, faults, applets, key, result >>
      /\ "open file" \in BodyPcs /\ "open file" \in Pcs
  BY DEF Find, Control, Fits, BodyPcs, Pcs
<1>2. /\ Advances(Over("ERROR")) /\ Advances(Over("0")) /\ Advances(Goto("open file"))
      /\ op \in Operations
  BY <1>1, BodyFacts
<1>3. \/ op.name = "parse key" /\ next = Over("0")
      \/ next = Over("ERROR")
      \/ op.name = "certificate" /\ next = Goto("open file")
  BY <1>1
<1>4. Advances(next)
  BY <1>2, <1>3
<1> HIDE DEF next
<1>5. BodyStep /\ card'[Ch] = Here /\ Follows(op', next) /\ op'.faulty = op.faulty
  BY <1>1, <1>4, QuietStep
<1>6. CASE op.name = "parse key" /\ next = Over("0")
  BY <1>1, <1>2, <1>5, <1>6, OverFacts DEF Follows
<1>7. CASE next = Over("ERROR")
  BY <1>1, <1>2, <1>5, <1>7, OverFacts DEF Follows
<1>8. CASE op.name = "certificate" /\ next = Goto("open file")
  BY <1>1, <1>2, <1>5, <1>8, GotoFacts DEF Follows, At, Operations
<1> QED
  BY <1>3, <1>6, <1>7, <1>8

-----------------------------------------------------------------------------
(* What such a step preserves *)

LEMMA BodyHere ==
    ASSUME BodyStep
    PROVE  Ch' = Ch /\ Here' = card'[Ch]
  BY DEF BodyStep, Ch, Here

LEMMA BodyTypes ==
    ASSUME Types, BodyStep, keypairs' \subseteq Pairs,
           patchy' \in BOOLEAN
    PROVE  Types'
  BY DEF Types, TypeOK, BodyStep, ChannelStates, Counts, Channels, Pairs

LEMMA BodyControl ==
    ASSUME Types, Control, BodyStep, Fits(op'.pc, op.name)
    PROVE  Control'
<1>1. Ch' = Ch
  BY BodyHere
<1>2. /\ op.name # "none" /\ (op.applet = "MF" <=> op.name = "file")
      /\ IF op.name = "object" THEN op.arg \in Labels ELSE op.arg \in DOMAIN Containers
      /\ applets[op.applet].selected /\ Ch \in Open
      /\ \A a \in Applets : applets[a].selected => applets[a].channel \in Channels
  BY DEF Control, BodyStep, BodyPcs
<1>3. Ch' \in Open' /\ applets'[op'.applet].selected
  BY <1>1, <1>2 DEF BodyStep
<1>4. /\ op'.pc \notin { "idle", "close first", "open", "select", "undo" }
      /\ op'.pc \in BodyPcs => op'.ret = "ERROR"
      /\ op'.name = op.name /\ op'.applet = op.applet /\ op'.arg = op.arg
      /\ applets' = applets
  BY DEF BodyStep, BodyPcs
<1>5. Fits(op.pc, op.name)'
  BY <1>4
<1> QED
  BY <1>2, <1>3, <1>4, <1>5 DEF Control, Channels

LEMMA BodyAccounted ==
    ASSUME Types, Control, Accounted, BodyStep
    PROVE  Accounted'
<1>1. Ch' = Ch /\ Open' = Open
  BY BodyHere DEF BodyStep
<1>2. Cardinality(Open \ { Ch }) <= faults.channel
  BY DEF Accounted, BodyStep
<1>3. (Open \ { Ch })' = Open \ { Ch }
  BY <1>1
<1>4. /\ op'.pc \in BodyPcs \cup { "close" } /\ applets'[op'.applet].selected
      /\ faults.channel <= faults'.channel
  BY DEF BodyStep, Control, Counts
<1>5. Cardinality(Open \ { Ch }) <= faults'.channel
  <2>1. faults.channel \in Nat /\ faults'.channel \in Nat
    BY DEF BodyStep, Counts, Types, TypeOK
  <2>2. Cardinality(Open \ { Ch }) \in Nat
    <3>0. NumChannels \in Nat
      BY CardAssumption
    <3>1. IsFiniteSet(Channels)
      BY <3>0, FS_Interval DEF Channels
    <3>2. IsFiniteSet(Open \ { Ch })
      BY <3>1, FS_Subset DEF Open
    <3> QED
      BY <3>2, FS_CardinalityType
  <2> QED
    BY <1>2, <1>4, <2>1, <2>2
<1> QED
  BY <1>3, <1>4, <1>5 DEF Accounted, BodyPcs

LEMMA BodyExcused ==
    ASSUME Types, Control, Excused, BodyStep
    PROVE  Excused'
<1>1. faults.channel \in Nat /\ faults'.channel \in Nat /\ NumChannels \in Nat
  BY CardAssumption DEF BodyStep, Counts, Types, TypeOK
<1>2. op'.pc # "undo" /\ op'.ret # "NONE" /\ result' = result /\ faults'.channel >= faults.channel
  BY DEF BodyStep, BodyPcs
<1> QED
  BY <1>1, <1>2 DEF Excused, SelectUnlessFull

\* The next part, or the next block, after those before it.
LEMMA AppendNext ==
    ASSUME NEW n \in Nat
    PROVE  /\ Append(UpTo(n), n + 1) = UpTo(n + 1)
           /\ Append(BlocksBefore(n), n) = BlocksBefore(n + 1)
           /\ UpTo(0) = << >> /\ BlocksBefore(0) = << >>
<1>1. UpTo(n) \in Seq(Int) /\ Len(UpTo(n)) = n
  BY DEF UpTo
<1>2. BlocksBefore(n) \in Seq(Int) /\ Len(BlocksBefore(n)) = n
  BY DEF BlocksBefore
<1>3. Append(UpTo(n), n + 1) = UpTo(n + 1)
  BY <1>1 DEF UpTo
<1>4. Append(BlocksBefore(n), n) = BlocksBefore(n + 1)
  BY <1>2 DEF BlocksBefore
<1>5. UpTo(0) = << >> /\ BlocksBefore(0) = << >>
  BY DEF UpTo, BlocksBefore
<1> QED
  BY <1>3, <1>4, <1>5

\* What the four invariants ask of an operation that is over.
LEMMA OverKeeps ==
    ASSUME BodyStep, op'.pc = "close", op'.ret = "ERROR" \/ op'.name \in { "parse key", "decrypt" },
           InParts, InBlocks
    PROVE  Fits(op'.pc, op.name) /\ Ready' /\ InParts' /\ InBlocks'
<1>1. result' = result /\ op'.pc \notin BodyPcs
  BY DEF BodyStep, BodyPcs
<1>2. SignatureWhole' /\ ObjectWhole'
  BY <1>1 DEF InParts, InBlocks, SignatureWhole, ObjectWhole
<1> QED
  BY <1>1, <1>2 DEF Fits, Ready, ReadyOnChannel, InParts, InBlocks

\* The commands that verify the PIN and prepare the use of a key go on to where
\* what they have done is needed.
LEMMA PrepareKeeps ==
    ASSUME Types, Control, Ready, InParts, InBlocks,
           VerifyPin \/ MseSetBeforeSignature \/ PsoHashExternally \/ MseSetBeforeDecrypt
    PROVE  Fits(op'.pc, op.name) /\ Ready' /\ InParts' /\ InBlocks'
<1> USE DEF BodyPcs
<1>1. /\ BodyStep /\ op.pc \in BodyPcs
  BY VerifyPinStep, MseSetBeforeSignatureStep, PsoHashExternallyStep, MseSetBeforeDecryptStep
     DEF BodyStep
<1>2. /\ Here' = card'[Ch] /\ result' = result /\ op'.name = op.name /\ op'.arg = op.arg
      /\ op'.applet = op.applet
  BY <1>1, BodyHere DEF BodyStep
<1>3. Here \in ChannelStates /\ Here.applet = op.applet /\ Here.sent = 0 /\ op.got = << >>
  BY <1>1, BodyFacts DEF VerifyPin, MseSetBeforeSignature, PsoHashExternally,
     MseSetBeforeDecrypt, Ready, ReadyOnChannel, InParts
<1>4. SignatureWhole' /\ ObjectWhole'
  BY <1>2 DEF InParts, InBlocks, SignatureWhole, ObjectWhole
<1>5. CASE Fails
  BY <1>1, <1>5, OverKeeps DEF Fails
<1>6. CASE ~Fails /\ VerifyPin
  <2>1. PICK pc \in { "mse sign", "mse decrypt", "directory", "open file" } :
           /\ op.name = "sign" => pc = "mse sign"
           /\ op.name = "decrypt" => pc = "mse decrypt"
           /\ op.name = "object" => pc = "directory"
           /\ op.name = "file" => pc = "open file"
           /\ At([Here EXCEPT !.pin = TRUE], pc, 0, op.got, op.ret)
    BY <1>6, VerifyPinStep
  <2>2. op.name \in { "file", "object", "sign", "decrypt" }
    BY <1>6 DEF VerifyPin, Control, Fits
  <2>3. Here'.pin /\ Here'.sent = 0 /\ Here'.applet = op.applet
    BY <1>2, <1>3, <2>1 DEF At, ChannelStates
  <2>4. op'.pc = pc /\ op'.got = << >>
    BY <1>3, <2>1 DEF At
  <2> QED
    BY <1>2, <1>4, <2>1, <2>2, <2>3, <2>4 DEF Fits, Ready, ReadyOnChannel, InParts, InBlocks
<1>7. CASE ~Fails /\ MseSetBeforeSignature
  <2>1. At([Here EXCEPT !.env = op.arg], "hash", 0, op.got, op.ret)
    BY <1>7, MseSetBeforeSignatureStep
  <2>2. op.name = "sign" /\ Here.pin
    BY <1>7 DEF MseSetBeforeSignature, Control, Fits, Ready, ReadyOnChannel
  <2>3. Here'.pin /\ Here'.sent = 0 /\ Here'.applet = op.applet /\ Here'.env = op.arg
    BY <1>2, <1>3, <2>1, <2>2 DEF At, ChannelStates
  <2>4. op'.pc = "hash" /\ op'.got = << >>
    BY <1>3, <2>1 DEF At
  <2> QED
    BY <1>2, <1>4, <2>2, <2>3, <2>4 DEF Fits, Ready, ReadyOnChannel, InParts, InBlocks
<1>8. CASE ~Fails /\ PsoHashExternally
  <2>1. At([Here EXCEPT !.hash = TRUE], "sign", 0, op.got, op.ret)
    BY <1>8, PsoHashExternallyStep
  <2>2. op.name = "sign" /\ Here.pin /\ Here.env = op.arg
    BY <1>8 DEF PsoHashExternally, Control, Fits, Ready, ReadyOnChannel
  <2>3. Here'.pin /\ Here'.sent = 0 /\ Here'.applet = op.applet /\ Here'.env = op.arg
    BY <1>2, <1>3, <2>1, <2>2 DEF At, ChannelStates
  <2>4. op'.pc = "sign" /\ op'.got = << >>
    BY <1>3, <2>1 DEF At
  <2> QED
    BY <1>2, <1>4, <2>2, <2>3, <2>4 DEF Fits, Ready, ReadyOnChannel, InParts, InBlocks
<1>9. CASE ~Fails /\ MseSetBeforeDecrypt
  <2>1. At([Here EXCEPT !.env = op.arg], "decipher", 0, op.got, op.ret)
    BY <1>9, MseSetBeforeDecryptStep
  <2>2. op.name = "decrypt" /\ Here.pin
    BY <1>9 DEF MseSetBeforeDecrypt, Control, Fits, Ready, ReadyOnChannel
  <2>3. Here'.pin /\ Here'.sent = 0 /\ Here'.applet = op.applet /\ Here'.env = op.arg
    BY <1>2, <1>3, <2>1, <2>2 DEF At, ChannelStates
  <2>4. op'.pc = "decipher" /\ op'.got = << >>
    BY <1>3, <2>1 DEF At
  <2> QED
    BY <1>2, <1>4, <2>2, <2>3, <2>4 DEF Fits, Ready, ReadyOnChannel, InParts, InBlocks
<1> QED
  BY <1>5, <1>6, <1>7, <1>8, <1>9

\* A part of a signature that arrives is the next one.
LEMMA PartKeeps ==
    ASSUME Types, Control, Ready, InParts, InBlocks,
           PsoComputeDigitalSignature \/ GetResponse
    PROVE  Fits(op'.pc, op.name) /\ Ready' /\ InParts' /\ InBlocks'
<1> USE DEF BodyPcs
<1>1. BodyStep /\ PartStep /\ op.pc \in BodyPcs
  BY PsoComputeDigitalSignatureStep, GetResponseStep DEF BodyStep
<1>2. /\ Here' = card'[Ch] /\ result' = result /\ op'.name = op.name /\ op'.arg = op.arg
      /\ op'.applet = op.applet
  BY <1>1, BodyHere DEF BodyStep
<1>3. /\ Here \in ChannelStates /\ Here.applet = op.applet /\ Here.pin
      /\ Here.env = op.arg /\ op.name = "sign"
  BY <1>1, BodyFacts DEF PsoComputeDigitalSignature, GetResponse, Ready, ReadyOnChannel,
     Control, Fits
<1>4. SignatureWhole' /\ ObjectWhole'
  BY <1>2 DEF InParts, InBlocks, SignatureWhole, ObjectWhole
<1>5. Parts \in Nat \ { 0 } /\ Here.sent \in Nat /\ Here.sent <= Parts
  BY <1>3, CardAssumption DEF ChannelStates
<1>6. Here.sent < Parts /\ op.got = UpTo(Here.sent)
  <2>1. CASE op.pc = "sign"
    <3>1. Here.sent = 0 /\ op.got = << >>
      BY <2>1 DEF InParts
    <3>2. UpTo(0) = << >>
      BY AppendNext
    <3> QED
      BY <1>5, <3>1, <3>2
  <2>2. CASE op.pc = "get response"
    <3>1. Here.sent \in 1..Parts - 1 /\ op.got = UpTo(Here.sent)
      BY <2>2 DEF InParts
    <3> QED
      BY <1>5, <3>1
  <2> QED
    BY <2>1, <2>2 DEF PsoComputeDigitalSignature, GetResponse
<1>7. CASE Fails
  BY <1>1, <1>7, OverKeeps DEF Fails
<1>8. CASE ~Fails
  <2>1. /\ Here'.sent = Here.sent + 1 /\ op'.got = UpTo(Here.sent + 1)
        /\ Here' = [Here EXCEPT !.sent = Here.sent + 1]
        /\ IF Here.sent + 1 = Parts THEN op'.pc = "close" /\ op'.ret = "0"
           ELSE op'.pc = "get response"
    BY <1>1, <1>2, <1>5, <1>6, <1>8, AppendNext DEF PartStep
  <2>2. Here'.applet = op.applet /\ Here'.pin /\ Here'.env = op.arg
    BY <1>3, <2>1 DEF ChannelStates
  <2>3. CASE Here.sent + 1 = Parts
    BY <1>2, <1>3, <1>4, <2>1, <2>2, <2>3 DEF Fits, Ready, ReadyOnChannel, InParts, InBlocks
  <2>4. CASE Here.sent + 1 # Parts
    <3>1. op'.pc = "get response" /\ Here'.sent = Here.sent + 1 /\ op'.got = UpTo(Here.sent + 1)
      BY <2>1, <2>4
    <3>2. Here'.sent \in 1..Parts - 1 /\ op'.got = UpTo(Here'.sent)
      <4>1. Here.sent + 1 \in 1..Parts - 1
        BY <1>5, <1>6, <2>4
      <4> QED
        BY <3>1, <4>1
    <3> QED
      BY <1>2, <1>3, <1>4, <2>2, <3>1, <3>2
         DEF Fits, Ready, ReadyOnChannel, InParts, InBlocks
  <2> QED
    BY <2>3, <2>4
<1> QED
  BY <1>7, <1>8

\* A step that changes nothing on the card and reads nothing.
LEMMA SearchKeeps ==
    ASSUME Types, Control, Ready, InParts, InBlocks, BodyStep, card'[Ch] = Here,
           op.pc \in BodyPcs \ { "get response", "read" }, op'.got = op.got,
           op'.pc \in { "decipher", "directory", "record", "probe", "container", "find",
                        "open file" },
           op'.pc = "decipher" => op.pc = "decipher",
           op'.pc = "open file" => op.name = "certificate",
           op.name = "object" => op.pc \in { "directory", "record", "probe" },
           Fits(op'.pc, op.name)
    PROVE  Ready' /\ InParts' /\ InBlocks'
<1>1. /\ Here' = Here /\ result' = result /\ op'.name = op.name /\ op'.arg = op.arg
      /\ op'.applet = op.applet
  BY BodyHere DEF BodyStep
<1>2. SignatureWhole' /\ ObjectWhole'
  BY <1>1 DEF InParts, InBlocks, SignatureWhole, ObjectWhole
<1>3. Here.applet = op.applet /\ Here.sent = 0 /\ op.got = << >>
  BY DEF Ready, ReadyOnChannel, InParts, BodyPcs
<1>4. /\ op.name = "object" => Here.pin
      /\ op.pc = "decipher" => Here.pin /\ Here.env = op.arg
  BY DEF Ready, ReadyOnChannel
<1>5. op'.pc = "probe" => op.name = "object"
  BY DEF Fits
<1>6. Ready'
  BY <1>1, <1>3, <1>4, <1>5 DEF Ready, ReadyOnChannel
<1>7. InParts'
  BY <1>1, <1>2, <1>3 DEF InParts
<1>8. InBlocks'
  BY <1>2 DEF InBlocks
<1> QED
  BY <1>6, <1>7, <1>8

LEMMA SearchesKeep ==
    ASSUME Types, Control, Ready, InParts, InBlocks, InList,
           PsoDecipher \/ ReadDirectory \/ ReadRecord \/ ReadContainers \/ ReadContainer \/ Find
    PROVE  Fits(op'.pc, op.name) /\ Ready' /\ InParts' /\ InBlocks'
<1>1. CASE PsoDecipher
  <2>1. /\ BodyStep /\ op.pc = "decipher" /\ op.name = "decrypt"
        /\ Fails \/ op'.pc = "close" \/ At(Here, "decipher", 1, op.got, op.ret)
    BY <1>1, PsoDecipherStep DEF PsoDecipher, Control, Fits
  <2>2. CASE op'.pc = "close"
    BY <2>1, <2>2, OverKeeps DEF BodyStep
  <2>3. CASE At(Here, "decipher", 1, op.got, op.ret)
    BY <2>1, <2>3, SearchKeeps DEF At, Fits, BodyPcs
  <2> QED
    BY <2>1, <2>2, <2>3 DEF Fails
<1>2. CASE ReadDirectory
  <2>1. /\ BodyStep /\ op.pc = "directory"
        /\ op.name \in { "object", "certificate", "parse key" }
    BY <1>2, ReadDirectoryStep DEF ReadDirectory, Control, Fits
  <2>2. CASE Fails
    BY <2>1, <2>2, OverKeeps DEF Fails
  <2>3. CASE At(Here, "record", 0, op.got, op.ret)
    BY <2>1, <2>3, SearchKeeps DEF At, Fits, BodyPcs
  <2>4. CASE op.name # "object" /\ At(Here, "find", 0, op.got, op.ret)
    BY <2>1, <2>4, SearchKeeps DEF At, Fits, BodyPcs
  <2> QED
    BY <1>2, <2>2, <2>3, <2>4, ReadDirectoryStep
<1>3. CASE ReadRecord
  <2>1. /\ BodyStep /\ RecordStep /\ op.pc = "record"
        /\ op.name \in { "object", "certificate", "parse key" }
    BY <1>3, ReadRecordStep DEF ReadRecord, Control, Fits
  <2>2. CASE At(Here, "record", op.i + 1, op.got, op.ret)
    BY <2>1, <2>2, SearchKeeps DEF At, Fits, BodyPcs
  <2>3. CASE op.name = "object" /\ At(Here, "probe", 0, op.got, op.ret)
    BY <2>1, <2>3, SearchKeeps DEF At, Fits, BodyPcs
  <2>4. CASE op.name # "object" /\ At(Here, "find", 0, op.got, op.ret)
    BY <2>1, <2>4, SearchKeeps DEF At, Fits, BodyPcs
  <2> QED
    BY <2>1, <2>2, <2>3, <2>4 DEF RecordStep
<1>4. CASE ReadContainers
  <2>1. /\ BodyStep /\ op.pc = "containers" /\ op.name \in { "certificate", "parse key" }
        /\ \/ At(Here, "container", 0, op.got, op.ret)
           \/ At(Here, "find", 0, op.got, op.ret)
    BY <1>4, ReadContainersStep DEF ReadContainers, Control, Fits
  <2> QED
    BY <2>1, SearchKeeps DEF At, Fits, BodyPcs
<1>5. CASE ReadContainer
  <2>1. /\ BodyStep /\ op.pc = "container" /\ op.name \in { "certificate", "parse key" }
        /\ \/ At(Here, "container", op.i + 1, op.got, op.ret)
           \/ At(Here, "directory", 0, op.got, op.ret)
    BY <1>5, ReadContainerStep DEF ReadContainer, ContainerStep, Control, Fits
  <2> QED
    BY <2>1, SearchKeeps DEF At, Fits, BodyPcs
<1>6. CASE Find
  <2>1. /\ BodyStep /\ op.pc = "find" /\ op.name \in { "certificate", "parse key" }
        /\ \/ op'.pc = "close" /\ (op.name = "certificate" => op'.ret = "ERROR")
           \/ op.name = "certificate" /\ At(Here, "open file", 0, op.got, op.ret)
    BY <1>6, FindStep DEF Find, Control, Fits
  <2>2. CASE op'.pc = "close" /\ (op.name = "certificate" => op'.ret = "ERROR")
    BY <2>1, <2>2, OverKeeps DEF BodyStep
  <2>3. CASE op.name = "certificate" /\ At(Here, "open file", 0, op.got, op.ret)
    BY <2>1, <2>3, SearchKeeps DEF At, Fits, BodyPcs
  <2> QED
    BY <2>1, <2>2, <2>3
<1> QED
  BY <1>1, <1>2, <1>3, <1>4, <1>5, <1>6

\* What is asked of an operation that reads on.
LEMMA ReadingKeeps ==
    ASSUME Types, Control, Ready, InParts, InBlocks, BodyStep, card'[Ch] = Here,
           op.pc \in { "open file", "probe", "read" }, op'.pc = "read", op'.i < Blocks,
           op.name = "file" \/ ~op'.faulty => op'.got = BlocksBefore(op'.i)
    PROVE  Fits(op'.pc, op.name) /\ Ready' /\ InParts' /\ InBlocks'
<1>1. /\ Here' = Here /\ result' = result /\ op'.name = op.name /\ op'.arg = op.arg
      /\ op'.applet = op.applet
  BY BodyHere DEF BodyStep
<1>2. SignatureWhole' /\ ObjectWhole'
  BY <1>1 DEF InParts, InBlocks, SignatureWhole, ObjectWhole
<1>3. /\ Here.applet = op.applet /\ Here.sent = 0 /\ (op.name # "certificate" => Here.pin)
      /\ op.name \in { "file", "object", "certificate" }
  BY DEF Ready, ReadyOnChannel, InParts, BodyPcs, Control, Fits
<1>4. Fits(op'.pc, op.name)
  BY <1>3 DEF Fits
<1>5. Ready'
  BY <1>1, <1>3 DEF Ready, ReadyOnChannel
<1>6. InParts'
  BY <1>1, <1>2, <1>3 DEF InParts
<1>7. InBlocks'
  BY <1>1, <1>2 DEF InBlocks
<1> QED
  BY <1>4, <1>5, <1>6, <1>7

\* A file is read block by block, and is over when the last one is read.
LEMMA ReadsKeep ==
    ASSUME Types, Control, Ready, InParts, InBlocks, OpenFile \/ ProbeObject \/ ReadBinary
    PROVE  Fits(op'.pc, op.name) /\ Ready' /\ InParts' /\ InBlocks'
<1> Blocks \in Nat \ { 0 }
  BY CardAssumption
<1>1. BlocksBefore(0) = << >> /\ 0 < Blocks
  BY AppendNext
<1>2. CASE OpenFile
  <2>1. BodyStep /\ op.pc = "open file" /\ op.got = << >>
    BY <1>2, OpenFileStep DEF OpenFile, InParts
  <2>2. CASE Fails
    BY <2>1, <2>2, OverKeeps DEF Fails
  <2>3. CASE At(Here, "read", 0, op.got, op.ret)
    BY <1>1, <2>1, <2>3, ReadingKeeps DEF At
  <2> QED
    BY <1>2, <2>2, <2>3, OpenFileStep
<1>3. CASE ProbeObject
  <2>1. BodyStep /\ op.pc = "probe" /\ op.name = "object" /\ op.got = << >>
    BY <1>3, ProbeObjectStep DEF ProbeObject, InParts, Control, Fits
  <2>2. CASE op'.pc = "close" /\ op'.ret = "ERROR"
    BY <2>1, <2>2, OverKeeps
  <2>3. CASE At(Here, "read", 0, op.got, op.ret)
    BY <1>1, <2>1, <2>3, ReadingKeeps DEF At
  <2>4. CASE At(Here, "probe", op.i, op.got, op.ret)
    BY <2>1, <2>4, SearchKeeps DEF At, Fits, BodyPcs
  <2> QED
    BY <1>3, <2>2, <2>3, <2>4, ProbeObjectStep
<1>4. CASE ReadBinary
  <2>1. /\ BodyStep /\ op.pc = "read" /\ op.i \in Nat /\ op.i < Blocks
        /\ op.name \in { "file", "object", "certificate" }
        /\ op.applet = "MF" <=> op.name = "file"
        /\ op.faulty \in BOOLEAN
    BY <1>4, ReadBinaryStep DEF ReadBinary, InBlocks, Types, Operations, Control, Fits
  <2>2. op.name = "file" \/ ~op.faulty => op.got = BlocksBefore(op.i)
    BY <2>1 DEF InBlocks
  <2>3. Append(BlocksBefore(op.i), op.i) = BlocksBefore(op.i + 1)
    BY <2>1, AppendNext
  <2>4. CASE Fails
    BY <2>1, <2>4, OverKeeps DEF Fails
  <2>5. ASSUME NEW got, BlockStep(got),
               op.name = "file" \/ ~op'.faulty => got = BlocksBefore(op.i + 1)
        PROVE  Fits(op'.pc, op.name) /\ Ready' /\ InParts' /\ InBlocks'
    <3>1. CASE op.i + 1 < Blocks
      <4>1. /\ card'[Ch] = Here /\ op'.pc = "read" /\ op'.i = op.i + 1 /\ op'.got = got
        BY <2>5, <3>1 DEF BlockStep, At
      <4> QED
        BY <2>1, <2>5, <3>1, <4>1, ReadingKeeps
    <3>2. CASE ~(op.i + 1 < Blocks)
      <4>1. op'.pc = "close" /\ op'.got = got /\ op.i + 1 = Blocks
        BY <2>1, <2>5, <3>2 DEF BlockStep, At
      <4>2. result' = result /\ op'.name = op.name
        BY <2>1 DEF BodyStep
      <4>3. SignatureWhole' /\ ObjectWhole'
        BY <4>2 DEF InParts, InBlocks, SignatureWhole, ObjectWhole
      <4>4. Fits(op'.pc, op.name) /\ Ready'
        BY <4>1 DEF Fits, Ready, ReadyOnChannel
      <4>5. InParts'
        BY <2>1, <4>1, <4>2, <4>3 DEF InParts, BodyPcs
      <4>6. InBlocks'
        BY <2>5, <4>1, <4>2, <4>3 DEF InBlocks
      <4> QED
        BY <4>4, <4>5, <4>6
    <3> QED
      BY <3>1, <3>2
  <2>6. CASE faults' = faults /\ BlockStep(Append(op.got, op.i))
    <3>1. op'.faulty = op.faulty
      BY <2>1, <2>6 DEF BlockStep, At
    <3> QED
      BY <2>2, <2>3, <2>5, <2>6, <3>1
  <2>7. CASE faults' # faults /\ op.applet # "MF" /\ BlockStep(op.got)
    <3>1. op'.faulty
      BY <2>1, <2>7 DEF BlockStep, At
    <3> QED
      BY <2>1, <2>5, <2>7, <3>1
  <2> QED
    BY <1>4, <2>4, <2>6, <2>7, ReadBinaryStep
<1> QED
  BY <1>2, <1>3, <1>4

-----------------------------------------------------------------------------
(* The list of key pairs *)

\* A container number is one that a key pair can have.
LEMMA CidTypes ==
    ASSUME NEW i \in DOMAIN Containers
    PROVE  CidsOf(i) \subseteq Cids
<1>1. i \in Nat /\ KidSpan \in Nat \ { 0 }
  BY ContainerNumbers, CardAssumption
<1>2. (i + 1) % KidSpan \in 0..KidSpan - 1
  BY <1>1
<1> DEFINE m == (i + 1) % KidSpan
<1> HIDE DEF m
<1>3. m \in 0..KidSpan - 1 => m - 1 \in -1..KidSpan - 2
  BY <1>1
<1>4. m - 1 \in Cids
  BY <1>2, <1>3 DEF m, Cids
<1> QED
  BY <1>4 DEF CidsOf, m

LEMMA AlikeFacts ==
    ASSUME NEW i \in DOMAIN Containers, Containers[i] # "empty", NEW cid \in CidsOf(i)
    PROVE  Alike(cid, i)
<1> DEFINE m == (i + 1) % KidSpan
<1>1. i \in Nat /\ KidSpan \in Nat \ { 0 } /\ Containers[i] \in { "key", "odd" }
  BY ContainerNumbers, CardAssumption DEF Contents
<1>2. m \in Int
  BY <1>1
<1> HIDE DEF m
<1>3. m = (m - 1) + 1
  BY <1>2
<1> QED
  BY <1>1, <1>3 DEF CidsOf, Alike, m

\* The key pair of the next container joins a list.
LEMMA NextListed ==
    ASSUME NEW list, list \subseteq Pairs, NEW n \in DOMAIN Containers,
           Containers[n] # "empty", NEW cid \in CidsOf(n),
           Sound(list), Single(list), Below(list, n)
    PROVE  LET new == list \cup { [of |-> n, cid |-> cid, cert |-> FALSE] }
           IN  /\ new \subseteq Pairs /\ Sound(new) /\ Single(new) /\ Below(new, n + 1)
               /\ Covers(list, n) => Covers(new, n + 1)
<1> DEFINE kp == [of |-> n, cid |-> cid, cert |-> FALSE]
           new == list \cup { kp }
<1>1. n \in Nat /\ \A c \in DOMAIN Containers : c \in Nat
  BY ContainerNumbers
<1>2. kp \in Pairs /\ kp.of = n /\ kp.cid = cid /\ kp.cert = FALSE
  BY CidTypes DEF Pairs
<1> HIDE DEF kp
<1>3. new \subseteq Pairs
  BY <1>2
<1>4. Sound(new)
  BY <1>2, AlikeFacts DEF Sound
<1>5. \A other \in list : other.of \in Nat /\ other.of < n /\ other.of # n
  BY <1>1 DEF Below, Pairs
<1>6. Single(new)
  BY <1>2, <1>5 DEF Single
<1>7. Below(new, n + 1)
  BY <1>1, <1>2, <1>5 DEF Below
<1>8. ASSUME Covers(list, n)
      PROVE  Covers(new, n + 1)
  <2> SUFFICES ASSUME NEW c \in DOMAIN Containers, c < n + 1, Containers[c] # "empty"
               PROVE  \E other \in new : other.of = c
    BY DEF Covers
  <2>1. CASE c = n
    BY <1>2, <2>1
  <2>2. CASE c # n
    <3>1. c < n
      BY <1>1, <2>2
    <3> QED
      BY <1>8, <3>1 DEF Covers
  <2> QED
    BY <2>1, <2>2
<1> QED
  BY <1>3, <1>4, <1>6, <1>7, <1>8 DEF kp

\* What a record does to a key pair of a list, and to the list.
Marked(list, kp, k) == IF Directory[k] = [kind |-> "cert", of |-> kp.cid] /\ Front(list, kp)
                       THEN [kp EXCEPT !.cert = TRUE] ELSE kp

LEMMA NextMarked ==
    ASSUME NEW list, list \subseteq Pairs, NEW k \in DOMAIN Directory,
           Sound(list), Single(list)
    PROVE  LET new == { Marked(list, kp, k) : kp \in list }
           IN  /\ new \subseteq Pairs /\ Sound(new) /\ Single(new)
               /\ Covers(list, All) => Covers(new, All)
               /\ CertifiedTo(list, k) => CertifiedTo(new, k + 1)
<1> DEFINE mark(kp) == Marked(list, kp, k)
           new == { mark(kp) : kp \in list }
<1>1. ASSUME NEW kp \in list
      PROVE  /\ mark(kp) \in Pairs /\ mark(kp).of = kp.of /\ mark(kp).cid = kp.cid
             /\ Directory[k] = [kind |-> "cert", of |-> kp.cid] /\ Front(list, kp)
                   => mark(kp).cert
             /\ ~(Directory[k] = [kind |-> "cert", of |-> kp.cid] /\ Front(list, kp))
                   => mark(kp) = kp
  <2>1. CASE Directory[k] = [kind |-> "cert", of |-> kp.cid] /\ Front(list, kp)
    <3>1. mark(kp) = [kp EXCEPT !.cert = TRUE]
      BY <2>1 DEF Marked
    <3> QED
      BY <2>1, <3>1 DEF Pairs
  <2>2. CASE ~(Directory[k] = [kind |-> "cert", of |-> kp.cid] /\ Front(list, kp))
    BY <2>2 DEF Marked
  <2> QED
    BY <2>1, <2>2
<1> HIDE DEF mark
<1>2. new \subseteq Pairs
  BY <1>1
<1>3. Sound(new)
  <2> SUFFICES ASSUME NEW kp \in list
               PROVE  /\ Alike(mark(kp).cid, mark(kp).of)
                      /\ mark(kp).cert => HasCertificate(mark(kp).cid)
    BY DEF Sound
  <2>1. Alike(kp.cid, kp.of) /\ (kp.cert => HasCertificate(kp.cid))
    BY DEF Sound
  <2>2. Directory[k] = [kind |-> "cert", of |-> kp.cid] => HasCertificate(kp.cid)
    BY DEF HasCertificate
  <2> QED
    BY <1>1, <2>1, <2>2
<1>4. Single(new)
  <2> SUFFICES ASSUME NEW kp \in list, NEW other \in list, mark(kp).of = mark(other).of
               PROVE  mark(kp) = mark(other)
    BY DEF Single
  <2>1. kp = other
    BY <1>1 DEF Single
  <2> QED
    BY <2>1
<1>5. Covers(list, All) => Covers(new, All)
  <2> SUFFICES ASSUME Covers(list, All), NEW c \in DOMAIN Containers, c < All,
                      Containers[c] # "empty"
               PROVE  \E kp \in new : kp.of = c
    BY DEF Covers
  <2>1. PICK kp \in list : kp.of = c
    BY DEF Covers
  <2>2. mark(kp) \in new /\ mark(kp).of = c
    BY <1>1, <2>1
  <2> QED
    BY <2>2
<1>6. ASSUME NEW kp \in list, Front(new, mark(kp))
      PROVE  Front(list, kp)
  <2> SUFFICES ASSUME NEW other \in list, other.cid = kp.cid
               PROVE  other.of <= kp.of
    BY DEF Front
  <2>1. mark(other) \in new /\ mark(other).cid = mark(kp).cid
    BY <1>1
  <2>2. mark(other).of <= mark(kp).of
    BY <1>6, <2>1 DEF Front
  <2> QED
    BY <1>1, <2>2
<1>7. \A c : Certified(c, k + 1) => Certified(c, k) \/ Directory[k] = [kind |-> "cert", of |-> c]
  <2>1. \A j \in DOMAIN Directory : j \in Nat
    BY CardAssumption
  <2>2. \A j \in DOMAIN Directory : j < k + 1 <=> j < k \/ j = k
    BY <2>1
  <2> QED
    BY <2>2 DEF Certified
<1>8. CertifiedTo(list, k) => CertifiedTo(new, k + 1)
  <2> SUFFICES ASSUME CertifiedTo(list, k), NEW kp \in list, Front(new, mark(kp)),
                      Certified(mark(kp).cid, k + 1)
               PROVE  mark(kp).cert
    BY DEF CertifiedTo
  <2>1. Front(list, kp) /\ mark(kp).cid = kp.cid
    BY <1>1, <1>6
  <2>2. CASE Directory[k] = [kind |-> "cert", of |-> kp.cid]
    BY <1>1, <2>1, <2>2
  <2>3. CASE Directory[k] # [kind |-> "cert", of |-> kp.cid]
    <3>1. mark(kp) = kp /\ Certified(kp.cid, k)
      BY <1>1, <1>7, <2>1, <2>3
    <3> QED
      BY <2>1, <3>1 DEF CertifiedTo
  <2> QED
    BY <2>2, <2>3
<1> QED
  BY <1>2, <1>3, <1>4, <1>5, <1>8 DEF mark

\* No record has been looked at yet.
LEMMA NoneCertified == \A list : CertifiedTo(list, 0) /\ CertifiedTo(list, 1)
<1>1. \A c : ~Certified(c, 0) /\ ~Certified(c, 1)
  BY CardAssumption DEF Certified
<1> QED
  BY <1>1 DEF CertifiedTo

\* A step that leaves the list alone.
LEMMA ListUntouched ==
    ASSUME InList, UNCHANGED << keypairs, patchy >>, ~Listing, ~Listing',
           op'.pc = "record" => op'.i <= Len(Directory)
    PROVE  InList'
  BY DEF InList, Listing

LEMMA ContainersListed ==
    ASSUME Types, Control, InList, ReadContainers \/ ReadContainer
    PROVE  InList' /\ keypairs' \subseteq Pairs /\ patchy' \in BOOLEAN
<1>1. keypairs \subseteq Pairs /\ patchy \in BOOLEAN /\ op \in Operations
  BY DEF Types, TypeOK, Pairs
<1>2. CASE ReadContainers
  <2>1. keypairs = {} /\ keypairs' = {} /\ patchy' = FALSE
    BY <1>2 DEF ReadContainers, InList
  <2>2. (op'.pc = "container" /\ op'.i = 0) \/ op'.pc = "find"
    BY <1>2, ReadContainersStep DEF At
  <2>3. 0 \in DOMAIN Containers /\ Below({}, 0) /\ Covers({}, 0) /\ Sound({}) /\ Single({})
    BY ContainerNumbers DEF Below, Covers, Sound, Single
  <2>4. InList'
    BY <2>1, <2>2, <2>3 DEF InList, Listing
  <2> QED
    BY <2>1, <2>4
<1>3. CASE ReadContainer
  <2>1. /\ op.pc = "container" /\ op.i \in DOMAIN Containers /\ op.i \in Nat
        /\ Below(keypairs, op.i) /\ (~patchy => Covers(keypairs, op.i))
        /\ Sound(keypairs) /\ Single(keypairs)
    BY <1>3, ContainerNumbers DEF ReadContainer, InList
  <2>2. op.name # "object" /\ op'.name = op.name
    BY <1>3, <2>1, ReadContainerStep DEF Control, Fits, BodyStep
  <2>3. patchy' = (patchy \/ faults' # faults)
    BY <1>3, <2>2 DEF ReadContainer, Missed
  <2>4. Below(keypairs, op.i + 1)
    BY <1>1, <2>1, ContainerNumbers DEF Below, Pairs
  <2>5. CASE faults' # faults
    <3>1. keypairs' = keypairs
      BY <1>3, <2>5 DEF ReadContainer, Answered
    <3>2. \/ op'.pc = "container" /\ op'.i = op.i + 1 /\ op'.i \in DOMAIN Containers
          \/ op'.pc = "directory"
      BY <1>3, <2>5, ReadContainerStep DEF At, ContainerStep
    <3>3. InList'
      BY <2>1, <2>3, <2>4, <2>5, <3>1, <3>2 DEF InList, Listing
    <3> QED
      BY <1>1, <2>3, <3>1, <3>3
  <2>6. CASE faults' = faults
    <3>1. \/ Containers[op.i] = "empty" /\ keypairs' = keypairs
          \/ /\ Containers[op.i] # "empty"
             /\ \E cid \in CidsOf(op.i) :
                  keypairs' = keypairs \cup { [of |-> op.i, cid |-> cid, cert |-> FALSE] }
      <4>1. ~Fault
        BY <2>6, FaultFacts
      <4> QED
        BY <1>3, <4>1 DEF ReadContainer, Refused, Lost
    <3>2. /\ keypairs' \subseteq Pairs /\ Sound(keypairs') /\ Single(keypairs')
          /\ Below(keypairs', op.i + 1) /\ (~patchy => Covers(keypairs', op.i + 1))
      <4>1. CASE Containers[op.i] = "empty" /\ keypairs' = keypairs
        <5>1. Covers(keypairs, op.i) => Covers(keypairs, op.i + 1)
          BY <2>1, <4>1, ContainerNumbers DEF Covers
        <5> QED
          BY <1>1, <2>1, <2>4, <4>1, <5>1
      <4>2. ASSUME Containers[op.i] # "empty", NEW cid \in CidsOf(op.i),
                   keypairs' = keypairs \cup { [of |-> op.i, cid |-> cid, cert |-> FALSE] }
            PROVE  /\ keypairs' \subseteq Pairs /\ Sound(keypairs') /\ Single(keypairs')
                   /\ Below(keypairs', op.i + 1)
                   /\ Covers(keypairs, op.i) => Covers(keypairs', op.i + 1)
        BY <1>1, <2>1, <4>2, NextListed
      <4> QED
        BY <2>1, <3>1, <4>1, <4>2
    <3>3. IF op.i + 1 \in DOMAIN Containers THEN op'.pc = "container" /\ op'.i = op.i + 1
          ELSE op'.pc = "directory" /\ op.i + 1 = All
      <4>1. op.i + 1 \notin DOMAIN Containers => op.i + 1 = All
        BY <2>1, ContainerNumbers
      <4> QED
        BY <1>3, <2>6, <4>1, ReadContainerStep DEF At, ContainerStep
    <3>4. patchy' = patchy
      BY <1>1, <2>3, <2>6
    <3>5. InList'
      <4>1. CASE op.i + 1 \in DOMAIN Containers
        <5>1. op'.pc = "container" /\ op'.i = op.i + 1 /\ op'.i \in DOMAIN Containers
          BY <3>3, <4>1
        <5> QED
          BY <3>2, <3>4, <5>1 DEF InList, Listing
      <4>2. CASE op.i + 1 \notin DOMAIN Containers
        <5>1. op'.pc = "directory" /\ (~patchy' => Covers(keypairs', All))
          BY <3>2, <3>3, <3>4, <4>2
        <5> QED
          BY <2>2, <3>2, <5>1 DEF InList, Listing
      <4> QED
        BY <4>1, <4>2
    <3> QED
      BY <1>1, <3>2, <3>4, <3>5
  <2> QED
    BY <2>5, <2>6
<1> QED
  BY <1>2, <1>3

LEMMA DirectoryListed ==
    ASSUME Types, Control, InList, ReadDirectory
    PROVE  InList' /\ keypairs' \subseteq Pairs /\ patchy' \in BOOLEAN
<1>1. /\ keypairs \subseteq Pairs /\ patchy \in BOOLEAN /\ op.pc = "directory"
      /\ keypairs' = keypairs
      /\ patchy' = (patchy \/ (op.name # "object" /\ faults' # faults))
  BY DEF Types, TypeOK, Pairs, ReadDirectory, Missed
<1>2. /\ op'.name = op.name
      /\ \/ faults' = faults /\ op'.pc = "record" /\ op'.i = 0
         \/ op.name = "object" /\ op'.pc = "close"
         \/ faults' # faults /\ op.name # "object" /\ op'.pc = "find"
  BY ReadDirectoryStep DEF BodyStep, At, Fails
<1>3. 0 <= Len(Directory)
  BY CardAssumption
<1>4. CASE op.name = "object"
  <2>1. ~Listing /\ ~Listing' /\ patchy' = patchy
    BY <1>1, <1>2, <1>4 DEF Listing
  <2> QED
    BY <1>1, <1>2, <1>3, <2>1, ListUntouched
<1>5. CASE op.name # "object" /\ faults' # faults
  BY <1>1, <1>2, <1>5 DEF InList, Listing
<1>6. CASE op.name # "object" /\ faults' = faults
  <2>1. /\ patchy' = patchy /\ (~patchy => Covers(keypairs, All))
        /\ op'.pc = "record" /\ op'.i = 0 /\ CertifiedTo(keypairs, 0)
    BY <1>1, <1>2, <1>6, NoneCertified DEF InList, Listing
  <2> QED
    BY <1>1, <1>2, <1>3, <1>6, <2>1 DEF InList, Listing
<1> QED
  BY <1>4, <1>5, <1>6

LEMMA RecordListed ==
    ASSUME Types, Control, InList, ReadRecord
    PROVE  InList' /\ keypairs' \subseteq Pairs /\ patchy' \in BOOLEAN
<1>1. /\ keypairs \subseteq Pairs /\ patchy \in BOOLEAN /\ op.pc = "record"
      /\ patchy' = (patchy \/ (op.name # "object" /\ faults' # faults))
      /\ op.i \in Nat /\ op.i <= Len(Directory) /\ Len(Directory) \in Nat
      /\ Sound(keypairs) /\ Single(keypairs)
  <2>1. keypairs \subseteq Pairs /\ patchy \in BOOLEAN /\ op.i \in Nat
    BY DEF Types, TypeOK, Pairs, Operations
  <2>2. op.pc = "record" /\ patchy' = (patchy \/ (op.name # "object" /\ faults' # faults))
    BY DEF ReadRecord, Missed
  <2>3. op.i <= Len(Directory) /\ Sound(keypairs) /\ Single(keypairs)
    BY <2>2 DEF InList
  <2>4. Len(Directory) \in Nat
    BY CardAssumption
  <2> QED
    BY <2>1, <2>2, <2>3, <2>4
<1>2. keypairs' = IF op.name # "object" /\ op.i > 0 /\ faults' = faults
                  THEN { Marked(keypairs, kp, op.i) : kp \in keypairs } ELSE keypairs
  BY DEF ReadRecord, Marked, First, Front
<1>3. /\ op'.name = op.name
      /\ IF op.i < Len(Directory) THEN op'.pc = "record" /\ op'.i = op.i + 1
         ELSE op'.pc = IF op.name = "object" THEN "probe" ELSE "find"
  BY ReadRecordStep DEF BodyStep, RecordStep, At
<1>4. op'.pc = "record" => op'.i <= Len(Directory)
  BY <1>1, <1>3
<1>5. CASE op.name = "object"
  <2>1. ~Listing /\ ~Listing' /\ patchy' = patchy /\ keypairs' = keypairs
    BY <1>1, <1>2, <1>3, <1>5 DEF Listing
  <2> QED
    BY <1>1, <1>4, <2>1, ListUntouched
<1>6. CASE op.name # "object" /\ faults' # faults
  BY <1>1, <1>2, <1>3, <1>4, <1>6 DEF InList, Listing
<1>7. CASE op.name # "object" /\ faults' = faults
  <2>1. /\ patchy' = patchy
        /\ ~patchy => Covers(keypairs, All) /\ CertifiedTo(keypairs, op.i)
    BY <1>1, <1>7 DEF InList, Listing
  <2>2. /\ keypairs' \subseteq Pairs /\ Sound(keypairs') /\ Single(keypairs')
        /\ Covers(keypairs, All) => Covers(keypairs', All)
        /\ CertifiedTo(keypairs, op.i) => CertifiedTo(keypairs', op.i + 1)
    <3>1. CASE op.i = 0
      BY <1>1, <1>2, <3>1, NoneCertified
    <3>2. CASE op.i # 0
      <4>1. op.i > 0 /\ op.i \in DOMAIN Directory
        BY <1>1, <3>2, CardAssumption
      <4>2. keypairs' = { Marked(keypairs, kp, op.i) : kp \in keypairs }
        BY <1>2, <1>7, <4>1
      <4> QED
        BY <1>1, <4>1, <4>2, NextMarked
    <3> QED
      BY <3>1, <3>2
  <2>3. ~patchy' => Covers(keypairs', All) /\ CertifiedTo(keypairs', op.i + 1)
    BY <2>1, <2>2
  <2>4. InList'
    <3>1. CASE op.i < Len(Directory)
      <4>1. op'.pc = "record" /\ op'.i = op.i + 1 /\ op'.name # "object"
        BY <1>3, <1>7, <3>1
      <4> QED
        BY <1>4, <2>2, <2>3, <4>1 DEF InList, Listing
    <3>2. CASE ~(op.i < Len(Directory))
      <4>1. op'.pc = "find" /\ op.i = Len(Directory)
        BY <1>1, <1>3, <1>7, <3>2
      <4> QED
        BY <2>2, <2>3, <4>1 DEF InList, Listing
    <3> QED
      BY <3>1, <3>2
  <2> QED
    BY <1>1, <2>1, <2>2, <2>4
<1> QED
  BY <1>5, <1>6, <1>7

\* The steps that have nothing to do with the list.
LEMMA OthersListed ==
    ASSUME Types, Control, InList,
           \/ VerifyPin \/ MseSetBeforeSignature \/ PsoHashExternally \/ MseSetBeforeDecrypt
           \/ OpenFile \/ ReadBinary \/ ProbeObject \/ PsoDecipher \/ Find,
           BodyStep
    PROVE  InList' /\ UNCHANGED << keypairs, patchy >>
<1>1. UNCHANGED << keypairs, patchy >>
  BY DEF VerifyPin, MseSetBeforeSignature, PsoHashExternally, MseSetBeforeDecrypt, OpenFile,
         ReadBinary, ProbeObject, PsoDecipher, Find
<1>2. ~Listing
  BY DEF VerifyPin, MseSetBeforeSignature, PsoHashExternally, MseSetBeforeDecrypt, OpenFile,
         ReadBinary, ProbeObject, PsoDecipher, Find, Listing
<1>3. op'.pc \notin { "containers", "container", "record" }
  BY VerifyPinStep, MseSetBeforeSignatureStep, PsoHashExternallyStep, MseSetBeforeDecryptStep,
     OpenFileStep, ReadBinaryStep, ProbeObjectStep, PsoDecipherStep, FindStep
     DEF At, Fails, BlockStep
<1>4. op'.pc = "directory" => op'.name = "object"
  <2>1. CASE VerifyPin
    <3>1. op.name \in { "file", "object", "sign", "decrypt" } /\ op'.name = op.name
      BY <2>1 DEF VerifyPin, Control, Fits, BodyStep
    <3> QED
      BY <2>1, <3>1, VerifyPinStep DEF At, Fails
  <2>2. CASE ~VerifyPin
    BY <2>2, MseSetBeforeSignatureStep, PsoHashExternallyStep, MseSetBeforeDecryptStep,
       OpenFileStep, ReadBinaryStep, ProbeObjectStep, PsoDecipherStep, FindStep
       DEF At, Fails, BlockStep
  <2> QED
    BY <2>1, <2>2
<1>5. ~Listing'
  BY <1>3, <1>4 DEF Listing
<1> QED
  BY <1>1, <1>2, <1>3, <1>5, ListUntouched

LEMMA PartsListed ==
    ASSUME Types, Control, InList, InParts, PsoComputeDigitalSignature \/ GetResponse
    PROVE  InList' /\ UNCHANGED << keypairs, patchy >>
<1>1. UNCHANGED << keypairs, patchy >> /\ ~Listing
  BY DEF PsoComputeDigitalSignature, GetResponse, Listing
<1>2. op'.pc \in { "close", "get response" }
  BY PsoComputeDigitalSignatureStep, GetResponseStep DEF PartStep, Fails
<1>3. ~Listing'
  BY <1>2 DEF Listing
<1> QED
  BY <1>1, <1>2, <1>3, ListUntouched

BodyAction ==
    \/ VerifyPin \/ MseSetBeforeSignature \/ PsoHashExternally
    \/ PsoComputeDigitalSignature \/ GetResponse \/ MseSetBeforeDecrypt \/ PsoDecipher
    \/ OpenFile \/ ReadBinary \/ ReadDirectory \/ ReadRecord \/ ProbeObject
    \/ ReadContainers \/ ReadContainer \/ Find

LEMMA BodyKeeps ==
    ASSUME CardInv, BodyAction
    PROVE  CardInv'
<1> USE DEF CardInv
<1>1. BodyStep
  BY VerifyPinStep, MseSetBeforeSignatureStep, PsoHashExternallyStep,
     PsoComputeDigitalSignatureStep, GetResponseStep, MseSetBeforeDecryptStep, PsoDecipherStep,
     OpenFileStep, ReadBinaryStep, ReadDirectoryStep, ReadRecordStep, ProbeObjectStep,
     ReadContainersStep, ReadContainerStep, FindStep DEF BodyAction
<1>2. Fits(op'.pc, op.name) /\ Ready' /\ InParts' /\ InBlocks'
  BY PrepareKeeps, PartKeeps, SearchesKeep, ReadsKeep DEF BodyAction
<1>3. InList' /\ keypairs' \subseteq Pairs /\ patchy' \in BOOLEAN
  <2>1. keypairs \subseteq Pairs /\ patchy \in BOOLEAN
    BY DEF Types, TypeOK, Pairs
  <2> QED
    BY <1>1, <2>1, OthersListed, PartsListed, ContainersListed, DirectoryListed, RecordListed
       DEF BodyAction
<1>4. Types' /\ Control'
  BY <1>1, <1>2, <1>3, BodyTypes, BodyControl DEF Pairs
<1>5. Accounted' /\ Excused'
  BY <1>1, BodyAccounted, BodyExcused
<1> QED
  BY <1>2, <1>3, <1>4, <1>5

-----------------------------------------------------------------------------
(* Opening and closing channels *)

LEMMA MinFree ==
    ASSUME Free # {}
    PROVE  Min(Free) \in Free
<1>1. Free \subseteq Nat
  BY CardAssumption DEF Free, Channels
<1>2. \E x \in Free : \A y \in Free : ~(<< y, x >> \in OpToRel(<, Nat))
  BY <1>1, WFMin, NatLessThanWellFounded
<1>3. \A x, y \in Nat : y < x => << y, x >> \in OpToRel(<, Nat)
  BY DEF OpToRel
<1>4. \E x \in Free : \A y \in Free : ~(y < x)
  BY <1>1, <1>2, <1>3
<1>5. \E x \in Free : \A y \in Free : x <= y
  BY <1>1, <1>4
<1> QED
  BY <1>5 DEF Min

\* Counting open channels.
LEMMA OpenCounts ==
    ASSUME NEW S \in SUBSET Channels, NEW c
    PROVE  /\ IsFiniteSet(S) /\ Cardinality(S) \in Nat /\ Cardinality(S \ { c }) \in Nat
           /\ Cardinality(S \ { c }) <= Cardinality(S)
           /\ Cardinality(S) <= Cardinality(S \ { c }) + 1
           /\ c \notin S => S \ { c } = S
           /\ Cardinality(Channels) = NumChannels
<1>1. NumChannels \in Nat \ { 0 }
  BY CardAssumption
<1>2. IsFiniteSet(Channels) /\ Cardinality(Channels) = NumChannels
  BY <1>1, FS_Interval DEF Channels
<1>3. IsFiniteSet(S)
  BY <1>2, FS_Subset
<1>4. /\ IsFiniteSet(S \ { c })
      /\ Cardinality(S \ { c }) = IF c \in S THEN Cardinality(S) - 1 ELSE Cardinality(S)
  BY <1>3, FS_RemoveElement
<1>5. Cardinality(S) \in Nat /\ Cardinality(S \ { c }) \in Nat
  BY <1>3, <1>4, FS_CardinalityType
<1> QED
  BY <1>2, <1>3, <1>4, <1>5

\* What the types say when no channel need be in use.
LEMMA TypeFacts ==
    ASSUME Types
    PROVE  /\ card \in [Channels -> ChannelStates] /\ Open \in SUBSET Channels
           /\ applets \in [Applets -> [selected : BOOLEAN, channel : 0..NumChannels]]
           /\ faults \in Counts /\ faults.channel \in Nat /\ faults.channel <= faults.all
           /\ op \in Operations /\ op.applet \in Applets /\ op.faulty \in BOOLEAN
           /\ Closed \in ChannelStates /\ NumChannels \in Nat \ { 0 }
<1>1. Closed \in ChannelStates
  BY CardAssumption DEF Closed, ChannelStates, NoKey
<1> QED
  BY <1>1, CardAssumption DEF Types, TypeOK, Open, ChannelStates, Counts, Operations

\* A close is confirmed, or it fails and the channel is closed or not.
LEMMA CloseFacts ==
    ASSUME Types, Ch \in Channels, AboutChannels, CloseChannel
    PROVE  /\ card' \in [Channels -> ChannelStates]
           /\ faults' \in Counts /\ faults'.channel <= faults'.all
           /\ \/ faults' = faults /\ Open' = Open \ { Ch }
              \/ /\ faults' # faults /\ faults'.channel = faults.channel + 1
                 /\ Open' \in { Open, Open \ { Ch } }
<1> DEFINE after == [card EXCEPT ![Ch] = Closed]
<1>1. /\ after \in [Channels -> ChannelStates] /\ after[Ch] = Closed
      /\ \A c \in Channels \ { Ch } : after[c] = card[c]
  BY TypeFacts
<1>2. { c \in Channels : after[c].applet # "closed" } = Open \ { Ch }
  BY <1>1 DEF Open, Closed
<1>3. (card' = after => Open' = Open \ { Ch }) /\ (card' = card => Open' = Open)
  BY <1>2 DEF Open, Channels
<1> HIDE DEF after
<1>4. CASE Answered(IF Ch \in Open THEN after ELSE card)
  <2>1. faults' = faults /\ card' = IF Ch \in Open THEN after ELSE card
    BY <1>4 DEF Answered
  <2>2. Open' = Open \ { Ch }
    BY <1>3, <2>1
  <2> QED
    BY <1>1, <2>1, <2>2, TypeFacts
<1>5. CASE Fault /\ card' \in { card, after }
  <2>1. /\ faults' \in Counts /\ faults' # faults /\ faults'.channel <= faults'.all
        /\ faults'.channel = faults.channel + 1
    BY <1>5, FaultFacts
  <2> QED
    BY <1>1, <1>3, <1>5, <2>1, TypeFacts
<1> QED
  BY <1>4, <1>5 DEF CloseChannel, Refused, Lost, after

-----------------------------------------------------------------------------
(* The steps before an applet is selected, and the last one *)

FramePcs == { "close first", "open", "select", "undo", "close" }

\* As long as no applet is selected, nothing is asked of what it would do.
LEMMA FrameKeeps ==
    ASSUME CardInv, op.pc \notin BodyPcs, op'.pc \in FramePcs, op'.ret = "NONE",
           op'.got = << >>, UNCHANGED << keypairs, patchy, result >>
    PROVE  Ready' /\ InParts' /\ InBlocks' /\ InList'
<1>1. op'.pc \notin BodyPcs /\ ~Listing /\ ~Listing'
  BY DEF FramePcs, BodyPcs, Listing
<1>2. SignatureWhole' /\ ObjectWhole'
  BY DEF CardInv, InParts, InBlocks, SignatureWhole, ObjectWhole
<1>3. InList'
  BY <1>1, ListUntouched DEF CardInv, FramePcs
<1> QED
  BY <1>1, <1>2, <1>3 DEF Ready, ReadyOnChannel, InParts, InBlocks, FramePcs

LEMMA FrameTypes ==
    ASSUME Types, op' \in Operations, card' \in [Channels -> ChannelStates],
           applets' \in [Applets -> [selected : BOOLEAN, channel : 0..NumChannels]],
           faults' \in Counts, faults'.channel <= faults'.all,
           UNCHANGED << keypairs, patchy, result, key >>
    PROVE  Types'
  BY DEF Types, TypeOK, ChannelStates, Counts, Channels

\* An operation starts with nothing done.
LEMMA BeginKeeps ==
    ASSUME CardInv, NEW name \in Names \ { "none" }, NEW applet \in Applets,
           NEW arg \in DOMAIN Containers \cup Labels,
           applet = "MF" <=> name = "file",
           IF name = "object" THEN arg \in Labels ELSE arg \in DOMAIN Containers,
           Begin(name, applet, arg)
    PROVE  CardInv'
<1> USE DEF CardInv
<1> DEFINE pc == IF applets[applet].selected THEN "close first" ELSE "open"
<1>1. pc \in Pcs /\ pc \in FramePcs
  BY DEF Pcs, FramePcs
<1>2. /\ op' = [Idle EXCEPT !.name = name, !.applet = applet, !.arg = arg, !.pc = pc]
      /\ op.pc = "idle" /\ UNCHANGED << card, applets, keypairs, key, result, faults, patchy >>
  BY DEF Begin
<1> HIDE DEF pc
<1>3. op' \in Operations
  BY <1>1, <1>2, IdleType DEF Operations
<1>4. /\ op'.name = name /\ op'.applet = applet /\ op'.arg = arg /\ op'.pc = pc
      /\ op'.got = << >> /\ op'.ret = "NONE"
  BY <1>2 DEF Idle
<1>5. Types'
  BY <1>2, <1>3, FrameTypes, TypeFacts
<1>6. Ready' /\ InParts' /\ InBlocks' /\ InList'
  BY <1>1, <1>2, <1>4, FrameKeeps DEF BodyPcs
<1>7. Open' = Open
  BY <1>2 DEF Open, Channels
<1>8. Control'
  <2>1. op'.pc = "close first" => applets'[op'.applet].selected
    BY <1>2, <1>4 DEF pc
  <2>2. op'.pc \notin { "select", "undo" } \cup BodyPcs
    BY <1>4 DEF pc, BodyPcs
  <2>3. Fits(op.pc, op.name)'
    BY <1>4 DEF pc, Fits
  <2> QED
    BY <1>2, <1>4, <2>1, <2>2, <2>3 DEF Control, Channels
<1>9. Accounted'
  <2>1. op'.pc \in { "close first", "open" }
    BY <1>4 DEF pc
  <2> QED
    BY <1>2, <1>7, <2>1 DEF Accounted, BodyPcs
<1>10. Excused'
  <2>1. op'.pc \notin { "undo", "close" }
    BY <1>4 DEF pc
  <2> QED
    BY <1>2, <2>1 DEF Excused, SelectUnlessFull
<1> QED
  BY <1>5, <1>6, <1>8, <1>9, <1>10

LEMMA BeginsKeep ==
    ASSUME CardInv,
           ReadFile \/ ReadObject \/ ReadCertificate \/ ParseKey \/ Sign \/ Decrypt
    PROVE  CardInv'
<1>1. CASE ReadFile
  BY <1>1, BeginKeeps, ContainerNumbers DEF ReadFile, Names, Applets
<1>2. CASE ReadObject
  BY <1>2, BeginKeeps DEF ReadObject, Names, Applets
<1>3. CASE ReadCertificate
  BY <1>3, BeginKeeps DEF ReadCertificate, Names, Applets
<1>4. CASE ParseKey
  BY <1>4, BeginKeeps DEF ParseKey, Names, Applets
<1>5. CASE Sign \/ Decrypt
  <2>1. key \in DOMAIN Containers
    BY <1>5 DEF CardInv, Types, TypeOK, Sign, Decrypt
  <2> QED
    BY <1>5, <2>1, BeginKeeps DEF Sign, Decrypt, Names, Applets
<1> QED
  BY <1>1, <1>2, <1>3, <1>4, <1>5

\* A deselect leaves the numbers of the channels, and the other applet.
LEMMA DeselectFacts ==
    ASSUME Types, Control, applets[op.applet].selected, Deselect
    PROVE  /\ applets' \in [Applets -> [selected : BOOLEAN, channel : 0..NumChannels]]
           /\ \A a \in Applets : applets'[a].channel = applets[a].channel
           /\ \A a \in Applets : applets'[a].selected => applets'[a].channel \in Channels
           /\ Ch \in Channels /\ CloseChannel
<1> DEFINE b == ~(Ch \in Open /\ faults' = faults)
<1>1. applets' = [applets EXCEPT ![op.applet].selected = b] /\ CloseChannel /\ b \in BOOLEAN
  BY DEF Deselect
<1>2. /\ op.applet \in Applets
      /\ applets \in [Applets -> [selected : BOOLEAN, channel : 0..NumChannels]]
      /\ \A a \in Applets : applets[a].selected => applets[a].channel \in Channels
  BY TypeFacts DEF Control
<1> HIDE DEF b
<1>3. applets' \in [Applets -> [selected : BOOLEAN, channel : 0..NumChannels]]
  BY <1>1, <1>2
<1>4. \A a \in Applets : applets'[a].channel = applets[a].channel
  BY <1>1, <1>2
<1>5. \A a \in Applets : a # op.applet => applets'[a].selected = applets[a].selected
  BY <1>1, <1>2
<1>6. Ch \in Channels
  BY <1>2 DEF Ch
<1> QED
  BY <1>1, <1>2, <1>3, <1>4, <1>5, <1>6 DEF Ch

LEMMA CloseFirstKeeps ==
    ASSUME CardInv, CloseFirst
    PROVE  CardInv'
<1> USE DEF CardInv
<1>1. /\ op.pc = "close first" /\ Deselect /\ Continue(Goto("open"))
      /\ UNCHANGED << keypairs, key, result, patchy >> /\ op \in Operations
      /\ applets[op.applet].selected /\ op.ret = "NONE" /\ op.got = << >>
  BY DEF CloseFirst, Types, Control, InParts
<1>2. /\ applets' \in [Applets -> [selected : BOOLEAN, channel : 0..NumChannels]]
      /\ \A a \in Applets : applets'[a].selected => applets'[a].channel \in Channels
      /\ Ch \in Channels /\ CloseChannel
  BY <1>1, DeselectFacts
<1>3. /\ card' \in [Channels -> ChannelStates]
      /\ faults' \in Counts /\ faults'.channel <= faults'.all
      /\ \/ faults' = faults /\ Open' = Open \ { Ch }
         \/ /\ faults' # faults /\ faults'.channel = faults.channel + 1
            /\ Open' \in { Open, Open \ { Ch } }
  BY <1>1, <1>2, CloseFacts DEF AboutChannels
<1>4. /\ op' \in Operations /\ op'.pc = "open" /\ op'.name = op.name /\ op'.arg = op.arg
      /\ op'.applet = op.applet /\ op'.ret = "NONE" /\ op'.got = << >>
  <2>1. "open" \in Pcs
    BY DEF Pcs
  <2>2. Goto("open") \in Operations /\ Follows(op', Goto("open"))
    BY <1>1, <2>1, GotoFacts, ContinueFacts
  <2> QED
    BY <1>1, <2>1, <2>2, GotoFacts DEF Follows
<1>5. Types'
  BY <1>1, <1>2, <1>3, <1>4, FrameTypes
<1>6. Ready' /\ InParts' /\ InBlocks' /\ InList'
  BY <1>1, <1>4, FrameKeeps DEF BodyPcs, FramePcs
<1>7. Control'
  BY <1>1, <1>2, <1>4 DEF Control, Fits, BodyPcs, Channels
<1>8. /\ Cardinality(Open) <= faults.channel /\ Cardinality(Open) \in Nat
      /\ Cardinality(Open \ { Ch }) <= Cardinality(Open)
      /\ Cardinality(Open \ { Ch }) \in Nat /\ faults.channel \in Nat
  BY <1>1, OpenCounts, TypeFacts DEF Accounted
<1>9. Cardinality(Open') <= faults'.channel /\ faults.channel <= faults'.channel
  BY <1>3, <1>8
<1>10. Accounted'
  BY <1>4, <1>9 DEF Accounted, BodyPcs
<1>11. Excused'
  <2>1. faults'.channel \in Nat /\ NumChannels \in Nat
    BY <1>3, <1>8, TypeFacts
  <2>2. faults.channel >= NumChannels => faults'.channel >= NumChannels
    BY <1>8, <1>9, <2>1
  <2>3. SelectUnlessFull'
    BY <1>1, <2>2 DEF Excused, SelectUnlessFull
  <2> QED
    BY <1>4, <2>3 DEF Excused
<1> QED
  BY <1>5, <1>6, <1>7, <1>10, <1>11

LEMMA UndoKeeps ==
    ASSUME CardInv, Undo
    PROVE  CardInv'
<1> USE DEF CardInv
<1>1. /\ op.pc = "undo" /\ CloseChannel /\ Continue(Goto("close"))
      /\ UNCHANGED << applets, keypairs, key, result, patchy >> /\ op \in Operations
      /\ Ch \in Open /\ op.ret = "NONE" /\ op.got = << >> /\ op.faulty
  BY DEF Undo, Types, Control, InParts, Excused
<1>2. /\ Ch \in Channels
      /\ applets \in [Applets -> [selected : BOOLEAN, channel : 0..NumChannels]]
  BY <1>1, TypeFacts
<1>3. /\ card' \in [Channels -> ChannelStates]
      /\ faults' \in Counts /\ faults'.channel <= faults'.all
      /\ \/ faults' = faults /\ Open' = Open \ { Ch }
         \/ /\ faults' # faults /\ faults'.channel = faults.channel + 1
            /\ Open' \in { Open, Open \ { Ch } }
  BY <1>1, <1>2, CloseFacts DEF AboutChannels
<1>4. /\ op' \in Operations /\ op'.pc = "close" /\ op'.name = op.name /\ op'.arg = op.arg
      /\ op'.applet = op.applet /\ op'.ret = "NONE" /\ op'.got = << >> /\ op'.faulty
  <2>1. "close" \in Pcs
    BY DEF Pcs
  <2>2. /\ Goto("close") \in Operations /\ Follows(op', Goto("close"))
        /\ op'.faulty = (Goto("close").faulty \/ faults' # faults)
    BY <1>1, <2>1, GotoFacts, ContinueFacts
  <2> QED
    BY <1>1, <2>1, <2>2, GotoFacts DEF Follows
<1>5. Types'
  BY <1>1, <1>2, <1>3, <1>4, FrameTypes
<1>6. Ready' /\ InParts' /\ InBlocks' /\ InList'
  BY <1>1, <1>4, FrameKeeps DEF BodyPcs, FramePcs
<1>7. Control'
  BY <1>1, <1>4 DEF Control, Fits, BodyPcs, Channels
<1>8. /\ Cardinality(Open \ { Ch }) <= faults.channel /\ Cardinality(Open) \in Nat
      /\ Cardinality(Open) <= Cardinality(Open \ { Ch }) + 1
      /\ Cardinality(Open \ { Ch }) \in Nat /\ faults.channel \in Nat
  BY <1>1, OpenCounts, TypeFacts DEF Accounted
<1>9. Cardinality(Open') <= faults'.channel /\ faults.channel <= faults'.channel
  BY <1>3, <1>8
<1>10. Accounted'
  <2>1. Ch' = Ch /\ Open' \subseteq Channels
    BY <1>1, <1>3, <1>4, TypeFacts DEF Ch
  <2>2. /\ Cardinality(Open' \ { Ch }) <= Cardinality(Open')
        /\ Cardinality(Open' \ { Ch }) \in Nat /\ Cardinality(Open') \in Nat
    BY <2>1, OpenCounts
  <2>3. faults'.channel \in Nat
    BY <1>3, <1>8
  <2>4. Cardinality(Open' \ { Ch' }) <= faults'.channel
    BY <1>9, <2>1, <2>2, <2>3
  <2> QED
    BY <1>4, <1>9, <2>4 DEF Accounted, BodyPcs
<1>11. Excused'
  <2>1. faults'.channel \in Nat /\ NumChannels \in Nat
    BY <1>3, <1>8, TypeFacts
  <2>2. faults.channel >= NumChannels => faults'.channel >= NumChannels
    BY <1>8, <1>9, <2>1
  <2>3. SelectUnlessFull'
    BY <1>1, <2>2 DEF Excused, SelectUnlessFull
  <2> QED
    BY <1>4, <2>3 DEF Excused
<1> QED
  BY <1>5, <1>6, <1>7, <1>10, <1>11

\* A select that cannot have a channel is over: there is none, or the exchange
\* has failed.
LEMMA OpenFailsKeeps ==
    ASSUME CardInv, op.pc = "open", Continue(Goto("close")),
           UNCHANGED << applets, keypairs, key, result, patchy >>,
           card' \in [Channels -> ChannelStates],
           faults' \in Counts, faults'.channel <= faults'.all,
           faults.channel <= faults'.channel,
           Open' \in SUBSET Channels, Cardinality(Open') <= faults'.channel,
           faults' # faults \/ faults'.channel >= NumChannels
    PROVE  CardInv'
<1> USE DEF CardInv
<1>1. op \in Operations /\ op.ret = "NONE" /\ op.got = << >>
  BY DEF Types, Control, InParts
<1>2. /\ op' \in Operations /\ op'.pc = "close" /\ op'.name = op.name /\ op'.arg = op.arg
      /\ op'.applet = op.applet /\ op'.ret = "NONE" /\ op'.got = << >>
      /\ op'.faulty = (op.faulty \/ faults' # faults)
  <2>1. "close" \in Pcs
    BY DEF Pcs
  <2>2. /\ Goto("close") \in Operations /\ Follows(op', Goto("close"))
        /\ op'.faulty = (Goto("close").faulty \/ faults' # faults)
    BY <1>1, <2>1, GotoFacts, ContinueFacts
  <2> QED
    BY <1>1, <2>1, <2>2, GotoFacts DEF Follows
<1>3. Types'
  BY <1>2, FrameTypes, TypeFacts
<1>4. Ready' /\ InParts' /\ InBlocks' /\ InList'
  BY <1>1, <1>2, FrameKeeps DEF BodyPcs, FramePcs
<1>5. Control'
  BY <1>2 DEF Control, Fits, BodyPcs, Channels
<1>6. faults'.channel \in Nat /\ faults.channel \in Nat /\ NumChannels \in Nat
  BY TypeFacts DEF Counts
<1>7. Accounted'
  <2>1. Cardinality(Open' \ { Ch' }) <= Cardinality(Open') /\ Cardinality(Open') \in Nat
        /\ Cardinality(Open' \ { Ch' }) \in Nat
    BY OpenCounts
  <2>2. Cardinality(Open' \ { Ch' }) <= faults'.channel
    BY <1>6, <2>1
  <2> QED
    BY <1>2, <2>2 DEF Accounted, BodyPcs
<1>8. Excused'
  <2>1. faults.channel >= NumChannels => faults'.channel >= NumChannels
    BY <1>6
  <2>2. SelectUnlessFull'
    BY <2>1 DEF Excused, SelectUnlessFull
  <2> QED
    BY <1>2, <2>2 DEF Excused
<1> QED
  BY <1>3, <1>4, <1>5, <1>7, <1>8

LEMMA OpenChannelKeeps ==
    ASSUME CardInv, OpenChannel
    PROVE  CardInv'
<1> USE DEF CardInv
<1>1. /\ op.pc = "open" /\ UNCHANGED << keypairs, key, result, patchy >>
      /\ op \in Operations /\ op.ret = "NONE" /\ op.got = << >>
  BY DEF OpenChannel, Types, Control, InParts
<1>2. /\ Cardinality(Open) <= faults.channel /\ Cardinality(Open) \in Nat
      /\ faults.channel \in Nat /\ Open \in SUBSET Channels /\ faults \in Counts
      /\ faults.channel <= faults.all /\ card \in [Channels -> ChannelStates]
  BY <1>1, OpenCounts, TypeFacts DEF Accounted
<1>3. CASE Free = {}
  <2>1. Open = Channels
    BY <1>2, <1>3 DEF Free
  <2>2. NumChannels <= faults.channel
    BY <1>2, <2>1, OpenCounts
  <2>3. /\ card' = card /\ faults' = faults /\ Continue(Goto("close"))
        /\ UNCHANGED applets
    BY <1>3 DEF OpenChannel, Answered
  <2>4. Open' = Open
    BY <2>3 DEF Open, Channels
  <2>5. faults'.channel >= NumChannels /\ faults.channel <= faults'.channel
    BY <1>2, <2>2, <2>3, TypeFacts
  <2> QED
    BY <1>1, <1>2, <2>3, <2>4, <2>5, OpenFailsKeeps
<1>4. CASE Free # {}
  <2> DEFINE c == Min(Free)
             after == [card EXCEPT ![c] = Running("none")]
  <2>1. c \in Channels /\ c \notin Open
    BY <1>4, MinFree DEF Free
  <2>2. \/ /\ Answered(after) /\ Continue(Goto("select"))
           /\ applets' = [applets EXCEPT ![op.applet].channel = c]
        \/ /\ Refused \/ Lost(after)
           /\ Continue(Goto("close"))
           /\ UNCHANGED applets
    BY <1>4 DEF OpenChannel
  <2> HIDE DEF c
  <2>3. Running("none") \in ChannelStates /\ Running("none").applet # "closed"
    BY TypeFacts DEF Running, Closed, ChannelStates
  <2>4. /\ after \in [Channels -> ChannelStates]
        /\ { d \in Channels : after[d].applet # "closed" } = Open \cup { c }
    BY <1>2, <2>1, <2>3 DEF Open
  <2>5. (card' = after => Open' = Open \cup { c }) /\ (card' = card => Open' = Open)
    BY <2>4 DEF Open, Channels
  <2> HIDE DEF after
  <2>6. Cardinality(Open \cup { c }) = Cardinality(Open) + 1
    BY <1>2, <2>1, FS_AddElement, OpenCounts
  <2>7. CASE (Refused \/ Lost(after)) /\ Continue(Goto("close")) /\ UNCHANGED applets
    <3>1. Fault /\ card' \in { card, after }
      BY <2>7 DEF Refused, Lost
    <3>2. /\ faults' \in Counts /\ faults' # faults /\ faults'.channel <= faults'.all
          /\ faults'.channel = faults.channel + 1
      BY <1>1, <3>1, FaultFacts DEF AboutChannels
    <3>3. /\ Open' \in SUBSET Channels /\ Cardinality(Open') <= faults'.channel
          /\ faults.channel <= faults'.channel
      <4>1. CASE card' = card
        BY <1>2, <2>5, <3>2, <4>1
      <4>2. CASE card' = after
        BY <1>2, <2>1, <2>5, <2>6, <3>2, <4>2
      <4> QED
        BY <3>1, <4>1, <4>2
    <3>4. card' \in [Channels -> ChannelStates]
      BY <1>2, <2>4, <3>1
    <3> QED
      BY <1>1, <2>7, <3>2, <3>3, <3>4, OpenFailsKeeps
  <2>8. CASE /\ Answered(after) /\ Continue(Goto("select"))
             /\ applets' = [applets EXCEPT ![op.applet].channel = c]
    <3>1. card' = after /\ faults' = faults /\ Open' = Open \cup { c }
      BY <2>5, <2>8 DEF Answered
    <3>2. /\ op' \in Operations /\ op'.pc = "select" /\ op'.name = op.name
          /\ op'.arg = op.arg /\ op'.applet = op.applet /\ op'.ret = "NONE"
          /\ op'.got = << >>
      <4>1. "select" \in Pcs
        BY DEF Pcs
      <4>2. Goto("select") \in Operations /\ Follows(op', Goto("select"))
        BY <1>1, <2>8, <4>1, GotoFacts, ContinueFacts
      <4> QED
        BY <1>1, <4>1, <4>2, GotoFacts DEF Follows
    <3>3. /\ applets' \in [Applets -> [selected : BOOLEAN, channel : 0..NumChannels]]
          /\ applets'[op.applet].channel = c
          /\ \A a \in Applets : applets'[a].selected => applets'[a].channel \in Channels
      <4>1. c \in 0..NumChannels
        BY <2>1, TypeFacts DEF Channels
      <4>2. /\ applets \in [Applets -> [selected : BOOLEAN, channel : 0..NumChannels]]
            /\ op.applet \in Applets
            /\ \A a \in Applets : applets[a].selected => applets[a].channel \in Channels
        BY TypeFacts DEF Control
      <4> QED
        BY <2>1, <2>8, <4>1, <4>2
    <3>4. Ch' = c
      BY <3>2, <3>3 DEF Ch
    <3>5. Types'
      BY <1>1, <1>2, <2>4, <3>1, <3>2, <3>3, FrameTypes
    <3>6. Ready' /\ InParts' /\ InBlocks' /\ InList'
      BY <1>1, <3>2, FrameKeeps DEF BodyPcs, FramePcs
    <3>7. Control'
      <4>1. Ch' \in Open'
        BY <3>1, <3>4
      <4> QED
        BY <1>1, <3>2, <3>3, <4>1 DEF Control, Fits, BodyPcs, Channels
    <3>8. Accounted'
      <4>1. Open' \ { Ch' } = Open
        BY <2>1, <3>1, <3>4
      <4> QED
        BY <1>2, <3>1, <3>2, <4>1 DEF Accounted, BodyPcs
    <3>9. Excused'
      BY <1>1, <3>1, <3>2 DEF Excused, SelectUnlessFull
    <3> QED
      BY <3>5, <3>6, <3>7, <3>8, <3>9
  <2> QED
    BY <2>2, <2>7, <2>8
<1> QED
  BY <1>3, <1>4

LEMMA SelectAppletKeeps ==
    ASSUME CardInv, SelectApplet
    PROVE  CardInv'
<1> USE DEF CardInv
<1> DEFINE pc == IF op.name \in { "certificate", "parse key" }
                 THEN IF keypairs = {} THEN "containers" ELSE "find" ELSE "pin"
           next == [Goto(pc) EXCEPT !.ret = "ERROR"]
<1>1. /\ op.pc = "select" /\ UNCHANGED << keypairs, key, result, patchy >>
      /\ op \in Operations /\ op.ret = "NONE" /\ op.got = << >> /\ op.name # "none"
      /\ Ch \in Open /\ Ch \in Channels
      /\ Cardinality(Open \ { Ch }) <= faults.channel
      /\ applets' = [applets EXCEPT ![op.applet].selected = @ \/ op'.pc # "undo"]
  BY HereFacts DEF SelectApplet, Types, Control, InParts, Accounted
<1>2. pc \in { "containers", "find", "pin" } /\ pc \in Pcs /\ pc \in BodyPcs /\ "undo" \in Pcs
  BY DEF Pcs, BodyPcs
<1>3. Command(Running(op.applet), next, Goto("undo"))
  BY DEF SelectApplet, Body
<1>4. Fits(pc, op.name)
  <2>1. op.name \in Names \ { "none" }
    BY <1>1 DEF Operations
  <2> QED
    BY <2>1 DEF Fits, Names
<1>5. pc = "containers" => keypairs = {}
  OBVIOUS
<1> HIDE DEF pc
<1>6. /\ next \in Operations /\ next.pc = pc /\ next.name = op.name /\ next.arg = op.arg
      /\ next.applet = op.applet /\ next.ret = "ERROR" /\ next.got = op.got
      /\ next.faulty = op.faulty
  <2>1. /\ Goto(pc) \in Operations /\ Goto(pc).pc = pc /\ Goto(pc).name = op.name
        /\ Goto(pc).arg = op.arg /\ Goto(pc).applet = op.applet /\ Goto(pc).got = op.got
        /\ Goto(pc).faulty = op.faulty
    BY <1>1, <1>2, GotoFacts
  <2> QED
    BY <2>1 DEF Operations
<1> HIDE DEF next
<1>7. /\ Running(op.applet) \in ChannelStates /\ Running(op.applet).applet = op.applet
      /\ Running(op.applet).sent = 0 /\ Running(op.applet).applet # "closed"
  <2>1. op.applet \in Applets
    BY TypeFacts
  <2>2. op.applet # "closed"
    BY <2>1 DEF Applets
  <2> QED
    BY <2>1, <2>2, TypeFacts DEF Running, Closed, ChannelStates
<1>8. Goto("undo") \in Operations
  BY <1>1, <1>2, GotoFacts
<1>9. /\ card' \in [Channels -> ChannelStates] /\ Open' = Open
      /\ faults' \in Counts /\ faults'.channel <= faults'.all
      /\ faults'.channel >= faults.channel
  BY <1>1, <1>3, <1>6, <1>7, <1>8, CommandFacts
<1>10. \/ /\ faults' = faults /\ card'[Ch] = Running(op.applet)
          /\ Follows(op', next) /\ op'.faulty = next.faulty
       \/ faults' # faults /\ Follows(op', Goto("undo")) /\ op'.faulty
  BY <1>1, <1>3, <1>6, <1>7, <1>8, CommandFacts
<1>11. /\ op' \in Operations /\ op'.name = op.name /\ op'.arg = op.arg
       /\ op'.applet = op.applet /\ op'.got = << >>
       /\ \/ faults' = faults /\ card'[Ch] = Running(op.applet) /\ op'.pc = pc /\ op'.ret = "ERROR"
          \/ op'.pc = "undo" /\ op'.ret = "NONE" /\ op'.faulty
  BY <1>1, <1>2, <1>6, <1>10, GotoFacts DEF Follows
<1>12. /\ applets' \in [Applets -> [selected : BOOLEAN, channel : 0..NumChannels]]
       /\ \A a \in Applets : applets'[a].channel = applets[a].channel
       /\ \A a \in Applets : applets'[a].selected => applets'[a].channel \in Channels
       /\ op'.pc # "undo" => applets'[op.applet].selected
  <2> DEFINE b == applets[op.applet].selected \/ op'.pc # "undo"
  <2>1. /\ applets \in [Applets -> [selected : BOOLEAN, channel : 0..NumChannels]]
        /\ op.applet \in Applets
        /\ \A a \in Applets : applets[a].selected => applets[a].channel \in Channels
    BY TypeFacts DEF Control
  <2>2. applets' = [applets EXCEPT ![op.applet].selected = b] /\ b \in BOOLEAN
    BY <1>1, <2>1
  <2>3. op'.pc # "undo" => b = TRUE
    OBVIOUS
  <2> HIDE DEF b
  <2>4. applets' \in [Applets -> [selected : BOOLEAN, channel : 0..NumChannels]]
    BY <2>1, <2>2
  <2>5. \A a \in Applets : applets'[a].channel = applets[a].channel
    BY <2>1, <2>2
  <2>6. /\ applets'[op.applet].selected = b
        /\ \A a \in Applets \ { op.applet } : applets'[a].selected = applets[a].selected
    BY <2>1, <2>2
  <2>7. applets[op.applet].channel \in Channels
    BY <1>1 DEF Ch
  <2> QED
    BY <2>1, <2>3, <2>4, <2>5, <2>6, <2>7
<1>13. Ch' = Ch /\ Here' = card'[Ch]
  BY <1>11, <1>12, TypeFacts DEF Ch, Here
<1>14. Types'
  BY <1>1, <1>9, <1>11, <1>12, FrameTypes
<1>15. /\ faults.channel \in Nat /\ faults'.channel \in Nat /\ NumChannels \in Nat
       /\ Cardinality(Open \ { Ch }) \in Nat
  BY <1>9, OpenCounts, TypeFacts DEF Counts
<1>16. Accounted'
  <2>1. op'.pc \in { "undo" } \cup BodyPcs
    BY <1>2, <1>11
  <2>2. Cardinality(Open' \ { Ch' }) <= faults'.channel
    BY <1>1, <1>9, <1>13, <1>15
  <2> QED
    BY <2>1, <2>2 DEF Accounted, BodyPcs
<1>17. SelectUnlessFull'
  <2>1. faults.channel >= NumChannels => faults'.channel >= NumChannels
    BY <1>9, <1>15
  <2> QED
    BY <1>1, <2>1 DEF Excused, SelectUnlessFull
<1>18. CASE op'.pc = "undo" /\ op'.ret = "NONE" /\ op'.faulty
  <2>1. Ready' /\ InParts' /\ InBlocks' /\ InList'
    BY <1>1, <1>11, <1>18, FrameKeeps DEF BodyPcs, FramePcs
  <2>2. Control'
    BY <1>1, <1>9, <1>11, <1>12, <1>13, <1>18 DEF Control, Fits, BodyPcs, Channels
  <2>3. Excused'
    BY <1>17, <1>18 DEF Excused
  <2> QED
    BY <1>14, <1>16, <2>1, <2>2, <2>3
<1>19. CASE /\ faults' = faults /\ card'[Ch] = Running(op.applet)
            /\ op'.pc = pc /\ op'.ret = "ERROR"
  <2>1. Here'.applet = op'.applet /\ Here'.sent = 0
    BY <1>7, <1>11, <1>13, <1>19
  <2>2. SignatureWhole' /\ ObjectWhole'
    BY <1>1 DEF InParts, InBlocks, SignatureWhole, ObjectWhole
  <2>3. op'.pc \in { "containers", "find", "pin" }
    BY <1>2, <1>19
  <2>4. Ready'
    BY <2>1, <2>3 DEF Ready, ReadyOnChannel
  <2>5. InParts' /\ InBlocks'
    BY <1>11, <2>1, <2>2, <2>3 DEF InParts, InBlocks, BodyPcs
  <2>6. InList'
    BY <1>1, <1>5, <1>19, <2>3 DEF InList, Listing
  <2>7. Control'
    <3>1. op'.pc \in BodyPcs /\ op'.pc # "undo" /\ Ch' \in Open' /\ Fits(op.pc, op.name)'
      BY <1>1, <1>4, <1>9, <1>11, <1>13, <1>19, <2>3 DEF BodyPcs
    <3> QED
      BY <1>1, <1>11, <1>12, <1>19, <2>3, <3>1 DEF Control, Channels
  <2>8. Excused'
    BY <1>17, <2>3 DEF Excused
  <2> QED
    BY <1>14, <1>16, <2>4, <2>5, <2>6, <2>7, <2>8
<1> QED
  BY <1>11, <1>18, <1>19

\* What an operation returns is what its invariants say of it.
LEMMA FinishKeeps ==
    ASSUME CardInv, Finish
    PROVE  CardInv'
<1> USE DEF CardInv
<1>1. /\ op.pc = "close" /\ op' = Idle /\ UNCHANGED << keypairs, patchy >>
      /\ op \in Operations
  BY DEF Finish, Types
<1>2. PICK ret \in IF op.ret = "NONE" THEN Unselected ELSE { op.ret } : Return(ret)
  BY DEF Finish
<1>3. /\ ret \in { "0", "ERROR" } /\ (op.ret # "NONE" => ret = op.ret)
      /\ op.ret = "NONE" /\ ret = "0" => op.name # "sign"
  BY <1>1 DEF Unselected, Operations
<1>4. /\ card' \in [Channels -> ChannelStates] /\ Cardinality(Open') <= faults'.channel
      /\ applets' \in [Applets -> [selected : BOOLEAN, channel : 0..NumChannels]]
      /\ \A a \in Applets : applets'[a].selected => applets'[a].channel \in Channels
      /\ faults' \in Counts /\ faults'.channel <= faults'.all
      /\ faults.channel <= faults'.channel
  <2>1. /\ Cardinality(Open \ { Ch }) <= faults.channel /\ Cardinality(Open) \in Nat
        /\ Cardinality(Open) <= Cardinality(Open \ { Ch }) + 1
        /\ Cardinality(Open \ { Ch }) \in Nat /\ faults.channel \in Nat
    BY <1>1, OpenCounts, TypeFacts DEF Accounted
  <2>2. CASE applets[op.applet].selected
    <3>1. /\ applets' \in [Applets -> [selected : BOOLEAN, channel : 0..NumChannels]]
          /\ \A a \in Applets : applets'[a].selected => applets'[a].channel \in Channels
          /\ Ch \in Channels /\ CloseChannel
      BY <2>2, DeselectFacts DEF Finish
    <3>2. /\ card' \in [Channels -> ChannelStates]
          /\ faults' \in Counts /\ faults'.channel <= faults'.all
          /\ \/ faults' = faults /\ Open' = Open \ { Ch }
             \/ /\ faults' # faults /\ faults'.channel = faults.channel + 1
                /\ Open' \in { Open, Open \ { Ch } }
      BY <1>1, <3>1, CloseFacts DEF AboutChannels
    <3>3. Cardinality(Open') <= faults'.channel /\ faults.channel <= faults'.channel
      <4>1. CASE faults' = faults /\ Open' = Open \ { Ch }
        BY <2>1, <4>1
      <4>2. CASE faults'.channel = faults.channel + 1 /\ Open' = Open
        BY <2>1, <4>2
      <4>3. CASE faults'.channel = faults.channel + 1 /\ Open' = Open \ { Ch }
        BY <2>1, <4>3
      <4> QED
        BY <3>2, <4>1, <4>2, <4>3
    <3> QED
      BY <3>1, <3>2, <3>3
  <2>3. CASE ~applets[op.applet].selected
    <3>1. UNCHANGED << card, applets, faults >>
      BY <2>3 DEF Finish
    <3>2. Open' = Open
      BY <3>1 DEF Open, Channels
    <3>3. Cardinality(Open) <= faults.channel
      BY <1>1, <2>3 DEF Accounted
    <3>4. \A a \in Applets : applets[a].selected => applets[a].channel \in Channels
      BY DEF Control
    <3> QED
      BY <2>1, <3>1, <3>2, <3>3, <3>4, TypeFacts
  <2> QED
    BY <2>2, <2>3
<1> DEFINE b == op.ret # "NONE"
<1>5. /\ result' = [name |-> op.name, arg |-> op.arg, ret |-> ret, got |-> op.got,
                    selected |-> b, faulty |-> op.faulty]
      /\ key' = IF op.name = "parse key" /\ op.ret = "0" THEN op.arg ELSE key
  BY <1>2 DEF Return
<1>6. b \in BOOLEAN /\ (b <=> op.ret # "NONE")
  OBVIOUS
<1> HIDE DEF b
<1>7. /\ result' \in Results /\ result'.name = op.name /\ result'.ret = ret
      /\ result'.got = op.got /\ result'.selected = b /\ result'.faulty = op.faulty
  BY <1>1, <1>3, <1>5, <1>6 DEF Operations, Results
<1>8. key' \in DOMAIN Containers \cup { NoKey }
  BY <1>5 DEF Control, Types, TypeOK
<1>9. Types'
  <2>1. /\ op' \in Operations /\ keypairs' \subseteq Pairs
        /\ patchy' \in BOOLEAN
    BY <1>1, IdleType DEF Types, TypeOK, Pairs
  <2> QED
    BY <1>4, <1>7, <1>8, <2>1 DEF Types, TypeOK, ChannelStates, Counts, Channels, Pairs
<1>10. /\ op'.pc = "idle" /\ op'.name = "none" /\ op'.arg = 0 /\ op'.ret = "NONE"
       /\ op'.got = << >>
  BY <1>1 DEF Idle
<1>11. Control'
  BY <1>4, <1>10, ContainerNumbers DEF Control, Fits, BodyPcs, Channels
<1>12. Ready' /\ Accounted'
  BY <1>4, <1>10 DEF Ready, ReadyOnChannel, Accounted, BodyPcs
<1>13. Excused'
  <2>1. /\ faults.channel \in Nat /\ faults'.channel \in Nat /\ NumChannels \in Nat
    BY <1>4, TypeFacts DEF Counts
  <2>2. faults.channel >= NumChannels => faults'.channel >= NumChannels
    BY <1>4, <2>1
  <2>3. op.ret = "NONE" /\ ~op.faulty => faults.channel >= NumChannels
    BY <1>1 DEF Excused
  <2>4. SelectUnlessFull'
    BY <1>6, <1>7, <2>2, <2>3 DEF SelectUnlessFull
  <2> QED
    BY <1>10, <2>4 DEF Excused
<1>14. InParts'
  <2>1. op.name = "sign" /\ ret = "0" => op.got = UpTo(Parts)
    BY <1>1, <1>3 DEF InParts
  <2>2. SignatureWhole'
    BY <1>7, <2>1 DEF SignatureWhole, UpTo
  <2> QED
    BY <1>10, <2>2 DEF InParts, BodyPcs
<1>15. InBlocks'
  <2>1. /\ op.name \in { "file", "object", "certificate" } /\ ret = "0" /\ op.ret # "NONE"
        /\ (op.name = "file" \/ ~op.faulty)
        => op.got = BlocksBefore(Blocks)
    BY <1>1, <1>3 DEF InBlocks
  <2>2. ObjectWhole'
    BY <1>6, <1>7, <2>1 DEF ObjectWhole, BlocksBefore
  <2> QED
    BY <1>10, <2>2 DEF InBlocks
<1>16. InList'
  <2>1. ~Listing /\ ~Listing'
    BY <1>1, <1>10 DEF Listing
  <2> QED
    BY <1>1, <1>10, <2>1, ListUntouched
<1> QED
  BY <1>9, <1>11, <1>12, <1>13, <1>14, <1>15, <1>16

-----------------------------------------------------------------------------
(* The theorems *)

LEMMA CardInit == Init => CardInv
<1> SUFFICES ASSUME Init
             PROVE  CardInv
  OBVIOUS
<1>1. op = Idle /\ op.pc = "idle" /\ op.name = "none" /\ op.ret = "NONE" /\ op.arg = 0
      /\ op.got = << >>
  BY DEF Init, Idle
<1>2. << >> \in Seq(Nat) /\ 0 \in DOMAIN Containers
  BY ContainerNumbers
<1>3. Closed \in ChannelStates /\ Closed.applet = "closed"
  BY CardAssumption DEF Closed, ChannelStates, NoKey
<1>4. Open = {}
  BY <1>3 DEF Init, Open
<1>5. Types
  <2>1. card \in [Channels -> ChannelStates]
    BY <1>3 DEF Init
  <2>2. applets \in [Applets -> [selected : BOOLEAN, channel : 0..NumChannels]]
    BY CardAssumption DEF Init
  <2>3. faults \in Counts /\ faults.channel <= faults.all
    BY CardAssumption DEF Init, Counts
  <2>4. result \in Results
    BY <1>2 DEF Init, Results, Names
  <2>5. op \in Operations
    BY <1>1, IdleType
  <2> QED
    BY <2>1, <2>2, <2>3, <2>4, <2>5 DEF Init, Types, TypeOK, ChannelStates, Counts
<1>6. Control
  BY <1>1, <1>2 DEF Control, Init, Fits, BodyPcs
<1>7. Ready
  BY <1>1 DEF Ready, ReadyOnChannel
<1>8. Accounted
  BY <1>1, <1>4, FS_EmptySet DEF Init, Accounted, BodyPcs
<1>9. Excused
  BY <1>1 DEF Init, Excused, SelectUnlessFull
<1>10. InParts /\ InBlocks
  BY <1>1 DEF Init, InParts, InBlocks, SignatureWhole, ObjectWhole, BodyPcs
<1>11. InList
  BY <1>1 DEF Init, InList, Listing, Sound, Single
<1> QED
  BY <1>5, <1>6, <1>7, <1>8, <1>9, <1>10, <1>11 DEF CardInv

LEMMA CardNext == CardInv /\ [Next]_vars => CardInv'
<1> SUFFICES ASSUME CardInv, [Next]_vars
             PROVE  CardInv'
  OBVIOUS
<1>1. CASE ReadFile \/ ReadObject \/ ReadCertificate \/ ParseKey \/ Sign \/ Decrypt
  BY <1>1, BeginsKeep
<1>2. CASE CloseFirst
  BY <1>2, CloseFirstKeeps
<1>3. CASE OpenChannel
  BY <1>3, OpenChannelKeeps
<1>4. CASE SelectApplet
  BY <1>4, SelectAppletKeeps
<1>5. CASE Undo
  BY <1>5, UndoKeeps
<1>6. CASE Finish
  BY <1>6, FinishKeeps
<1>7. CASE BodyAction
  BY <1>7, BodyKeeps
<1>8. CASE UNCHANGED vars
  <2>1. UNCHANGED << card, applets, keypairs, key, op, result, faults, patchy >>
    BY <1>8 DEF vars
  <2>2. Open' = Open /\ Ch' = Ch /\ Here' = Here
    BY <2>1 DEF Open, Channels, Ch, Here
  <2>3. Types'
    BY <2>1 DEF CardInv, Types, TypeOK, Channels
  <2>4. Control'
    BY <2>1, <2>2 DEF CardInv, Control, Channels
  <2>5. Ready'
    BY <2>1, <2>2 DEF CardInv, Ready, ReadyOnChannel
  <2>6. Accounted' /\ Excused'
    BY <2>1, <2>2 DEF CardInv, Accounted, Excused, SelectUnlessFull
  <2>7. InParts'
    BY <2>1, <2>2 DEF CardInv, InParts, SignatureWhole
  <2>8. InBlocks'
    BY <2>1 DEF CardInv, InBlocks, ObjectWhole
  <2>9. InList'
    BY <2>1 DEF CardInv, InList, Listing
  <2> QED
    BY <2>3, <2>4, <2>5, <2>6, <2>7, <2>8, <2>9 DEF CardInv
<1> QED
  BY <1>1, <1>2, <1>3, <1>4, <1>5, <1>6, <1>7, <1>8 DEF Next, BodyAction

LEMMA CardAlways == Spec => []CardInv
  BY CardInit, CardNext, PTL DEF Spec

\* The state of the card and of the client's applets keeps its types; the client
\* never asks for a part of a signature that is not there.
THEOREM CardTypes == Spec => []TypeOK
<1>1. CardInv => TypeOK
  BY DEF CardInv, Types
<1> QED
  BY <1>1, CardAlways, PTL

\* An applet command goes to a channel on which the card runs this applet, with
\* the PIN verified where the command needs it and the key set where it uses one.
THEOREM CommandsAreReady == Spec => []ReadyOnChannel
<1>1. CardInv => ReadyOnChannel
  BY DEF CardInv, Ready
<1> QED
  BY <1>1, CardAlways, PTL

\* A channel is lost only to a failed exchange that was to open or to close one.
THEOREM ChannelsAccounted == Spec => []OpenBounded
<1>1. CardInv => OpenBounded
  BY DEF CardInv, Accounted, OpenBounded
<1> QED
  BY <1>1, CardAlways, PTL

\* A select without a failure fails only when all the channels are lost.
THEOREM SelectSucceeds == Spec => []SelectUnlessFull
<1>1. CardInv => SelectUnlessFull
  BY DEF CardInv, Excused
<1> QED
  BY <1>1, CardAlways, PTL

\* A signature that is returned has all its parts in their order.
THEOREM SignaturesWhole == Spec => []SignatureWhole
<1>1. CardInv => SignatureWhole
  BY DEF CardInv, InParts
<1> QED
  BY <1>1, CardAlways, PTL

\* A file or an object that is returned is complete, under the conditions of
\* ObjectWhole.
THEOREM ObjectsWhole == Spec => []ObjectWhole
<1>1. CardInv => ObjectWhole
  BY DEF CardInv, InBlocks
<1> QED
  BY <1>1, CardAlways, PTL

\* What a search finds under the number of a container is its key pair, unless
\* another container can have this number; it is found, with its certificate,
\* unless a later container hides it or an exchange has failed while the list was
\* made.
THEOREM KeysAreListed == Spec => []KeysListed
<1>1. ASSUME CardInv
      PROVE  KeysListed
  <2>1. /\ Sound(keypairs) /\ Single(keypairs) /\ keypairs \subseteq Pairs
        /\ \A kp \in keypairs : First(kp) = Front(keypairs, kp)
    BY <1>1 DEF CardInv, InList, Types, TypeOK, Pairs, First, Front
  <2>2. \A kp \in keypairs : kp.cert => HasCertificate(kp.cid)
    BY <2>1 DEF Sound
  <2>3. ASSUME NEW cid \in DOMAIN Containers,
               \A other \in DOMAIN Containers : Alike(cid, other) => other = cid,
               NEW kp \in FirstOf(cid)
        PROVE  kp.of = cid
    <3>1. kp \in keypairs /\ kp.cid = cid /\ kp.of \in DOMAIN Containers
      BY <2>1 DEF FirstOf, Pairs
    <3>2. Alike(cid, kp.of)
      BY <2>1, <3>1 DEF Sound
    <3> QED
      BY <2>3, <3>1, <3>2
  <2>4. ASSUME op.pc = "idle", keypairs # {}, ~patchy, NEW cid \in DOMAIN Containers,
               cid + 1 < KidSpan, Containers[cid] = "key",
               \A other \in DOMAIN Containers : Alike(cid, other) => other <= cid
        PROVE  FirstOf(cid) = { [of |-> cid, cid |-> cid, cert |-> HasCertificate(cid)] }
    <3>1. Covers(keypairs, All) /\ CertifiedTo(keypairs, Len(Directory) + 1)
      BY <1>1, <2>4 DEF CardInv, InList, Listing
    <3>2. cid \in Nat /\ cid < All /\ KidSpan \in Nat
      BY ContainerNumbers, CardAssumption
    <3>3. PICK kp \in keypairs : kp.of = cid
      BY <2>4, <3>1, <3>2 DEF Covers
    <3>4. kp.cid = cid
      <4>1. (cid + 1) % KidSpan = cid + 1
        BY <2>4, <3>2
      <4>2. (cid + 1) % KidSpan = kp.cid + 1 /\ kp.cid \in Int
        BY <2>1, <2>4, <3>2, <3>3 DEF Sound, Alike, Pairs, Cids
      <4> QED
        BY <3>2, <4>1, <4>2
    <3>5. Front(keypairs, kp)
      <4> SUFFICES ASSUME NEW other \in keypairs, other.cid = kp.cid
                   PROVE  other.of <= kp.of
        BY DEF Front
      <4>1. Alike(cid, other.of) /\ other.of \in DOMAIN Containers
        BY <2>1, <3>4 DEF Sound, Pairs
      <4> QED
        BY <2>4, <3>3, <4>1
    <3>6. kp \in FirstOf(cid)
      BY <2>1, <3>4, <3>5 DEF FirstOf
    <3>7. ASSUME NEW other \in FirstOf(cid)
          PROVE  other = kp
      <4>1. other \in keypairs /\ other.cid = kp.cid /\ Front(keypairs, other)
        BY <2>1, <3>4 DEF FirstOf
      <4>2. kp.of <= other.of /\ other.of <= kp.of
        BY <3>5, <4>1 DEF Front
      <4>3. kp.of \in Nat /\ other.of \in Nat
        BY <2>1, <4>1, ContainerNumbers DEF Pairs
      <4>4. other.of = kp.of
        BY <4>2, <4>3
      <4> QED
        BY <2>1, <4>1, <4>4 DEF Single
    <3>8. kp.cert <=> HasCertificate(cid)
      <4>1. \A k \in DOMAIN Directory : k < Len(Directory) + 1
        BY CardAssumption
      <4>2. HasCertificate(cid) => Certified(cid, Len(Directory) + 1)
        BY <4>1 DEF HasCertificate, Certified
      <4> QED
        BY <2>2, <3>1, <3>4, <3>5, <4>2 DEF CertifiedTo
    <3>9. kp = [of |-> cid, cid |-> cid, cert |-> HasCertificate(cid)]
      <4>1. kp.cert = HasCertificate(cid)
        BY <2>1, <3>8 DEF Pairs, HasCertificate
      <4>2. kp = [of |-> kp.of, cid |-> kp.cid, cert |-> kp.cert]
        BY <2>1 DEF Pairs
      <4> QED
        BY <3>3, <3>4, <4>1, <4>2
    <3> QED
      BY <3>6, <3>7, <3>9
  <2> QED
    BY <2>2, <2>3, <2>4 DEF KeysListed
<1> QED
  BY <1>1, CardAlways, PTL

=============================================================================
