--------------------------- MODULE SecureElement ---------------------------
(***************************************************************************)
(* The certificate and the private key on the SIM.  mbedtls_se reads them  *)
(* and has hashes signed through two applets, MF and MIAS, each of which   *)
(* opens a logical channel of the card for every operation.  A step is one *)
(* exchange of a command and its answer.  The card may refuse a command,   *)
(* and the line to it may fail, before or after the card has obeyed.       *)
(***************************************************************************)
EXTENDS Integers, Sequences, FiniteSets, FiniteSetsExt

CONSTANTS
    NumChannels,    \* logical channels of the card besides the basic one
    Containers,     \* what is in the key containers 0, 1, ...
    KidSpan,        \* values of the low four bits of kid: 16
    Directory,      \* the records of the directory file
    Labels,         \* labels of PKCS#11 objects that are asked for
    Blocks,         \* reads that a file takes
    Parts,          \* answers that a signature comes in
    MaxFaults       \* bound: exchanges that fail

\* A key is one of 1024 or 2048 bits; "odd" is one of any other size.
Contents == { "empty", "key", "odd" }

Records == [kind : { "cert" }, of : DOMAIN Containers] \cup [kind : { "p11" }, of : Labels]

ASSUME CardAssumption ==
    /\ { NumChannels, Blocks, Parts, KidSpan } \subseteq Nat \ { 0 } /\ MaxFaults \in Nat
    /\ Containers \in [0..Cardinality(DOMAIN Containers) - 1 -> Contents]
    /\ Cardinality(DOMAIN Containers) \in Nat \ { 0 }
    /\ Directory \in Seq(Records)

VARIABLES
    card,       \* what the card keeps for each channel
    applets,    \* _isSelected and _channel of the two applets
    keypairs,   \* _keypairs of MIAS
    key,        \* the key a TLS context was given
    op,         \* the operation in progress
    result,     \* the last one, and what it returned
    faults,     \* history: exchanges that failed, and those about channels among them
    patchy      \* history: an exchange failed while _keypairs was being filled

vars == << card, applets, keypairs, key, op, result, faults, patchy >>

Channels == 1..NumChannels
Applets == { "MF", "MIAS" }
NoKey == -1

Closed == [applet |-> "closed", pin |-> FALSE, env |-> NoKey, hash |-> FALSE, sent |-> 0]
Running(applet) == [Closed EXCEPT !.applet = applet]

Open == { c \in Channels : card[c].applet # "closed" }
Free == Channels \ Open

\* The channel of the applet in use, and what the card keeps for it.
Ch == applets[op.applet].channel
Here == card[Ch]

Idle == [name |-> "none", pc |-> "idle", applet |-> "MF", arg |-> 0, i |-> 0,
         got |-> << >>, files |-> << >>, ret |-> "NONE", faulty |-> FALSE]

Goto(pc) == [op EXCEPT !.pc = pc, !.i = 0]

-----------------------------------------------------------------------------
(* SEInterface::transmit.  TRUE with 0x9000, TRUE with another status word, *)
(* or FALSE, with the command obeyed or not.                                *)

Answered(new) == card' = new /\ UNCHANGED faults

AboutChannels == op.pc \in { "close first", "open", "undo", "close" }

Fault ==
    /\ faults.all < MaxFaults
    /\ faults' = [all |-> faults.all + 1,
                  channel |-> faults.channel + IF AboutChannels THEN 1 ELSE 0]

Refused == Fault /\ UNCHANGED card

Lost(new) == Fault /\ card' \in { card, new }

\* The operation goes on as next.
Continue(next) == op' = [next EXCEPT !.faulty = @ \/ faults' # faults]

\* A command on the channel of the applet that leaves new in the card.
Command(new, next, failed) ==
    LET after == [card EXCEPT ![Ch] = new]
    IN  \/ Answered(after) /\ Continue(next)
        \/ (Refused \/ Lost(after)) /\ Continue(failed)

-----------------------------------------------------------------------------
(* Applet::select and deselect, on a logical channel *)

Begin(name, applet, arg) ==
    /\ op.pc = "idle"
    /\ op' = [Idle EXCEPT !.name = name, !.applet = applet, !.arg = arg,
                          !.pc = IF applets[applet].selected THEN "close first" ELSE "open"]
    /\ UNCHANGED << card, applets, keypairs, key, result, faults, patchy >>

\* MANAGE CHANNEL close.  The card refuses it for a channel that is not open.
CloseChannel ==
    LET after == [card EXCEPT ![Ch] = Closed]
    IN  \/ Answered(IF Ch \in Open THEN after ELSE card)
        \/ Refused
        \/ Lost(after)

\* The applet is deselected only by a close that the card confirms.
Deselect ==
    /\ CloseChannel
    /\ applets' = [applets EXCEPT ![op.applet].selected = ~(Ch \in Open /\ faults' = faults)]

\* Mutant: select gives up when the old channel cannot be closed.
CloseFirstOrFail ==
    /\ op.pc = "close first"
    /\ Deselect
    /\ Continue(Goto(IF applets'[op.applet].selected THEN "close" ELSE "open"))
    /\ UNCHANGED << keypairs, key, result, patchy >>

\* select starts with a deselect whose result it does not look at.
CloseFirst ==
    /\ op.pc = "close first"
    /\ Deselect
    /\ Continue(Goto("open"))
    /\ UNCHANGED << keypairs, key, result, patchy >>

\* MANAGE CHANNEL open
OpenChannel ==
    /\ op.pc = "open"
    /\ IF Free = {}
       THEN Answered(card) /\ Continue(Goto("close")) /\ UNCHANGED applets
       ELSE LET c == Min(Free)
                after == [card EXCEPT ![c] = Running("none")]
            IN  \/ /\ Answered(after) /\ Continue(Goto("select"))
                   /\ applets' = [applets EXCEPT ![op.applet].channel = c]
                \/ /\ Refused \/ Lost(after)
                   /\ Continue(Goto("close"))
                   /\ UNCHANGED applets
    /\ UNCHANGED << keypairs, key, result, patchy >>

\* What an operation does once its applet is selected.
Body ==
    CASE op.name \in { "certificate", "parse key" } ->
            Goto(IF keypairs = {} THEN "containers" ELSE "find")
      [] OTHER -> Goto("pin")

\* SELECT by AID
SelectApplet ==
    /\ op.pc = "select"
    /\ Command(Running(op.applet), [Body EXCEPT !.ret = "ERROR"], Goto("undo"))
    /\ applets' = [applets EXCEPT ![op.applet].selected = @ \/ op'.pc # "undo"]
    /\ UNCHANGED << keypairs, key, result, patchy >>

\* Mutant: the channel is left open when the applet cannot be selected.
UndoNothing ==
    /\ op.pc = "undo"
    /\ op' = Goto("close")
    /\ UNCHANGED << card, applets, keypairs, key, result, faults, patchy >>

\* The channel is closed again, whatever comes of it.
Undo ==
    /\ op.pc = "undo"
    /\ CloseChannel
    /\ Continue(Goto("close"))
    /\ UNCHANGED << applets, keypairs, key, result, patchy >>

\* What an operation returns whose applet could not be selected: ret is not
\* initialized in the two that read a file or an object, and neither is the key
\* pair that parse key looks at.  What a caller does with the garbage is not
\* followed.
Unselected ==
    IF op.name \in { "file", "object", "parse key" } THEN { "0", "ERROR" } ELSE { "ERROR" }

Return(ret) ==
    /\ result' = [name |-> op.name, arg |-> op.arg, ret |-> ret, got |-> op.got,
                  selected |-> op.ret # "NONE", faulty |-> op.faulty]
    /\ key' = IF op.name = "parse key" /\ op.ret = "0" THEN op.arg ELSE key

\* Every operation ends with a deselect, which sends nothing if there is no
\* applet selected.
Finish ==
    /\ op.pc = "close"
    /\ IF applets[op.applet].selected THEN Deselect ELSE UNCHANGED << card, applets, faults >>
    /\ \E ret \in IF op.ret = "NONE" THEN Unselected ELSE { op.ret } : Return(ret)
    /\ op' = Idle
    /\ UNCHANGED << keypairs, patchy >>

-----------------------------------------------------------------------------
(* Commands of the applets.  After a failure the operation is over, except   *)
(* where the code goes on.                                                  *)

Over(ret) == [Goto("close") EXCEPT !.ret = ret]

\* Mutant: whatever comes of the PIN.
VerifyPinUnheard ==
    /\ op.pc = "pin"
    /\ LET next == Goto(CASE op.name = "sign" -> "mse sign"
                          [] op.name = "decrypt" -> "mse decrypt"
                          [] op.name = "object" -> "directory"
                          [] OTHER -> "open file")
       IN  Command([Here EXCEPT !.pin = TRUE], next, next)
    /\ UNCHANGED << applets, keypairs, key, result, patchy >>

VerifyPin ==
    /\ op.pc = "pin"
    /\ LET next == CASE op.name = "sign" -> "mse sign"
                     [] op.name = "decrypt" -> "mse decrypt"
                     [] op.name = "object" -> "directory"
                     [] OTHER -> "open file"
       IN  Command([Here EXCEPT !.pin = TRUE], Goto(next), Over("ERROR"))
    /\ UNCHANGED << applets, keypairs, key, result, patchy >>

\* signInit, and psoHashExternally of signFinal
MseSetBeforeSignature ==
    /\ op.pc = "mse sign"
    /\ Command([Here EXCEPT !.env = op.arg], Goto("hash"), Over("ERROR"))
    /\ UNCHANGED << applets, keypairs, key, result, patchy >>

PsoHashExternally ==
    /\ op.pc = "hash"
    /\ Command([Here EXCEPT !.hash = TRUE], Goto("sign"), Over("ERROR"))
    /\ UNCHANGED << applets, keypairs, key, result, patchy >>

\* The first part of a signature comes with the command, the others are fetched
\* with GET RESPONSE as long as the status word announces one.
NextPart(r) == [r EXCEPT !.got = Append(@, Here.sent + 1),
                         !.pc = IF Here.sent + 1 = Parts THEN "close" ELSE "get response",
                         !.ret = IF Here.sent + 1 = Parts THEN "0" ELSE @]

PsoComputeDigitalSignature ==
    /\ op.pc = "sign"
    /\ Command([Here EXCEPT !.sent = 1], NextPart(op), Over("ERROR"))
    /\ UNCHANGED << applets, keypairs, key, result, patchy >>

\* Mutant: a part that does not arrive is fetched again.
GetResponseAgain ==
    /\ op.pc = "get response"
    /\ IF Here.sent < Parts THEN Command([Here EXCEPT !.sent = @ + 1], NextPart(op), op)
       ELSE op' = Over("ERROR") /\ UNCHANGED << card, faults >>
    /\ UNCHANGED << applets, keypairs, key, result, patchy >>

GetResponse ==
    /\ op.pc = "get response"
    /\ Command([Here EXCEPT !.sent = @ + 1], NextPart(op), Over("ERROR"))
    /\ UNCHANGED << applets, keypairs, key, result, patchy >>

MseSetBeforeDecrypt ==
    /\ op.pc = "mse decrypt"
    /\ Command([Here EXCEPT !.env = op.arg], Goto("decipher"), Over("ERROR"))
    /\ UNCHANGED << applets, keypairs, key, result, patchy >>

\* psoDecipher sends the data of a long key in two commands.
PsoDecipher ==
    /\ op.pc = "decipher"
    /\ \E last \in BOOLEAN :
          /\ op.i = 1 => last
          /\ Command(Here, IF last THEN Over("0") ELSE [op EXCEPT !.i = 1], Over("ERROR"))
    /\ UNCHANGED << applets, keypairs, key, result, patchy >>

-----------------------------------------------------------------------------
(* Files *)

\* SELECT of the file to be read
OpenFile ==
    /\ op.pc = "open file"
    /\ Command(Here, Goto("read"), Over("ERROR"))
    /\ UNCHANGED << applets, keypairs, key, result, patchy >>

NextBlock(r) == IF op.i + 1 < Blocks THEN [r EXCEPT !.i = @ + 1]
                ELSE [r EXCEPT !.i = 0, !.pc = "close", !.ret = "0"]

\* Mutant: MF reads on like MIAS.
ReadFailedOn == NextBlock(op)

\* MF::readEF gives up; MIAS passes over the block and reads on.
ReadFailed == IF op.applet = "MF" THEN Over("ERROR") ELSE NextBlock(op)

\* READ BINARY of one block
ReadBinary ==
    /\ op.pc = "read"
    /\ Command(Here, NextBlock([op EXCEPT !.got = Append(@, op.i)]), ReadFailed)
    /\ UNCHANGED << applets, keypairs, key, result, patchy >>

\* _keypairs has the key pair of the last container in front, and the first one
\* of a number is taken for the container of that number.
First(kp) == \A other \in keypairs : other.cid = kp.cid => other.of <= kp.of

FirstOf(cid) == { kp \in keypairs : kp.cid = cid /\ First(kp) }

\* Something that belongs in the list of key pairs may have been missed.
Missed == patchy' = (patchy \/ (op.name # "object" /\ faults' # faults))

\* SELECT of the directory file and READ BINARY of the number of its records.
\* listKeyPairs returns TRUE without it, p11GetObjectByLabel FALSE.
ReadDirectory ==
    /\ op.pc = "directory"
    /\ Command(Here, Goto("record"), IF op.name = "object" THEN Over("ERROR") ELSE Goto("find"))
    /\ Missed
    /\ UNCHANGED << applets, keypairs, key, result >>

NextRecord(r) == IF op.i < Len(Directory) THEN [r EXCEPT !.i = @ + 1]
                 ELSE [r EXCEPT !.i = 0, !.pc = IF op.name = "object" THEN "probe" ELSE "find"]

\* READ BINARY of a record.  One that cannot be read is passed over.
ReadRecord ==
    /\ op.pc = "record"
    /\ IF op.i = 0 THEN Answered(card) /\ Continue(NextRecord(op))
       ELSE LET record == Directory[op.i]
                next == IF record.kind = "p11"
                        THEN [op EXCEPT !.files = << record.of >> \o @] ELSE op
            IN  Command(Here, NextRecord(next), NextRecord(op))
    /\ keypairs' =
          IF op.name # "object" /\ op.i > 0 /\ faults' = faults
          THEN { IF Directory[op.i] = [kind |-> "cert", of |-> kp.cid] /\ First(kp)
                 THEN [kp EXCEPT !.cert = TRUE] ELSE kp : kp \in keypairs }
          ELSE keypairs
    /\ Missed
    /\ UNCHANGED << applets, key, result >>

\* SELECT of the next file with an object and READ BINARY of its label and of
\* what precedes its value.  The next one is tried if any of them fails.
ProbeObject ==
    /\ op.pc = "probe"
    /\ IF op.files = << >>
       THEN UNCHANGED << card, faults >> /\ op' = Over("ERROR")
       ELSE LET others == [op EXCEPT !.files = Tail(@)]
            IN  Command(Here, IF Head(op.files) = op.arg THEN Goto("read") ELSE others, others)
    /\ UNCHANGED << applets, keypairs, key, result, patchy >>

-----------------------------------------------------------------------------
(* MIAS::listKeyPairs, which is done once, and the search in its result *)

ReadContainers ==
    /\ op.pc = "containers"
    /\ Command(Here, Goto("container"), Goto("find"))
    /\ patchy' = FALSE
    /\ UNCHANGED << applets, keypairs, key, result >>

\* Mutant: the number counts the key pairs that were found.
CidsOfFound(i) == { Cardinality(keypairs) }

\* What (kid & 0x0F) - 1 can be for container i.  kid has the number of the
\* container, counted from one, in its low four bits, so that containers sixteen
\* apart share a number; it is not initialized for a key of another size.
Cids == -1..KidSpan - 2

CidsOf(i) == IF Containers[i] = "odd" THEN Cids ELSE { ((i + 1) % KidSpan) - 1 }

NextContainer(r) ==
    IF op.i + 1 \in DOMAIN Containers THEN [r EXCEPT !.i = @ + 1]
    ELSE [r EXCEPT !.i = 0, !.pc = "directory"]

\* READ BINARY of a container.  The list ends where the card refuses; where
\* the line fails, one container is passed over.
ReadContainer ==
    /\ op.pc = "container"
    /\ \/ /\ Answered(card) /\ Continue(NextContainer(op))
          /\ IF Containers[op.i] = "empty" THEN UNCHANGED keypairs
             ELSE \E cid \in CidsOf(op.i) :
                    keypairs' = keypairs \cup { [of |-> op.i, cid |-> cid, cert |-> FALSE] }
       \/ /\ \/ Refused /\ Continue(Goto("directory"))
             \/ Lost(card) /\ Continue(NextContainer(op))
          /\ UNCHANGED keypairs
    /\ Missed
    /\ UNCHANGED << applets, key, result >>

\* getKeyPairByContainerId
Find ==
    /\ op.pc = "find"
    /\ LET found == FirstOf(op.arg)
       IN  op' = CASE op.name = "parse key" -> Over(IF found # {} THEN "0" ELSE "ERROR")
                   [] op.name = "certificate" /\ \E kp \in found : kp.cert -> Goto("open file")
                   [] OTHER -> Over("ERROR")
    /\ UNCHANGED << card, applets, keypairs, key, result, faults, patchy >>

-----------------------------------------------------------------------------
(* mbedtls_se *)

\* mbedtls_x509_crt_parse_se and mbedtls_pk_parse_se, by the prefix of the path
ReadFile == Begin("file", "MF", 0)
ReadObject == \E label \in Labels : Begin("object", "MIAS", label)
ReadCertificate == \E cid \in DOMAIN Containers : Begin("certificate", "MIAS", cid)
ParseKey == \E cid \in DOMAIN Containers : Begin("parse key", "MIAS", cid)

\* The private key of the TLS context is used during a handshake.
Sign == key # NoKey /\ Begin("sign", "MIAS", key)
Decrypt == key # NoKey /\ Begin("decrypt", "MIAS", key)

Init ==
    /\ card = [c \in Channels |-> Closed]
    /\ applets = [a \in Applets |-> [selected |-> FALSE, channel |-> 0]]
    /\ keypairs = {} /\ key = NoKey
    /\ op = Idle
    /\ result = [name |-> "none", arg |-> 0, ret |-> "NONE", got |-> << >>,
                 selected |-> TRUE, faulty |-> FALSE]
    /\ faults = [all |-> 0, channel |-> 0] /\ patchy = FALSE

Next ==
    \/ ReadFile \/ ReadObject \/ ReadCertificate \/ ParseKey \/ Sign \/ Decrypt
    \/ CloseFirst \/ OpenChannel \/ SelectApplet \/ Undo \/ Finish
    \/ VerifyPin \/ MseSetBeforeSignature \/ PsoHashExternally
    \/ PsoComputeDigitalSignature \/ GetResponse \/ MseSetBeforeDecrypt \/ PsoDecipher
    \/ OpenFile \/ ReadBinary \/ ReadDirectory \/ ReadRecord \/ ProbeObject
    \/ ReadContainers \/ ReadContainer \/ Find

Spec == Init /\ [][Next]_vars

-----------------------------------------------------------------------------
(* Properties *)

\* The variables have their types: the card keeps no channel beyond its number,
\* and is never asked for more parts of a signature than there are.
TypeOK ==
    /\ card \in [Channels -> [applet : Applets \cup { "none", "closed" }, pin : BOOLEAN,
                              env : DOMAIN Containers \cup { NoKey }, hash : BOOLEAN,
                              sent : 0..Parts]]
    /\ applets \in [Applets -> [selected : BOOLEAN, channel : 0..NumChannels]]
    /\ keypairs \subseteq [of : DOMAIN Containers, cid : Cids, cert : BOOLEAN]
    /\ key \in DOMAIN Containers \cup { NoKey }
    /\ faults \in [all : 0..MaxFaults, channel : 0..MaxFaults] /\ patchy \in BOOLEAN

\* Whatever was lost before, an applet command goes to a channel on which the
\* card runs this applet; a command that uses the key, and the reading of a file
\* or an object, goes to one on which the PIN was verified.
ReadyOnChannel ==
    /\ op.pc \notin { "idle", "close first", "open", "select", "undo", "close" } =>
          Here.applet = op.applet
    /\ \/ op.pc \in { "mse sign", "hash", "sign", "get response", "mse decrypt", "decipher" }
       \/ op.pc \in { "open file", "read", "probe" } /\ op.name # "certificate"
       => Here.pin
    /\ op.pc \in { "hash", "sign", "get response", "decipher" } => Here.env = op.arg

\* Between operations no channel stays open, except one for each failed exchange
\* that was to open or to close one: no other failure costs a channel.
OpenBounded == op.pc = "idle" => Cardinality(Open) <= faults.channel

\* An operation in which no exchange fails selects its applet unless the card has
\* run out of channels: old failures of select, deselect and of the other applet
\* do no harm beyond the channels they have cost.
SelectUnlessFull == ~result.selected /\ ~result.faulty => faults.channel >= NumChannels

\* A signature that is returned has all its parts, once and in their order.
\* A part that is lost after the card has sent it is never made up for.
SignatureWhole ==
    result.name = "sign" /\ result.ret = "0" => result.got = [i \in 1..Parts |-> i]

\* A file or an object that is returned is complete.  For what MIAS reads this
\* is claimed if no exchange has failed, and for no operation whose applet could
\* not be selected.
ObjectWhole ==
    /\ result.name \in { "file", "object", "certificate" } /\ result.ret = "0"
    /\ result.selected /\ (result.name = "file" \/ ~result.faulty)
    => result.got = [i \in 1..Blocks |-> i - 1]

\* The list of key pairs is made once and never again.  What a search finds under
\* the number of a container is the key pair of that container, unless another
\* container may have the same number: one with a key of another size than the
\* code knows, or one sixteen further on (KidSpan).  The key pair is found, with its
\* certificate if there is one, unless a later container hides it or an exchange
\* has failed while the list was made.
Alike(cid, other) ==
    \/ Containers[other] = "odd"
    \/ Containers[other] = "key" /\ (other + 1) % KidSpan = cid + 1

HasCertificate(cid) == \E i \in DOMAIN Directory : Directory[i] = [kind |-> "cert", of |-> cid]

KeysListed ==
    /\ \A kp \in keypairs : kp.cert => HasCertificate(kp.cid)
    /\ \A cid \in DOMAIN Containers :
          (\A other \in DOMAIN Containers : Alike(cid, other) => other = cid) =>
              \A kp \in FirstOf(cid) : kp.of = cid
    /\ op.pc = "idle" /\ keypairs # {} /\ ~patchy =>
          \A cid \in DOMAIN Containers :
              /\ cid + 1 < KidSpan /\ Containers[cid] = "key"
              /\ \A other \in DOMAIN Containers : Alike(cid, other) => other <= cid
              => FirstOf(cid) = { [of |-> cid, cid |-> cid, cert |-> HasCertificate(cid)] }

=============================================================================
