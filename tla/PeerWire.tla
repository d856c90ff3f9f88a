------------------------------ MODULE PeerWire ------------------------------
(***************************************************************************)
(* A connection to a peer from its first byte to the metadata: BtStream    *)
(* (bt/bt_stream.rs) on PeStream, and the downloader's exchange of pieces  *)
(* on that (crawler/downloader.rs, bt/ext_messages.rs).                    *)
(*                                                                         *)
(* me is the end that runs this code, the client's or the server's; once   *)
(* protocol encryption is done the other one sends what it likes.  A       *)
(* handshake is two tokens and a message is one.                           *)
(***************************************************************************)
EXTENDS PeStream

CONSTANTS
    Pieces,     \* of the metadata of every hash
    MaxSent,    \* messages the peer sends,
    MaxSentPe   \* if the connection is encrypted

ASSUME PeerWireAssumption ==
    Pieces \in Nat \ {0} /\ MaxSent \in Nat /\ MaxSentPe \in 0..MaxSent

VARIABLES
    me,
    phase,      \* "ext" handshake or "pieces"
    target,     \* hash that is downloaded
    total,      \* pieces, according to the peer
    torrent,    \* pieces that have come
    sent        \* messages from the peer

wvars == <<me, phase, target, total, torrent, sent>>
vars == <<pevars, wvars>>
peer == Other(me)

Init ==
    /\ PeInit
    /\ me \in Ends
    /\ me = "client" => offer = 3
    /\ phase = "ext"
    /\ target = Wanted
    /\ total = 0
    /\ torrent = << >>
    /\ sent = 0

Protect == PeNext /\ UNCHANGED wvars

Untouched == UNCHANGED <<mode, offer, lru, chan, part, cipher, hash, pads, me, sent>>
Silent == UNCHANGED <<out, enc, wrote>>

HandshakeOf(h, extensions) == <<HandshakeTag, <<h, extensions>>>>
IsHandshake(s) == s[1] = HandshakeTag
ExtHandshake(n) == <<"ext handshake", n>>   \* n pieces, 0: no ut_metadata
Request(i) == <<"ut request", i>>
Data(i, h) == <<"ut data", i, h>>

-----------------------------------------------------------------------------
(* BtStream *)

EncodeTo(m) == <<m>>
WriteMessage(x, m) == Write(x, EncodeTo(m))

\* The server's callback refuses what is in the store.
MayBeStored == IF me = "server" THEN BOOLEAN ELSE {FALSE}

\* client_handshake writes first; server_handshake never writes one.
Handshake ==
    /\ Take(me, "up", 0, "shake")
    /\ IF me = "client" THEN Write(me, HandshakeOf(Wanted, TRUE)) ELSE Silent
    /\ UNCHANGED <<dec, read, phase, target, total, torrent>> /\ Untouched

\* read_handshake; the client compares hashes; build then writes the extension
\* handshake.
ReadHandshake ==
    LET h == Contents(me, 2)
        good == IsHandshake(h) /\ (me = "client" => h[2][1] = Wanted)
    IN  /\ \E stored \in MayBeStored :
            LET on == good /\ ~stored /\ h[2][2]
            IN  /\ Take(me, "shake", 2, IF on THEN "message" ELSE "failed")
                /\ IF on THEN WriteMessage(me, ExtHandshake(0)) ELSE Silent
                /\ target' = IF on THEN h[2][1] ELSE target
        /\ Consumed(me, 2)
        /\ UNCHANGED <<phase, total, torrent>> /\ Untouched

\* read_message: the message, and where it leads.
ReadMessage(to) ==
    /\ Take(me, "message", 1, to)
    /\ Consumed(me, 1)
    /\ UNCHANGED target /\ Untouched

message == Contents(me, 1)[1]
CanRead == pc[me] = "message" /\ ~Writing(me) /\ buf[me] # << >>

-----------------------------------------------------------------------------
(* The downloader *)

Complete(t) == Len(t) = total

\* Mutant: the hash is not compared.
Unchecked(t) == TRUE

\* The SHA1 check.
Matches(t) == t = [i \in 1..Pieces |-> <<target, i - 1>>]

\* A keep-alive, and while pieces come what is not extended or not ut_metadata.
Skips ==
    \/ message[1] = "keep-alive"
    \/ phase = "pieces" /\ message[1] \in {"other", "ext handshake"}

Skip ==
    /\ CanRead /\ Skips
    /\ ReadMessage("message")
    /\ Silent /\ UNCHANGED <<phase, total, torrent>>

\* The end of build and the beginning of download_impl.
ExtensionsKnown ==
    /\ CanRead /\ phase = "ext" /\ message[1] = "ext handshake"
    /\ ReadMessage(IF message[2] > 0 THEN "message" ELSE "failed")
    /\ IF message[2] > 0 THEN WriteMessage(me, Request(0)) ELSE Silent
    /\ phase' = "pieces" /\ total' = message[2] /\ UNCHANGED torrent

IsNextPiece == phase = "pieces" /\ message[1] = "ut data" /\ message[2] = Len(torrent)

Piece ==
    LET t == Append(torrent, <<message[3], message[2]>>)
    IN  /\ CanRead /\ IsNextPiece
        /\ ReadMessage(IF ~Complete(t) THEN "message"
                       ELSE IF Matches(t) THEN "done" ELSE "failed")
        /\ IF Complete(t) THEN Silent ELSE WriteMessage(me, Request(Len(t)))
        /\ torrent' = t /\ UNCHANGED <<phase, total>>

\* Request, Piece and Cancel are todo!() in decode.
Panic ==
    /\ CanRead /\ message[1] = "todo"
    /\ ReadMessage("panicked")
    /\ Silent /\ UNCHANGED <<phase, total, torrent>>

\* Invalid messages (a reject, a request), the wrong piece.
Refuse ==
    /\ CanRead /\ ~Skips /\ message[1] # "todo"
    /\ phase = "ext" => message[1] # "ext handshake"
    /\ ~IsNextPiece
    /\ ReadMessage("failed")
    /\ Silent /\ UNCHANGED <<phase, total, torrent>>

\* MAX_DOWNLOAD_TIME: all of download, and download_impl of an incoming stream.
TimeOut ==
    /\ Open
    /\ me = "client" \/ (pc[me] = "message" /\ phase = "pieces")
    /\ pc' = [pc EXCEPT ![me] = "timeout"]
    /\ UNCHANGED <<buf, out, enc, dec, wrote, read, phase, target, total, torrent>>
    /\ Untouched

-----------------------------------------------------------------------------
(* The peer *)

Messages ==
    {<<"keep-alive", 0>>, <<"other", 0>>, <<"todo", 0>>, <<"invalid", 0>>}
    \cup {ExtHandshake(n) : n \in 0..Pieces}
    \cup {Data(i, h) : i \in 0..Pieces - 1, h \in Hashes}

PeerStart ==
    /\ Open /\ pc[peer] = "up"
    /\ pc' = [pc EXCEPT ![peer] = "peer"]
    /\ \E h \in Hashes, extensions \in BOOLEAN : Write(peer, HandshakeOf(h, extensions))
    /\ UNCHANGED <<buf, dec, read, phase, target, total, torrent>> /\ Untouched

\* One on its way at a time: they arrive in order anyway.
PeerSends ==
    /\ Open /\ pc[peer] = "peer" /\ ~Writing(peer) /\ chan[me] = << >>
    /\ sent < IF mode = "pe" THEN MaxSentPe ELSE MaxSent
    /\ \E m \in Messages : WriteMessage(peer, m)
    /\ sent' = sent + 1
    /\ UNCHANGED <<mode, offer, lru, pc, buf, chan, part, dec, cipher, hash, pads, read, me,
                   phase, target, total, torrent>>

PeerReads ==
    /\ Take(peer, "peer", Len(buf[peer]), "peer")
    /\ Consumed(peer, Len(buf[peer]))
    /\ Silent /\ UNCHANGED <<phase, target, total, torrent>> /\ Untouched

-----------------------------------------------------------------------------

Next ==
    \/ Protect \/ Handshake \/ ReadHandshake
    \/ Skip \/ ExtensionsKnown \/ Piece \/ Panic \/ Refuse \/ TimeOut
    \/ PeerStart \/ PeerSends \/ PeerReads

\* Both ends are polled and the transport delivers.
Spec == Init /\ [][Next]_vars /\ WF_vars(Protect)

-----------------------------------------------------------------------------
(* Properties *)

TypeOK ==
    /\ me \in Ends /\ cipher \in [Ends -> {"none", "plain", "rc4"}]
    /\ hash \in [Ends -> Hashes \cup {NoHash}] /\ target \in Hashes
    /\ \A x \in Ends : /\ Len(chan[x]) <= Capacity /\ Len(part[x]) <= MaxPad + 1
                       /\ pads[x] \in {0} \cup Lens
    /\ total \in 0..Pieces /\ Len(torrent) <= total
    /\ sent \in 0..MaxSent

\* Besides the shape: the ends agree, and only who asks for an unknown hash is refused.
WireInv == TypeOK /\ Agreed /\ NeverRefused

\* What this end writes: greetings, and a request for each of the n first pieces.
Greeting == (IF me = "client" THEN HandshakeOf(Wanted, TRUE) ELSE << >>) \o <<ExtHandshake(0)>>
Requests(n) == [i \in 1..n |-> Request(i - 1)]

\* A download that ends well has the metadata of the hash it was for, each piece
\* of which it has asked for once and in order, whatever the peer says and sends.
Downloaded ==
    pc[me] = "done" =>
        /\ torrent = [i \in 1..Pieces |-> <<target, i - 1>>]
        /\ wrote[me] = Greeting \o Requests(Pieces)
        /\ \A i \in 1..Pieces :
               \E j \in DOMAIN read[peer] : read[peer][j] = Data(i - 1, target)

\* Each end reads what the other has written, in order and undisturbed by
\* encryption, padding and bytes read ahead during the handshake.
ReadsWhatWasWritten == INSTANCE Pipe
IsPipe == ReadsWhatWasWritten!Spec

\* The handshake of protocol encryption ends at both ends: they never wait for
\* each other.  There is no timeout on the server's side to save it.
HandshakeEnds == mode = "pe" => \A x \in Ends : <>(pc[x] \notin Shaking)
=============================================================================
