------------------------------ MODULE PeStream ------------------------------
(***************************************************************************)
(* Protocol encryption, bt/pe_stream.rs: the client's and the server's     *)
(* handshake at the two ends of a connection, and reading and writing      *)
(* after it.                                                               *)
(*                                                                         *)
(* What is sent is a sequence of tokens <<key, position, content>>: which  *)
(* keystream, "-" for none, and how far into it.  A token is decrypted by  *)
(* the same key at the same position; otherwise garbage comes out.  Keys   *)
(* and hashes are perfect.  The marks to synchronise on are two tokens     *)
(* long, so that they can be split over two reads, and padding may end     *)
(* like the beginning of a mark.  The transport below holds Capacity       *)
(* tokens each way and delivers any number of them at a time.              *)
(***************************************************************************)
EXTENDS Integers, Sequences, SequencesExt

CONSTANTS
    Hashes,     \* info hashes
    Wanted,     \* the one the client asks for
    NoHash,     \* not a hash
    Lens,       \* lengths of padding tried
    MaxPad,     \* PE_MAX_PAD_LEN, 512
    Capacity    \* of the transport, each way

ASSUME PeStreamAssumption ==
    /\ Wanted \in Hashes /\ NoHash \notin Hashes
    /\ MaxPad \in Nat /\ Lens \subseteq 0..MaxPad /\ Capacity \in Nat \ {0}

Ends == {"client", "server"}
Other(x) == IF x = "client" THEN "server" ELSE "client"

VARIABLES
    mode,       \* does the client use encryption (uTP), or none (TCP)?
    offer,      \* crypto_provide: 1 plain text, 2 RC4, 3 both (ours)
    lru,        \* hashes the server knows
    pc,         \* where each end is
    out,        \* what it is writing: write_all, encryptor_buf
    chan,       \* on its way to each end
    buf,        \* its BufReader
    part,       \* what sync_for has skipped
    enc, dec,   \* keystream positions of its encryptor and decryptor
    cipher,     \* "none" (PassThrough, or not yet), "plain" or "rc4"
    hash,       \* the hash of its handshake
    pads,       \* padding it still has to skip
    wrote, read \* history: contents written by each end, and read from it

pvars == <<mode, offer, lru, pc, out, chan, buf, part, enc, dec, cipher, hash, pads>>
pevars == <<pvars, wrote, read>>

-----------------------------------------------------------------------------
(* Tokens *)

SendKey(x) == IF x = "client" THEN "A" ELSE "B"     \* keyA, keyB

Plain(s) == [i \in DOMAIN s |-> <<"-", 0, s[i]>>]
Encrypt(key, pos, s) == [i \in DOMAIN s |-> <<key, pos + i, s[i]>>]
Garbage == <<"garbage", 0>>
Decrypt(key, pos, s) ==
    [i \in DOMAIN s |-> IF s[i][1] = key /\ s[i][2] = pos + i THEN s[i][3] ELSE Garbage]

Tag(name) == <<name, 0>>
Key == Plain(<<Tag("key1"), Tag("key2")>>)
Hash1 == Plain(<<Tag("hash1"), Tag("hash1+")>>)
Vc == <<Tag("vc"), Tag("vc+")>>
HandshakeTag == Tag("BitTorrent protocol")

Pad(n) == [i \in 1..n |-> Tag("pad")]

\* Padding before a mark: less than MaxPad, random bytes, of which the last may
\* happen to be the first of the mark.
PadBefore(mark) ==
    {Plain(Pad(n)) : n \in Lens \ {MaxPad}} \cup
    {Append(Plain(Pad(n - 1)), mark[1]) : n \in Lens \ {0, MaxPad}}

\* Where the mark is in s, or 0.
Position(mark, s) ==
    LET at == {i \in 1..(Len(s) + 1 - Len(mark)) : SubSeq(s, i, i + Len(mark) - 1) = mark}
    IN  IF at = {} THEN 0 ELSE CHOOSE i \in at : \A j \in at : i <= j

-----------------------------------------------------------------------------

PeInit ==
    /\ mode \in {"pe", "plain"}
    /\ offer \in IF mode = "pe" THEN 1..3 ELSE {3}
    /\ lru \in {{}, Hashes}
    /\ pc = [x \in Ends |-> IF x = "client" THEN "start" ELSE "first"]
    /\ out = [x \in Ends |-> << >>]
    /\ chan = [x \in Ends |-> << >>]
    /\ buf = [x \in Ends |-> << >>]
    /\ part = [x \in Ends |-> << >>]
    /\ enc = [x \in Ends |-> 0]
    /\ dec = [x \in Ends |-> 0]
    /\ cipher = [x \in Ends |-> "none"]
    /\ hash = [x \in Ends |-> NoHash]
    /\ pads = [x \in Ends |-> 0]
    /\ wrote = [x \in Ends |-> << >>]
    /\ read = [x \in Ends |-> << >>]

\* How many tokens the end must have to go on.
Need(x) ==
    CASE pc[x] \in {"first", "key", "hash2", "sync", "message"} -> 1
      [] pc[x] \in {"server key", "header", "shake"}            -> 2
      [] pc[x] = "peer"                                         -> 1
      [] pc[x] = "client header"                                -> 4
      [] pc[x] = "pad"                                          -> pads[x]
      [] pc[x] = "pad, IA"                                      -> pads[x] + 1
      [] OTHER                                                  -> 0

Writing(x) == out[x] # << >>

\* Ended one way or another: the stream is dropped, and what is under way with it.
Gone(x) == pc[x] \in {"refused", "closed", "failed", "panicked", "timeout", "done"}
Open == \A x \in Ends : ~Gone(x)

\* poll_write: what is being written goes out as there is room.
Send(x) ==
    /\ Open /\ Writing(x)
    /\ LET room == Capacity - Len(chan[Other(x)])
           n == IF Len(out[x]) < room THEN Len(out[x]) ELSE room
       IN  /\ n > 0
           /\ chan' = [chan EXCEPT ![Other(x)] = @ \o SubSeq(out[x], 1, n)]
           /\ out' = [out EXCEPT ![x] = SubSeq(@, n + 1, Len(@))]
    /\ UNCHANGED <<mode, offer, lru, pc, buf, part, enc, dec, cipher, hash, pads,
                   wrote, read>>

\* fill_buf, read_exact: one token, or all there are.
Fill(x) ==
    /\ Open /\ ~Writing(x) /\ chan[x] # << >> /\ Len(buf[x]) < Need(x)
    /\ \E n \in {1, Len(chan[x])} :
        /\ buf' = [buf EXCEPT ![x] = @ \o SubSeq(chan[x], 1, n)]
        /\ chan' = [chan EXCEPT ![x] = SubSeq(@, n + 1, Len(@))]
    /\ UNCHANGED <<mode, offer, lru, pc, out, part, enc, dec, cipher, hash, pads,
                   wrote, read>>

\* The other end has gone.
Broken(x) ==
    /\ Gone(Other(x)) /\ ~Gone(x)
    /\ pc' = [pc EXCEPT ![x] = "closed"]
    /\ UNCHANGED <<mode, offer, lru, out, chan, buf, part, enc, dec, cipher, hash,
                   pads, wrote, read>>

\* x is at `from` and has what it must have; it takes n tokens and goes to `to`.
Take(x, from, n, to) ==
    /\ Open /\ pc[x] = from /\ ~Writing(x) /\ Len(buf[x]) >= Need(x)
    /\ buf' = [buf EXCEPT ![x] = SubSeq(@, n + 1, Len(@))]
    /\ pc' = [pc EXCEPT ![x] = to]

Put(x, s) == out' = [out EXCEPT ![x] = s]

-----------------------------------------------------------------------------
(* client_handshake *)

ClientStart ==
    /\ Take("client", "start", 0, IF mode = "pe" THEN "server key" ELSE "up")
    /\ IF mode = "pe"
       THEN \E pad \in PadBefore(Hash1) : Put("client", Key \o pad)
       ELSE UNCHANGED out
    /\ hash' = [hash EXCEPT !["client"] = Wanted]
    /\ UNCHANGED <<mode, offer, lru, chan, part, enc, dec, cipher, pads, wrote, read>>

\* The server's key: what tells the hash, and the encrypted header with PadC.
ClientKey ==
    /\ Take("client", "server key", 2, "sync")
    /\ \E n \in Lens :
        LET header == Vc \o <<<<"crypto", offer>>, <<"len", n>>>> \o Pad(n)
                         \o <<<<"ia", 0>>>>
        IN  /\ Put("client", Hash1 \o Plain(<<<<"hash2", Wanted>>>>)
                                   \o Encrypt("A", 0, header))
            /\ enc' = [enc EXCEPT !["client"] = Len(header)]
    /\ UNCHANGED <<mode, offer, lru, chan, part, dec, cipher, hash, pads, wrote, read>>

\* Mutant: what has been read ahead is dropped with the mark.
RestDropped(x, mark, at) == << >>

\* What is left of the buffer after the mark.
Rest(x, mark, at) ==
    SubSeq(buf[x], at + Len(mark) - Len(part[x]), Len(buf[x]))

\* sync_for: the buffer is skipped up to and with the mark.
SyncFor(x, mark, to) ==
    LET seen == part[x] \o buf[x]
        at == Position(mark, seen)
    IN  /\ Open /\ pc[x] = "sync" /\ ~Writing(x) /\ buf[x] # << >>
        /\ pc' = [pc EXCEPT ![x] = IF at > 0 THEN to
                                   ELSE IF Len(seen) >= MaxPad + Len(mark) THEN "refused"
                                   ELSE "sync"]
        /\ buf' = [buf EXCEPT ![x] = IF at > 0 THEN Rest(x, mark, at) ELSE << >>]
        /\ part' = [part EXCEPT ![x] = IF at > 0 THEN << >> ELSE seen]

\* client_sync_stream, on the VC, which takes its place in the keystream.
ClientSync ==
    /\ SyncFor("client", Encrypt("B", 0, Vc), "header")
    /\ dec' = [dec EXCEPT !["client"] = Len(Vc)]
    /\ UNCHANGED <<mode, offer, lru, out, chan, enc, cipher, hash, pads, wrote, read>>

CipherOf(n) == CASE n = 1 -> "plain" [] n \in {2, 3} -> "rc4" [] OTHER -> "none"

ClientHeader ==
    LET header == Decrypt("B", dec["client"], SubSeq(buf["client"], 1, 2))
        good == header[1] \in {<<"crypto", 1>>, <<"crypto", 2>>} /\ header[2][1] = "len"
    IN  /\ Take("client", "header", 2,
                IF good /\ header[2][2] <= MaxPad THEN "pad" ELSE "refused")
        /\ IF good
           THEN /\ cipher' = [cipher EXCEPT !["client"] = CipherOf(header[1][2])]
                /\ pads' = [pads EXCEPT !["client"] = header[2][2]]
           ELSE UNCHANGED <<cipher, pads>>
        /\ dec' = [dec EXCEPT !["client"] = @ + 2]
        /\ UNCHANGED <<mode, offer, lru, out, chan, part, enc, hash, wrote, read>>

\* Mutant: the padding is skipped without the keystream.
Unkeyed(n) == 0

\* A pad of n is decrypted, though nobody looks at it.
Skipped(n) == n

ClientPad ==
    /\ Take("client", "pad", pads["client"], "up")
    /\ dec' = [dec EXCEPT !["client"] = @ + Skipped(pads["client"])]
    /\ UNCHANGED <<mode, offer, lru, out, chan, part, enc, cipher, hash, pads, wrote, read>>

-----------------------------------------------------------------------------
(* server_handshake *)

\* The first 20 bytes: a plain handshake passes through (init_payload keeps it).
ServerFirst ==
    /\ IF buf["server"] # << >> /\ buf["server"][1][3] = HandshakeTag
       THEN Take("server", "first", 0, "up")
       ELSE Take("server", "first", 1, "key")
    /\ UNCHANGED <<mode, offer, lru, out, chan, part, enc, dec, cipher, hash, pads,
                   wrote, read>>

ServerKey ==
    /\ Take("server", "key", 1, "sync")
    /\ \E pad \in PadBefore(Encrypt("B", 0, Vc)) : Put("server", Key \o pad)
    /\ UNCHANGED <<mode, offer, lru, chan, part, enc, dec, cipher, hash, pads, wrote, read>>

\* server_sync_stream
ServerSync ==
    /\ SyncFor("server", Hash1, "hash2")
    /\ UNCHANGED <<mode, offer, lru, out, chan, enc, dec, cipher, hash, pads, wrote, read>>

\* The hash among those the server knows that hash2 is made of.
Found(h) == IF h \in lru THEN h ELSE NoHash

ServerHash ==
    LET h == buf["server"][1][3][2]
    IN  /\ Take("server", "hash2", 1, IF Found(h) # NoHash THEN "client header" ELSE "refused")
        /\ hash' = [hash EXCEPT !["server"] = Found(h)]
    /\ UNCHANGED <<mode, offer, lru, out, chan, part, enc, dec, cipher, pads, wrote, read>>

\* Mutant: RC4 whatever the client offers.
AlwaysRc4(c) == 2

\* crypto_select
Selected(c) == IF c = "plain" THEN 1 ELSE 2

\* The client's header, answered with the choice of cipher and PadD.  The other
\* hash would give other keys.
ServerHeader ==
    LET header == Decrypt(IF hash["server"] = Wanted THEN "A" ELSE "other", dec["server"],
                          SubSeq(buf["server"], 1, 4))
        good == SubSeq(header, 1, 2) = Vc /\ header[3][1] = "crypto" /\
                CipherOf(header[3][2]) # "none"
    IN  /\ Take("server", "client header", 4, IF good THEN "pad, IA" ELSE "refused")
        /\ dec' = [dec EXCEPT !["server"] = @ + 4]
        /\ IF good
           THEN \E n \in Lens :
                LET crypto == Selected(CipherOf(header[3][2]))
                    reply == Vc \o <<<<"crypto", crypto>>, <<"len", n>>>> \o Pad(n)
                IN  /\ Put("server", Encrypt("B", 0, reply))
                    /\ enc' = [enc EXCEPT !["server"] = Len(reply)]
                    /\ cipher' = [cipher EXCEPT !["server"] = CipherOf(header[3][2])]
                    /\ pads' = [pads EXCEPT !["server"] = header[4][2]]
           ELSE UNCHANGED <<out, enc, cipher, pads>>
    /\ UNCHANGED <<mode, offer, lru, chan, part, hash, wrote, read>>

\* PadC, of an allowed length, and the length of the initial payload, 0.
ServerPad ==
    LET n == pads["server"]
    IN  /\ Take("server", "pad, IA", n + 1, IF n > MaxPad THEN "refused" ELSE "up")
        /\ dec' = [dec EXCEPT !["server"] = @ + Skipped(n) + 1]
    /\ UNCHANGED <<mode, offer, lru, out, chan, part, enc, cipher, hash, pads, wrote, read>>

PeNext ==
    \/ \E x \in Ends : Send(x) \/ Fill(x) \/ Broken(x)
    \/ ClientStart \/ ClientKey \/ ClientSync \/ ClientHeader \/ ClientPad
    \/ ServerFirst \/ ServerKey \/ ServerSync \/ ServerHash \/ ServerHeader \/ ServerPad

-----------------------------------------------------------------------------
(* The stream after the handshake *)

\* poll_write of s, encrypted once however often it is polled.
Write(x, s) ==
    /\ IF cipher[x] = "rc4"
       THEN /\ Put(x, Encrypt(SendKey(x), enc[x], s))
            /\ enc' = [enc EXCEPT ![x] = @ + Len(s)]
       ELSE Put(x, Plain(s)) /\ UNCHANGED enc
    /\ wrote' = [wrote EXCEPT ![x] = @ \o s]

\* poll_read: what the n first tokens of the buffer say.
Contents(x, n) ==
    IF cipher[x] = "rc4" THEN Decrypt(SendKey(Other(x)), dec[x], SubSeq(buf[x], 1, n))
    ELSE [i \in 1..n |-> buf[x][i][3]]

Consumed(x, n) ==
    /\ dec' = IF cipher[x] = "rc4" THEN [dec EXCEPT ![x] = @ + n] ELSE dec
    /\ read' = [read EXCEPT ![Other(x)] = @ \o Contents(x, n)]

-----------------------------------------------------------------------------
(* Properties *)

Shaking == {"start", "server key", "sync", "header", "pad",
            "first", "key", "hash2", "client header", "pad, IA"}

\* When both handshakes are over the two ends have the same cipher and, if they
\* encrypt, the same hash: nobody talks RC4 to one who reads plain text.
Agreed ==
    (\A x \in Ends : pc[x] \notin Shaking /\ ~Gone(x))
    => /\ cipher["client"] = cipher["server"]
       /\ mode = "pe" => hash["server"] = hash["client"] /\ cipher["client"] # "none"

\* A handshake of two ends of this code is refused only by a server that does not
\* know the hash, however reads split the marks and whatever the padding looks
\* like.
NeverRefused == \A x \in Ends : pc[x] = "refused" => x = "server" /\ Wanted \notin lru
=============================================================================
