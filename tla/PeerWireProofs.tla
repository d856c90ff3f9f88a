--------------------------- MODULE PeerWireProofs ---------------------------
(***************************************************************************)
(* Theorems about a connection to a peer, for any padding, capacity and    *)
(* number of messages: the handshakes of protocol encryption come through, *)
(* whatever is read ahead; each end reads what the other has written; a    *)
(* download that ends well has what it asked for.                          *)
(***************************************************************************)
EXTENDS PeerWire, SequenceTheorems, TLAPS

-----------------------------------------------------------------------------
(* Tokens *)

Name == {"key1", "key2", "hash1", "hash1+", "hash2", "vc", "vc+", "crypto", "len", "pad", "ia",
         "garbage", "BitTorrent protocol", "ext handshake", "ut request", "ut data",
         "keep-alive", "other", "todo", "invalid"}
Content == (Name \X (Nat \cup Hashes)) \cup (Hashes \X BOOLEAN) \cup (Name \X Nat \X Hashes)
Token == {"-", "A", "B"} \X Nat \X Content

LEMMA TagIsContent == \A name \in Name : Tag(name) \in Content
BY DEF Tag, Content

LEMMA NumberIsContent == \A name \in Name, k \in Nat : <<name, k>> \in Content
BY DEF Content

LEMMA ContentOfToken == \A t \in Token : t[3] \in Content
BY DEF Token

(* What is sent in plain text, token by token. *)
LEMMA PlainTokens ==
    ASSUME NEW s \in Seq(Content)
    PROVE  /\ Plain(s) \in Seq(Token) /\ Len(Plain(s)) = Len(s)
           /\ \A i \in 1..Len(s) : Plain(s)[i] = <<"-", 0, s[i]>>
<1>1. PICK n \in Nat : n = Len(s) /\ DOMAIN s = 1..n
  OBVIOUS
<1>2. \A i \in 1..n : <<"-", 0, s[i]>> \in Token
  BY <1>1 DEF Token
<1>3. Plain(s) = [i \in 1..n |-> <<"-", 0, s[i]>>]
  BY <1>1 DEF Plain
<1>4. Plain(s) \in [1..n -> Token]
  BY <1>2, <1>3
<1>5. Plain(s) \in Seq(Token)
  BY <1>4, SeqDef
<1>6. QED
  BY <1>1, <1>3, <1>4, <1>5, LenProperties

(* What is sent encrypted. *)
LEMMA EncryptedTokens ==
    ASSUME NEW key \in {"A", "B"}, NEW pos \in Nat, NEW s \in Seq(Content)
    PROVE  /\ Encrypt(key, pos, s) \in Seq(Token) /\ Len(Encrypt(key, pos, s)) = Len(s)
           /\ \A i \in 1..Len(s) : Encrypt(key, pos, s)[i] = <<key, pos + i, s[i]>>
<1>1. PICK n \in Nat : n = Len(s) /\ DOMAIN s = 1..n
  OBVIOUS
<1>2. \A i \in 1..n : <<key, pos + i, s[i]>> \in Token
  BY <1>1 DEF Token
<1>3. Encrypt(key, pos, s) = [i \in 1..n |-> <<key, pos + i, s[i]>>]
  BY <1>1 DEF Encrypt
<1>4. Encrypt(key, pos, s) \in [1..n -> Token]
  BY <1>2, <1>3
<1>5. Encrypt(key, pos, s) \in Seq(Token)
  BY <1>4, SeqDef
<1>6. QED
  BY <1>1, <1>3, <1>4, <1>5, LenProperties

(* What is read, whether it can be decrypted or not. *)
LEMMA DecryptedContents ==
    ASSUME NEW key, NEW pos \in Nat, NEW s \in Seq(Token)
    PROVE  /\ Decrypt(key, pos, s) \in Seq(Content) /\ Len(Decrypt(key, pos, s)) = Len(s)
           /\ \A i \in 1..Len(s) : Decrypt(key, pos, s)[i] =
                  IF s[i][1] = key /\ s[i][2] = pos + i THEN s[i][3] ELSE Garbage
<1>1. PICK n \in Nat : n = Len(s) /\ DOMAIN s = 1..n
  OBVIOUS
<1>2. Garbage \in Content
  <2>1. "garbage" \in Name
    BY DEF Name
  <2>2. Garbage = Tag("garbage")
    BY DEF Garbage, Tag
  <2>3. QED
    BY <2>1, <2>2, TagIsContent
<1>3. \A i \in 1..n : s[i][3] \in Content
  BY <1>1, ContentOfToken
<1>4. Decrypt(key, pos, s) = [i \in 1..n |-> IF s[i][1] = key /\ s[i][2] = pos + i THEN s[i][3] ELSE Garbage]
  BY <1>1 DEF Decrypt
<1>5. Decrypt(key, pos, s) \in [1..n -> Content]
  BY <1>2, <1>3, <1>4
<1>6. Decrypt(key, pos, s) \in Seq(Content)
  BY <1>5, SeqDef
<1>7. QED
  BY <1>1, <1>4, <1>5, <1>6, LenProperties

-----------------------------------------------------------------------------
(* What is on its way to x *)

Joined(a, b, c, d) == a \o b \o c \o d

\* All tokens that x has still to take, or has set aside while it synchronises.
Line(x) == Joined(part[x], buf[x], chan[x], out[Other(x)])

\* The elements of four sequences, one after the other.
InRow(a, b, c, d, i) ==
    IF i <= Len(a) THEN a[i]
    ELSE IF i <= Len(a) + Len(b) THEN b[i - Len(a)]
    ELSE IF i <= Len(a) + Len(b) + Len(c) THEN c[i - Len(a) - Len(b)]
    ELSE d[i - Len(a) - Len(b) - Len(c)]

LEMMA Row ==
    ASSUME NEW S, NEW a \in Seq(S), NEW b \in Seq(S), NEW c \in Seq(S), NEW d \in Seq(S)
    PROVE  /\ Joined(a, b, c, d) \in Seq(S)
           /\ Len(Joined(a, b, c, d)) = Len(a) + Len(b) + Len(c) + Len(d)
           /\ \A i \in 1..(Len(a) + Len(b) + Len(c) + Len(d)) :
                  Joined(a, b, c, d)[i] = InRow(a, b, c, d, i)
<1>1. PICK la \in Nat, lb \in Nat, lc \in Nat, ld \in Nat :
          la = Len(a) /\ lb = Len(b) /\ lc = Len(c) /\ ld = Len(d)
  OBVIOUS
<1>2. PICK ab : ab = a \o b
  OBVIOUS
<1>3. /\ ab \in Seq(S) /\ Len(ab) = la + lb
      /\ \A i \in 1..(la + lb) : ab[i] = IF i <= la THEN a[i] ELSE b[i - la]
  BY <1>1, <1>2, ConcatProperties
<1>4. PICK abc : abc = ab \o c
  OBVIOUS
<1>5. /\ abc \in Seq(S) /\ Len(abc) = la + lb + lc
      /\ \A i \in 1..(la + lb + lc) : abc[i] = IF i <= la + lb THEN ab[i] ELSE c[i - (la + lb)]
  <2>1. /\ ab \o c \in Seq(S) /\ Len(ab \o c) = Len(ab) + Len(c)
        /\ \A i \in 1..(Len(ab) + Len(c)) :
               (ab \o c)[i] = IF i <= Len(ab) THEN ab[i] ELSE c[i - Len(ab)]
    BY <1>3, ConcatProperties
  <2>2. QED
    BY <1>1, <1>3, <1>4, <2>1
<1>6. PICK abcd : abcd = abc \o d
  OBVIOUS
<1>7. /\ abcd \in Seq(S) /\ Len(abcd) = la + lb + lc + ld
      /\ \A i \in 1..(la + lb + lc + ld) :
             abcd[i] = IF i <= la + lb + lc THEN abc[i] ELSE d[i - (la + lb + lc)]
  <2>1. /\ abc \o d \in Seq(S) /\ Len(abc \o d) = Len(abc) + Len(d)
        /\ \A i \in 1..(Len(abc) + Len(d)) :
               (abc \o d)[i] = IF i <= Len(abc) THEN abc[i] ELSE d[i - Len(abc)]
    BY <1>5, ConcatProperties
  <2>2. QED
    BY <1>1, <1>5, <1>6, <2>1
<1>8. ASSUME NEW i \in 1..(la + lb + lc + ld)
      PROVE  abcd[i] = InRow(a, b, c, d, i)
  <2>1. CASE i <= la
    BY <1>1, <1>3, <1>5, <1>7, <2>1 DEF InRow
  <2>2. CASE i > la /\ i <= la + lb
    BY <1>1, <1>3, <1>5, <1>7, <2>2 DEF InRow
  <2>3. CASE i > la + lb /\ i <= la + lb + lc
    <3>1. i - (la + lb) = i - la - lb
      BY <1>1
    <3>2. abcd[i] = abc[i] /\ abc[i] = c[i - (la + lb)]
      BY <1>1, <1>5, <1>7, <2>3
    <3>3. InRow(a, b, c, d, i) = c[i - la - lb]
      BY <1>1, <2>3 DEF InRow
    <3>4. QED
      BY <3>1, <3>2, <3>3
  <2>4. CASE i > la + lb + lc
    <3>1. i - (la + lb + lc) = i - la - lb - lc
      BY <1>1
    <3>2. QED
      BY <1>1, <1>7, <2>4, <3>1 DEF InRow
  <2>5. QED
    BY <1>1, <2>1, <2>2, <2>3, <2>4
<1>9. abcd = Joined(a, b, c, d)
  BY <1>2, <1>4, <1>6 DEF Joined
<1>10. QED
  BY <1>1, <1>7, <1>8, <1>9

(* What goes from the end of one to the beginning of its neighbour leaves the *)
(* row as it is.                                                              *)
LEMMA Shifted ==
    ASSUME NEW S, NEW a \in Seq(S), NEW b \in Seq(S), NEW n \in 0..Len(b)
    PROVE  /\ SubSeq(b, 1, n) \in Seq(S) /\ SubSeq(b, n + 1, Len(b)) \in Seq(S)
           /\ (a \o SubSeq(b, 1, n)) \o SubSeq(b, n + 1, Len(b)) = a \o b
<1>1. PICK m \in Nat : m = Len(b)
  OBVIOUS
<1>2. PICK l, r : l = SubSeq(b, 1, n) /\ r = SubSeq(b, n + 1, m)
  OBVIOUS
<1>3. \A i \in 1..m : b[i] \in S
  BY <1>1
<1>4. l \in Seq(S)
  <2>1. 1 \in Int /\ n \in Int /\ \A i \in 1..n : b[i] \in S
    BY <1>1, <1>3
  <2>2. QED
    BY <1>2, <2>1, SubSeqProperties
<1>5. r \in Seq(S)
  <2>1. n + 1 \in Int /\ m \in Int /\ \A i \in (n + 1)..m : b[i] \in S
    BY <1>1, <1>3
  <2>2. QED
    BY <1>2, <2>1, SubSeqProperties
<1>6. l \o r = b
  <2>1. 1 \in 1..(Len(b) + 1) /\ n \in (1 - 1)..Len(b) /\ m \in n..Len(b)
    BY <1>1
  <2>2. SubSeq(b, 1, n) \o SubSeq(b, n + 1, m) = SubSeq(b, 1, m)
    BY <2>1, ConcatAdjacentSubSeq
  <2>3. SubSeq(b, 1, m) = b
    BY <1>1, SubSeqFull
  <2>4. QED
    BY <1>2, <2>2, <2>3
<1>7. (a \o l) \o r = a \o b
  <2>1. (a \o l) \o r = a \o (l \o r)
    BY <1>4, <1>5, ConcatAssociative
  <2>2. QED
    BY <1>6, <2>1
<1>8. QED
  BY <1>1, <1>2, <1>4, <1>5, <1>7
(* Three of them. *)
LEMMA RowOfThree ==
    ASSUME NEW S, NEW a \in Seq(S), NEW b \in Seq(S), NEW c \in Seq(S)
    PROVE  /\ a \o b \o c \in Seq(S) /\ Len(a \o b \o c) = Len(a) + Len(b) + Len(c)
           /\ \A i \in 1..(Len(a) + Len(b) + Len(c)) :
                  (a \o b \o c)[i] = InRow(a, b, c, << >>, i)
<1>1. << >> \in Seq(S) /\ Len(<< >>) = 0
  BY EmptySeq
<1>2. a \o b \o c \in Seq(S)
  <2>1. a \o b \in Seq(S)
    BY ConcatProperties
  <2>2. QED
    BY <2>1, ConcatProperties
<1>3. Joined(a, b, c, << >>) = a \o b \o c
  BY <1>2, ConcatEmptySeq DEF Joined
<1>4. /\ Len(Joined(a, b, c, << >>)) = Len(a) + Len(b) + Len(c) + Len(<< >>)
      /\ \A i \in 1..(Len(a) + Len(b) + Len(c) + Len(<< >>)) :
             Joined(a, b, c, << >>)[i] = InRow(a, b, c, << >>, i)
  <2>1. \A d \in Seq(S) :
            /\ Len(Joined(a, b, c, d)) = Len(a) + Len(b) + Len(c) + Len(d)
            /\ \A i \in 1..(Len(a) + Len(b) + Len(c) + Len(d)) :
                   Joined(a, b, c, d)[i] = InRow(a, b, c, d, i)
    BY Row
  <2>2. QED
    BY <1>1, <2>1
<1>5. Len(a) + Len(b) + Len(c) + Len(<< >>) = Len(a) + Len(b) + Len(c)
  BY <1>1
<1>6. QED
  BY <1>2, <1>3, <1>4, <1>5

-----------------------------------------------------------------------------
(* What the handshakes send *)

VcB == Encrypt("B", 0, Vc)

\* How much padding comes before a mark.
Pads == {n \in Nat : n < MaxPad}

LEMMA VcContents == Vc \in Seq(Content) /\ Len(Vc) = 2 /\ Vc[1] = Tag("vc") /\ Vc[2] = Tag("vc+")
<1>1. Tag("vc") \in Content /\ Tag("vc+") \in Content
  BY TagIsContent DEF Name
<1>2. QED
  BY <1>1 DEF Vc

\* Two plain tokens.
LEMMA PlainPair ==
    ASSUME NEW a \in Content, NEW b \in Content
    PROVE  /\ Plain(<<a, b>>) \in Seq(Token) /\ Len(Plain(<<a, b>>)) = 2
           /\ Plain(<<a, b>>)[1] = <<"-", 0, a>> /\ Plain(<<a, b>>)[2] = <<"-", 0, b>>
<1>1. <<a, b>> \in Seq(Content) /\ Len(<<a, b>>) = 2 /\ <<a, b>>[1] = a /\ <<a, b>>[2] = b
  OBVIOUS
<1>2. 1 \in 1..2 /\ 2 \in 1..2
  OBVIOUS
<1>3. /\ Plain(<<a, b>>) \in Seq(Token) /\ Len(Plain(<<a, b>>)) = Len(<<a, b>>)
      /\ \A i \in 1..Len(<<a, b>>) : Plain(<<a, b>>)[i] = <<"-", 0, <<a, b>>[i]>>
  BY <1>1, PlainTokens
<1>4. QED
  BY <1>1, <1>2, <1>3

LEMMA Marks ==
    /\ Key \in Seq(Token) /\ Len(Key) = 2 /\ Key[1] = <<"-", 0, Tag("key1")>>
    /\ Hash1 \in Seq(Token) /\ Len(Hash1) = 2
    /\ Hash1[1] = <<"-", 0, Tag("hash1")>> /\ Hash1[2] = <<"-", 0, Tag("hash1+")>>
    /\ VcB \in Seq(Token) /\ Len(VcB) = 2
    /\ VcB[1] = <<"B", 1, Tag("vc")>> /\ VcB[2] = <<"B", 2, Tag("vc+")>>
<1>1. \A name \in {"key1", "key2", "hash1", "hash1+"} : Tag(name) \in Content
  BY TagIsContent DEF Name
<1>2. Key \in Seq(Token) /\ Len(Key) = 2 /\ Key[1] = <<"-", 0, Tag("key1")>>
  BY <1>1, PlainPair DEF Key
<1>3. /\ Hash1 \in Seq(Token) /\ Len(Hash1) = 2
      /\ Hash1[1] = <<"-", 0, Tag("hash1")>> /\ Hash1[2] = <<"-", 0, Tag("hash1+")>>
  BY <1>1, PlainPair DEF Hash1
<1>4. /\ VcB \in Seq(Token) /\ Len(VcB) = Len(Vc)
      /\ \A i \in 1..Len(Vc) : VcB[i] = <<"B", 0 + i, Vc[i]>>
  BY VcContents, EncryptedTokens DEF VcB
<1>5. QED
  BY <1>2, <1>3, <1>4, VcContents

LEMMA PadContents ==
    ASSUME NEW n \in Nat
    PROVE  Pad(n) \in Seq(Content) /\ Len(Pad(n)) = n /\ \A i \in 1..n : Pad(n)[i] = Tag("pad")
<1>1. Tag("pad") \in Content
  BY TagIsContent DEF Name
<1>2. Pad(n) \in [1..n -> Content] /\ \A i \in 1..n : Pad(n)[i] = Tag("pad")
  BY <1>1 DEF Pad
<1>3. Pad(n) \in Seq(Content)
  BY <1>2, SeqDef
<1>4. QED
  BY <1>2, <1>3, LenProperties

\* In the padding before it there is no end of a mark.
LEMMA PadHasNoMark ==
    ASSUME NEW mark \in {Hash1, VcB}, NEW pad \in PadBefore(mark)
    PROVE  pad \in Seq(Token) /\ Len(pad) \in Pads /\ \A i \in 1..Len(pad) : pad[i] # mark[2]
<1>1. /\ mark[1] \in Token /\ mark[1] # mark[2]
      /\ mark[2] # <<"-", 0, Tag("pad")>>
  <2>1. CASE mark = Hash1
    <3>1. Hash1[1] \in Token
      <4>1. Hash1 \in Seq(Token) /\ 1 \in 1..Len(Hash1)
        BY Marks
      <4>2. QED
        BY <4>1, ElementOfSeq
    <3>2. QED
      BY <2>1, <3>1, Marks DEF Tag
  <2>2. CASE mark = VcB
    <3>1. VcB[1] \in Token
      <4>1. VcB \in Seq(Token) /\ 1 \in 1..Len(VcB)
        BY Marks
      <4>2. QED
        BY <4>1, ElementOfSeq
    <3>2. QED
      BY <2>2, <3>1, Marks DEF Tag
  <2>3. QED
    BY <2>1, <2>2
<1>2. ASSUME NEW n \in Nat
      PROVE  /\ Plain(Pad(n)) \in Seq(Token) /\ Len(Plain(Pad(n))) = n
             /\ \A i \in 1..n : Plain(Pad(n))[i] = <<"-", 0, Tag("pad")>>
  <2>1. /\ Plain(Pad(n)) \in Seq(Token) /\ Len(Plain(Pad(n))) = Len(Pad(n))
        /\ \A i \in 1..Len(Pad(n)) : Plain(Pad(n))[i] = <<"-", 0, Pad(n)[i]>>
    BY PadContents, PlainTokens
  <2>2. QED
    BY <2>1, PadContents
<1>3. CASE \E n \in Lens \ {MaxPad} : pad = Plain(Pad(n))
  <2>1. PICK n \in Lens \ {MaxPad} : pad = Plain(Pad(n))
    BY <1>3
  <2>2. n \in Nat /\ n < MaxPad
    BY PeStreamAssumption
  <2>3. QED
    BY <1>1, <1>2, <2>1, <2>2 DEF Pads
<1>4. CASE \E n \in Lens \ {0, MaxPad} : pad = Append(Plain(Pad(n - 1)), mark[1])
  <2>1. PICK n \in Lens \ {0, MaxPad} : pad = Append(Plain(Pad(n - 1)), mark[1])
    BY <1>4
  <2>2. n \in Nat /\ n < MaxPad /\ n - 1 \in Nat
    BY PeStreamAssumption
  <2>3. PICK m, s : m \in Nat /\ m = n - 1 /\ s = Plain(Pad(m)) /\ pad = Append(s, mark[1])
    BY <2>1, <2>2
  <2>4. s \in Seq(Token) /\ Len(s) = m /\ \A i \in 1..m : s[i] = <<"-", 0, Tag("pad")>>
    BY <1>2, <2>3
  <2>5. /\ pad \in Seq(Token) /\ Len(pad) = m + 1 /\ pad[m + 1] = mark[1]
        /\ \A i \in 1..m : pad[i] = s[i]
    <3>1. /\ Append(s, mark[1]) \in Seq(Token) /\ Len(Append(s, mark[1])) = Len(s) + 1
          /\ \A i \in 1..Len(s) : Append(s, mark[1])[i] = s[i]
          /\ Append(s, mark[1])[Len(s) + 1] = mark[1]
      BY <1>1, <2>4, AppendProperties
    <3>2. QED
      BY <2>3, <2>4, <3>1
  <2>6. \A i \in 1..(m + 1) : pad[i] # mark[2]
    BY <1>1, <2>4, <2>5
  <2>7. QED
    BY <2>2, <2>3, <2>5, <2>6 DEF Pads
<1>5. QED
  BY <1>3, <1>4 DEF PadBefore
\* The client's header with padding of n, and what it sends before it; the server's
\* reply.
ClientHeaderOf(n) == Vc \o <<<<"crypto", offer>>, <<"len", n>>>> \o Pad(n) \o <<<<"ia", 0>>>>
HashAndHeader(n) == Hash1 \o Plain(<<<<"hash2", Wanted>>>>) \o Encrypt("A", 0, ClientHeaderOf(n))
ServerReply(c, n) == Vc \o <<<<"crypto", c>>, <<"len", n>>>> \o Pad(n)

LEMMA ClientHeaderContents ==
    ASSUME NEW n \in Nat, offer \in 1..3
    PROVE  LET h == ClientHeaderOf(n)
           IN  /\ h \in Seq(Content) /\ Len(h) = n + 5
               /\ h[1] = Tag("vc") /\ h[2] = Tag("vc+")
               /\ h[3] = <<"crypto", offer>> /\ h[4] = <<"len", n>>
<1>1. PICK a, b, c, d : /\ a = Vc /\ b = <<<<"crypto", offer>>, <<"len", n>>>>
                        /\ c = Pad(n) /\ d = <<<<"ia", 0>>>>
  OBVIOUS
<1>2. /\ <<"crypto", offer>> \in Content /\ <<"len", n>> \in Content /\ <<"ia", 0>> \in Content
  <2>1. offer \in Nat /\ 0 \in Nat /\ {"crypto", "len", "ia"} \subseteq Name
    BY DEF Name
  <2>2. QED
    BY <2>1, NumberIsContent
<1>3. /\ a \in Seq(Content) /\ Len(a) = 2 /\ a[1] = Tag("vc") /\ a[2] = Tag("vc+")
  BY <1>1, VcContents
<1>4. /\ b \in Seq(Content) /\ Len(b) = 2 /\ b[1] = <<"crypto", offer>> /\ b[2] = <<"len", n>>
  BY <1>1, <1>2
<1>5. c \in Seq(Content) /\ Len(c) = n
  BY <1>1, PadContents
<1>6. d \in Seq(Content) /\ Len(d) = 1
  BY <1>1, <1>2
<1>7. PICK h : h = Joined(a, b, c, d)
  OBVIOUS
<1>8. /\ h \in Seq(Content) /\ Len(h) = Len(a) + Len(b) + Len(c) + Len(d)
      /\ \A i \in 1..(Len(a) + Len(b) + Len(c) + Len(d)) : h[i] = InRow(a, b, c, d, i)
  <2>1. /\ Joined(a, b, c, d) \in Seq(Content)
        /\ Len(Joined(a, b, c, d)) = Len(a) + Len(b) + Len(c) + Len(d)
        /\ \A i \in 1..(Len(a) + Len(b) + Len(c) + Len(d)) :
               Joined(a, b, c, d)[i] = InRow(a, b, c, d, i)
    <3>1. a \in Seq(Content) /\ b \in Seq(Content) /\ c \in Seq(Content) /\ d \in Seq(Content)
      BY <1>3, <1>4, <1>5, <1>6
    <3>2. QED
      BY ONLY <3>1, Row
  <2>2. QED
    BY <1>7, <2>1
<1>9. Len(a) + Len(b) + Len(c) + Len(d) = n + 5
  BY <1>3, <1>4, <1>5, <1>6
<1>10. /\ InRow(a, b, c, d, 1) = a[1] /\ InRow(a, b, c, d, 2) = a[2]
       /\ InRow(a, b, c, d, 3) = b[1] /\ InRow(a, b, c, d, 4) = b[2]
  BY <1>3, <1>4 DEF InRow
<1>11. 1 \in 1..(n + 5) /\ 2 \in 1..(n + 5) /\ 3 \in 1..(n + 5) /\ 4 \in 1..(n + 5)
  OBVIOUS
<1>12. h = ClientHeaderOf(n)
  BY <1>1, <1>7 DEF ClientHeaderOf, Joined
<1>13. QED
  BY <1>3, <1>4, <1>8, <1>9, <1>10, <1>11, <1>12

LEMMA HashAndHeaderTokens ==
    ASSUME NEW n \in Nat, offer \in 1..3
    PROVE  LET h == HashAndHeader(n)
           IN  /\ h \in Seq(Token) /\ Len(h) = n + 8
               /\ h[1] = Hash1[1] /\ h[2] = Hash1[2] /\ h[3] = <<"-", 0, <<"hash2", Wanted>>>>
               /\ h[4] = <<"A", 1, Tag("vc")>> /\ h[5] = <<"A", 2, Tag("vc+")>>
               /\ h[6] = <<"A", 3, <<"crypto", offer>>>> /\ h[7] = <<"A", 4, <<"len", n>>>>
<1>1. PICK a, b, c : /\ a = Hash1 /\ b = Plain(<<<<"hash2", Wanted>>>>)
                     /\ c = Encrypt("A", 0, ClientHeaderOf(n))
  OBVIOUS
<1>2. a \in Seq(Token) /\ Len(a) = 2
  BY <1>1, Marks
<1>3. b \in Seq(Token) /\ Len(b) = 1 /\ b[1] = <<"-", 0, <<"hash2", Wanted>>>>
  <2>1. PICK w : w = <<<<"hash2", Wanted>>>>
    OBVIOUS
  <2>2. <<"hash2", Wanted>> \in Content
    BY PeStreamAssumption DEF Content, Name
  <2>3. w \in Seq(Content) /\ Len(w) = 1 /\ w[1] = <<"hash2", Wanted>> /\ 1 \in 1..1
    BY <2>1, <2>2
  <2>4. Plain(w) \in Seq(Token) /\ Len(Plain(w)) = Len(w) /\ \A i \in 1..Len(w) : Plain(w)[i] = <<"-", 0, w[i]>>
    BY <2>3, PlainTokens
  <2>5. QED
    BY <1>1, <2>1, <2>3, <2>4
<1>4. PICK g : g = ClientHeaderOf(n)
  OBVIOUS
<1>5. /\ g \in Seq(Content) /\ Len(g) = n + 5 /\ g[1] = Tag("vc") /\ g[2] = Tag("vc+")
      /\ g[3] = <<"crypto", offer>> /\ g[4] = <<"len", n>>
  BY <1>4, ClientHeaderContents
<1>6. c \in Seq(Token) /\ Len(c) = n + 5 /\ \A i \in 1..(n + 5) : c[i] = <<"A", 0 + i, g[i]>>
  <2>1. /\ Encrypt("A", 0, g) \in Seq(Token) /\ Len(Encrypt("A", 0, g)) = Len(g)
        /\ \A i \in 1..Len(g) : Encrypt("A", 0, g)[i] = <<"A", 0 + i, g[i]>>
    BY <1>5, EncryptedTokens
  <2>2. QED
    BY <1>1, <1>4, <1>5, <2>1
<1>7. /\ c[1] = <<"A", 1, Tag("vc")>> /\ c[2] = <<"A", 2, Tag("vc+")>>
      /\ c[3] = <<"A", 3, <<"crypto", offer>>>> /\ c[4] = <<"A", 4, <<"len", n>>>>
  <2>1. 1 \in 1..(n + 5) /\ 2 \in 1..(n + 5) /\ 3 \in 1..(n + 5) /\ 4 \in 1..(n + 5)
    OBVIOUS
  <2>2. /\ c[1] = <<"A", 0 + 1, g[1]>> /\ c[2] = <<"A", 0 + 2, g[2]>>
        /\ c[3] = <<"A", 0 + 3, g[3]>> /\ c[4] = <<"A", 0 + 4, g[4]>>
    BY <1>6, <2>1
  <2>3. QED
    BY <1>5, <2>2
<1>8. PICK h : h = a \o b \o c
  OBVIOUS
<1>9. /\ h \in Seq(Token) /\ Len(h) = Len(a) + Len(b) + Len(c)
      /\ \A i \in 1..(Len(a) + Len(b) + Len(c)) : h[i] = InRow(a, b, c, << >>, i)
  <2>1. /\ a \o b \o c \in Seq(Token) /\ Len(a \o b \o c) = Len(a) + Len(b) + Len(c)
        /\ \A i \in 1..(Len(a) + Len(b) + Len(c)) :
               (a \o b \o c)[i] = InRow(a, b, c, << >>, i)
    <3>1. a \in Seq(Token) /\ b \in Seq(Token) /\ c \in Seq(Token)
      BY <1>2, <1>3, <1>6
    <3>2. QED
      BY ONLY <3>1, RowOfThree
  <2>2. QED
    BY <1>8, <2>1
<1>10. Len(a) + Len(b) + Len(c) = n + 8
  BY <1>2, <1>3, <1>6
<1>11. /\ InRow(a, b, c, << >>, 1) = a[1] /\ InRow(a, b, c, << >>, 2) = a[2]
       /\ InRow(a, b, c, << >>, 3) = b[1]
  BY <1>2, <1>3 DEF InRow
<1>12. /\ InRow(a, b, c, << >>, 4) = c[1] /\ InRow(a, b, c, << >>, 5) = c[2]
       /\ InRow(a, b, c, << >>, 6) = c[3] /\ InRow(a, b, c, << >>, 7) = c[4]
  BY <1>2, <1>3, <1>6 DEF InRow
<1>13. \A i \in {1, 2, 3, 4, 5, 6, 7} : i \in 1..(n + 8)
  OBVIOUS
<1>14. h = HashAndHeader(n)
  BY <1>1, <1>8 DEF HashAndHeader
<1>15. QED
  BY <1>1, <1>3, <1>7, <1>9, <1>10, <1>11, <1>12, <1>13, <1>14

LEMMA ServerReplyTokens ==
    ASSUME NEW n \in Nat, NEW c \in {1, 2}
    PROVE  LET h == Encrypt("B", 0, ServerReply(c, n))
           IN  /\ Len(ServerReply(c, n)) = n + 4
               /\ h \in Seq(Token) /\ Len(h) = n + 4 /\ h[1] = VcB[1] /\ h[2] = VcB[2]
               /\ h[3] = <<"B", 3, <<"crypto", c>>>> /\ h[4] = <<"B", 4, <<"len", n>>>>
<1>1. PICK a, b, p : /\ a = Vc /\ b = <<<<"crypto", c>>, <<"len", n>>>> /\ p = Pad(n)
  OBVIOUS
<1>2. /\ <<"crypto", c>> \in Content /\ <<"len", n>> \in Content
  <2>1. c \in Nat /\ {"crypto", "len"} \subseteq Name
    BY DEF Name
  <2>2. QED
    BY <2>1, NumberIsContent
<1>3. /\ a \in Seq(Content) /\ Len(a) = 2 /\ a[1] = Tag("vc") /\ a[2] = Tag("vc+")
  BY <1>1, VcContents
<1>4. /\ b \in Seq(Content) /\ Len(b) = 2 /\ b[1] = <<"crypto", c>> /\ b[2] = <<"len", n>>
  BY <1>1, <1>2
<1>5. p \in Seq(Content) /\ Len(p) = n
  BY <1>1, PadContents
<1>6. PICK g : g = a \o b \o p
  OBVIOUS
<1>7. /\ g \in Seq(Content) /\ Len(g) = Len(a) + Len(b) + Len(p)
      /\ \A i \in 1..(Len(a) + Len(b) + Len(p)) : g[i] = InRow(a, b, p, << >>, i)
  <2>1. /\ a \o b \o p \in Seq(Content) /\ Len(a \o b \o p) = Len(a) + Len(b) + Len(p)
        /\ \A i \in 1..(Len(a) + Len(b) + Len(p)) :
               (a \o b \o p)[i] = InRow(a, b, p, << >>, i)
    <3>1. a \in Seq(Content) /\ b \in Seq(Content) /\ p \in Seq(Content)
      BY <1>3, <1>4, <1>5
    <3>2. QED
      BY ONLY <3>1, RowOfThree
  <2>2. QED
    BY <1>6, <2>1
<1>8. Len(a) + Len(b) + Len(p) = n + 4
  BY <1>3, <1>4, <1>5
<1>9. /\ InRow(a, b, p, << >>, 1) = a[1] /\ InRow(a, b, p, << >>, 2) = a[2]
      /\ InRow(a, b, p, << >>, 3) = b[1] /\ InRow(a, b, p, << >>, 4) = b[2]
  BY <1>3, <1>4 DEF InRow
<1>10. \A i \in {1, 2, 3, 4} : i \in 1..(n + 4)
  OBVIOUS
<1>11. /\ Len(g) = n + 4 /\ g[1] = Tag("vc") /\ g[2] = Tag("vc+")
       /\ g[3] = <<"crypto", c>> /\ g[4] = <<"len", n>>
  BY <1>3, <1>4, <1>7, <1>8, <1>9, <1>10
<1>12. PICK h : h = Encrypt("B", 0, g)
  OBVIOUS
<1>13. h \in Seq(Token) /\ Len(h) = n + 4 /\ \A i \in 1..(n + 4) : h[i] = <<"B", 0 + i, g[i]>>
  <2>1. /\ Encrypt("B", 0, g) \in Seq(Token) /\ Len(Encrypt("B", 0, g)) = Len(g)
        /\ \A i \in 1..Len(g) : Encrypt("B", 0, g)[i] = <<"B", 0 + i, g[i]>>
    BY <1>7, EncryptedTokens
  <2>2. QED
    BY <1>11, <1>12, <2>1
<1>14. /\ h[1] = <<"B", 1, Tag("vc")>> /\ h[2] = <<"B", 2, Tag("vc+")>>
       /\ h[3] = <<"B", 3, <<"crypto", c>>>> /\ h[4] = <<"B", 4, <<"len", n>>>>
  <2>1. /\ h[1] = <<"B", 0 + 1, g[1]>> /\ h[2] = <<"B", 0 + 2, g[2]>>
        /\ h[3] = <<"B", 0 + 3, g[3]>> /\ h[4] = <<"B", 0 + 4, g[4]>>
    BY <1>10, <1>13
  <2>2. QED
    BY <1>11, <2>1
<1>15. g = ServerReply(c, n)
  BY <1>1, <1>6 DEF ServerReply
<1>16. QED
  BY <1>11, <1>12, <1>13, <1>14, <1>15, Marks

-----------------------------------------------------------------------------
(* What becomes of the line *)

\* t is s without its n first.
Drops(s, n, t) == n <= Len(s) /\ Len(t) = Len(s) - n /\ \A i \in 1..Len(t) : t[i] = s[n + i]

(* A row whose first is empty. *)
LEMMA RowFromSecond ==
    ASSUME NEW S, NEW b \in Seq(S), NEW c \in Seq(S), NEW d \in Seq(S)
    PROVE  /\ Joined(<< >>, b, c, d) \in Seq(S)
           /\ Len(Joined(<< >>, b, c, d)) = Len(b) + Len(c) + Len(d)
           /\ \A i \in 1..(Len(b) + Len(c) + Len(d)) : Joined(<< >>, b, c, d)[i] = InRow(<< >>, b, c, d, i)
<1>1. PICK e : e = << >>
  OBVIOUS
<1>2. e \in Seq(S) /\ Len(e) = 0
  BY <1>1, EmptySeq
<1>3. \A a \in Seq(S) :
          /\ Joined(a, b, c, d) \in Seq(S)
          /\ Len(Joined(a, b, c, d)) = Len(a) + Len(b) + Len(c) + Len(d)
          /\ \A i \in 1..(Len(a) + Len(b) + Len(c) + Len(d)) :
                 Joined(a, b, c, d)[i] = InRow(a, b, c, d, i)
  BY Row
<1>4. Len(e) + Len(b) + Len(c) + Len(d) = Len(b) + Len(c) + Len(d)
  BY <1>2
<1>5. QED
  BY <1>1, <1>2, <1>3, <1>4

(* The first of the row are set aside or taken, and the buffer's rest remains. *)
LEMMA DropRow ==
    ASSUME NEW S, NEW a \in Seq(S), NEW b \in Seq(S), NEW c \in Seq(S), NEW d \in Seq(S),
           NEW n \in Nat, Len(a) <= n, n <= Len(a) + Len(b)
    PROVE  LET r == SubSeq(b, n + 1 - Len(a), Len(b))
           IN  r \in Seq(S) /\ Drops(Joined(a, b, c, d), n, Joined(<< >>, r, c, d))
<1>1. PICK la \in Nat, lb \in Nat, lc \in Nat, ld \in Nat :
          la = Len(a) /\ lb = Len(b) /\ lc = Len(c) /\ ld = Len(d)
  OBVIOUS
<1>2. PICK m \in Nat, k \in Nat : n = la + m /\ lb = m + k
  <2>1. n - la \in Nat /\ n = la + (n - la) /\ lb - (n - la) \in Nat /\ lb = (n - la) + (lb - (n - la))
    BY <1>1
  <2>2. QED
    BY <2>1
<1>3. PICK r : r = SubSeq(b, m + 1, lb)
  OBVIOUS
<1>4. r \in Seq(S) /\ Len(r) = k /\ \A i \in 1..k : r[i] = b[m + i]
  <2>1. \A i \in (m + 1)..lb : b[i] \in S
    BY <1>1
  <2>2. m + 1 \in Int /\ lb \in Int
    OBVIOUS
  <2>3. /\ SubSeq(b, m + 1, lb) \in Seq(S)
        /\ Len(SubSeq(b, m + 1, lb)) = IF m + 1 <= lb THEN lb - (m + 1) + 1 ELSE 0
        /\ \A i \in 1..(lb - (m + 1) + 1) : SubSeq(b, m + 1, lb)[i] = b[m + 1 + i - 1]
    BY ONLY <2>1, <2>2, SubSeqProperties
  <2>4. lb - (m + 1) + 1 = k /\ \A i \in Int : m + 1 + i - 1 = m + i
    BY <1>1, <1>2
  <2>5. QED
    <3>1. Len(r) = k
      <4>1. CASE k = 0
        BY <1>2, <1>3, <2>3, <4>1
      <4>2. CASE k > 0
        BY <1>2, <1>3, <2>3, <4>2
      <4>3. QED
        BY <1>2, <4>1, <4>2
    <3>2. ASSUME NEW i \in 1..k
          PROVE  r[i] = b[m + i]
      <4>1. i \in 1..(lb - (m + 1) + 1) /\ m + 1 + i - 1 = m + i
        BY <1>1, <1>2
      <4>2. QED
        BY <1>3, <2>3, <4>1
    <3>3. QED
      BY <1>3, <2>3, <3>1, <3>2
<1>5. PICK s, t, e : s = Joined(a, b, c, d) /\ e = << >> /\ t = Joined(e, r, c, d)
  OBVIOUS
<1>6. Len(s) = la + lb + lc + ld /\ \A i \in 1..(la + lb + lc + ld) : s[i] = InRow(a, b, c, d, i)
  <2>1. a \in Seq(S) /\ b \in Seq(S) /\ c \in Seq(S) /\ d \in Seq(S)
    OBVIOUS
  <2>2. /\ Len(Joined(a, b, c, d)) = Len(a) + Len(b) + Len(c) + Len(d)
        /\ \A i \in 1..(Len(a) + Len(b) + Len(c) + Len(d)) : Joined(a, b, c, d)[i] = InRow(a, b, c, d, i)
    BY ONLY <2>1, Row
  <2>3. QED
    BY <1>1, <1>5, <2>2
<1>7. e \in Seq(S) /\ Len(e) = 0
  BY <1>5, EmptySeq
<1>8. Len(t) = k + lc + ld
      /\ \A i \in 1..(k + lc + ld) : t[i] = InRow(e, r, c, d, i)
  <2>1. /\ Len(Joined(<< >>, r, c, d)) = Len(r) + Len(c) + Len(d)
        /\ \A i \in 1..(Len(r) + Len(c) + Len(d)) : Joined(<< >>, r, c, d)[i] = InRow(<< >>, r, c, d, i)
    <3>1. r \in Seq(S) /\ c \in Seq(S) /\ d \in Seq(S)
      BY <1>4
    <3>2. QED
      BY ONLY <3>1, RowFromSecond
  <2>2. QED
    BY <1>1, <1>4, <1>5, <2>1
<1>9. ASSUME NEW i \in 1..(k + lc + ld)
      PROVE  t[i] = s[n + i]
  <2>1. n + i \in 1..(la + lb + lc + ld) /\ n + i > la
    BY <1>1, <1>2
  <2>2. PICK p \in Int, j \in Int, o \in Nat : p = i /\ j = n + i /\ o = 0
    BY <1>1, <1>2
  <2>3. /\ o = Len(e) /\ k = Len(r)
        /\ p <= k => InRow(e, r, c, d, p) = r[p] /\ InRow(a, b, c, d, j) = b[m + p]
        /\ p > k /\ p <= k + lc => InRow(e, r, c, d, p) = c[p - k] /\ InRow(a, b, c, d, j) = c[p - k]
        /\ p > k + lc => InRow(e, r, c, d, p) = d[p - k - lc] /\ InRow(a, b, c, d, j) = d[p - k - lc]
    <3>1. o = Len(e) /\ k = Len(r)
      BY <1>4, <1>7, <2>2
    <3>2. PICK u : u = InRow(e, r, c, d, p)
      OBVIOUS
    <3>3. /\ o < p /\ p <= o + k => u = r[p - o]
          /\ o + k < p /\ p <= o + k + lc => u = c[p - o - k]
          /\ o + k + lc < p => u = d[p - o - k - lc]
      BY ONLY <1>1, <3>1, <3>2, p \in Int, o \in Nat, k \in Nat, lc \in Nat DEF InRow
    <3>4. PICK v : v = InRow(a, b, c, d, j)
      OBVIOUS
    <3>5. /\ la < j /\ j <= la + lb => v = b[j - la]
          /\ la + lb < j /\ j <= la + lb + lc => v = c[j - la - lb]
          /\ la + lb + lc < j => v = d[j - la - lb - lc]
      BY ONLY <1>1, <3>4, j \in Int, la \in Nat, lb \in Nat, lc \in Nat DEF InRow
    <3>6. /\ o < p /\ o + k = k /\ o + k + lc = k + lc
          /\ p - o = p /\ p - o - k = p - k /\ p - o - k - lc = p - k - lc
          /\ la < j /\ j - la = m + p /\ j - la - lb = p - k /\ j - la - lb - lc = p - k - lc
          /\ p <= k <=> j <= la + lb
          /\ p <= k + lc <=> j <= la + lb + lc
          /\ p > k <=> la + lb < j
          /\ p > k + lc <=> la + lb + lc < j
      BY ONLY <1>2, <2>2, p \in Int, j \in Int, o \in Nat, k \in Nat, lc \in Nat, la \in Nat, lb \in Nat,
              m \in Nat, n \in Nat, ld \in Nat, i \in 1..(k + lc + ld)
    <3>7. QED
      BY ONLY <3>1, <3>2, <3>3, <3>4, <3>5, <3>6, p \in Int, k \in Nat, lc \in Nat
  <2>4. t[p] = InRow(e, r, c, d, p) /\ s[j] = InRow(a, b, c, d, j)
    BY <1>6, <1>8, <2>1, <2>2
  <2>5. p <= k => r[p] = b[m + p]
    BY <1>2, <1>4, <2>2
  <2>6. t[p] = s[j]
    BY ONLY <2>3, <2>4, <2>5, p \in Int, k \in Nat, lc \in Nat
  <2>7. QED
    BY <2>2, <2>6
<1>10. n <= Len(s) /\ Len(t) = Len(s) - n
  <2>1. Len(s) = la + lb + lc + ld /\ Len(t) = k + lc + ld
    BY <1>6, <1>8
  <2>2. QED
    BY ONLY <1>2, <2>1, n \in Nat, la \in Nat, lb \in Nat, lc \in Nat, ld \in Nat, m \in Nat, k \in Nat
<1>11. Drops(s, n, t)
  BY <1>8, <1>9, <1>10 DEF Drops
<1>12. n + 1 - Len(a) = m + 1
  BY <1>1, <1>2
<1>13. QED
  BY <1>1, <1>3, <1>4, <1>5, <1>11, <1>12

(* Out of nothing: what is written goes to the end of the row. *)
Puts(s, e, t) ==
    /\ Len(t) = Len(s) + Len(e)
    /\ \A i \in 1..Len(s) : t[i] = s[i]
    /\ \A i \in 1..Len(e) : t[Len(s) + i] = e[i]

LEMMA PutRow ==
    ASSUME NEW S, NEW a \in Seq(S), NEW b \in Seq(S), NEW c \in Seq(S), NEW e \in Seq(S)
    PROVE  Puts(Joined(a, b, c, << >>), e, Joined(a, b, c, e))
<1>1. PICK s, t, z : s = a \o b \o c /\ t = Joined(a, b, c, e) /\ z = Joined(a, b, c, << >>)
  OBVIOUS
<1>2. s \in Seq(S)
  <2>1. a \o b \o c \in Seq(S)
    BY ONLY RowOfThree, a \in Seq(S), b \in Seq(S), c \in Seq(S)
  <2>2. QED
    BY <1>1, <2>1
<1>3. t = s \o e
  BY <1>1 DEF Joined
<1>4. z = s
  <2>1. z = s \o << >>
    BY <1>1 DEF Joined
  <2>2. QED
    BY <1>2, <2>1, ConcatEmptySeq
<1>5. /\ Len(s \o e) = Len(s) + Len(e)
      /\ \A i \in 1..(Len(s) + Len(e)) : (s \o e)[i] = IF i <= Len(s) THEN s[i] ELSE e[i - Len(s)]
  BY <1>2, ConcatProperties
<1>6. \A i \in 1..Len(s) : t[i] = s[i]
  BY <1>2, <1>3, <1>5
<1>7. ASSUME NEW i \in 1..Len(e)
      PROVE  t[Len(s) + i] = e[i]
  <2>1. PICK n \in Nat, m \in Nat : n = Len(s) /\ m = Len(e)
    BY <1>2
  <2>2. n + i \in 1..(n + m) /\ ~(n + i <= n) /\ n + i - n = i
    BY <2>1
  <2>3. QED
    BY <1>3, <1>5, <2>1, <2>2
<1>8. Puts(z, e, t)
  BY <1>3, <1>4, <1>5, <1>6, <1>7 DEF Puts
<1>9. QED
  BY <1>1, <1>8

Cat(x, y) == x \o y

LEMMA Associative == \A S : \A x, y, z \in Seq(S) : Cat(Cat(x, y), z) = Cat(x, Cat(y, z))
BY ConcatAssociative DEF Cat

LEMMA Regrouped ==
    ASSUME NEW S, NEW x \in Seq(S), NEW y \in Seq(S), NEW z \in Seq(S), NEW n \in 0..Len(z)
    PROVE  Cat(Cat(x, Cat(y, SubSeq(z, 1, n))), SubSeq(z, n + 1, Len(z))) = Cat(Cat(x, y), z)
<1>1. PICK l, r : l = SubSeq(z, 1, n) /\ r = SubSeq(z, n + 1, Len(z))
  OBVIOUS
<1>2. l \in Seq(S) /\ r \in Seq(S) /\ Cat(Cat(y, l), r) = Cat(y, z)
  BY <1>1, Shifted DEF Cat
<1>3. PICK yl : yl = Cat(y, l)
  OBVIOUS
<1>4. yl \in Seq(S)
  BY <1>2, <1>3, ConcatProperties DEF Cat
<1>5. Cat(Cat(x, yl), r) = Cat(x, Cat(yl, r))
  BY <1>2, <1>4, Associative
<1>6. Cat(Cat(x, y), z) = Cat(x, Cat(y, z))
  BY Associative
<1>7. QED
  BY <1>1, <1>2, <1>3, <1>5, <1>6

(* What moves along a row leaves it as it is. *)
LEMMA RowMoves ==
    ASSUME NEW S, NEW a \in Seq(S), NEW b \in Seq(S), NEW c \in Seq(S), NEW d \in Seq(S)
    PROVE  /\ \A n \in 0..Len(d) :
                  Joined(a, b, c \o SubSeq(d, 1, n), SubSeq(d, n + 1, Len(d))) = Joined(a, b, c, d)
           /\ \A n \in 0..Len(c) :
                  Joined(a, b \o SubSeq(c, 1, n), SubSeq(c, n + 1, Len(c)), d) = Joined(a, b, c, d)
           /\ Joined(a \o b, << >>, c, d) = Joined(a, b, c, d)
<1>1. \A w, x, y, z : Joined(w, x, y, z) = Cat(Cat(Cat(w, x), y), z)
  BY DEF Joined, Cat
<1>2. PICK ab : ab = Cat(a, b)
  OBVIOUS
<1>3. ab \in Seq(S)
  BY <1>2, ConcatProperties DEF Cat
<1>4. Cat(ab, << >>) = ab
  BY <1>3, ConcatEmptySeq DEF Cat
<1>5. ASSUME NEW n \in 0..Len(d)
      PROVE  Joined(a, b, Cat(c, SubSeq(d, 1, n)), SubSeq(d, n + 1, Len(d))) = Joined(a, b, c, d)
  <2>1. Cat(Cat(ab, Cat(c, SubSeq(d, 1, n))), SubSeq(d, n + 1, Len(d))) = Cat(Cat(ab, c), d)
    BY <1>3, Regrouped
  <2>2. QED
    BY <1>1, <1>2, <2>1
<1>6. ASSUME NEW n \in 0..Len(c)
      PROVE  Joined(a, Cat(b, SubSeq(c, 1, n)), SubSeq(c, n + 1, Len(c)), d) = Joined(a, b, c, d)
  <2>1. Cat(Cat(a, Cat(b, SubSeq(c, 1, n))), SubSeq(c, n + 1, Len(c))) = Cat(Cat(a, b), c)
    BY Regrouped
  <2>2. QED
    BY <1>1, <2>1
<1>7. Joined(Cat(a, b), << >>, c, d) = Joined(a, b, c, d)
  BY <1>1, <1>2, <1>4
<1>8. QED
  BY <1>5, <1>6, <1>7 DEF Cat

-----------------------------------------------------------------------------
(* What has been written and not been read, after k other tokens *)

Coded(key, pos, m) == IF key = "-" THEN <<"-", 0, m>> ELSE <<key, pos, m>>

Carried(s, k, w, r, key, from) ==
    /\ Len(s) = k + (Len(w) - Len(r))
    /\ \A i \in 1..(Len(w) - Len(r)) : s[k + i] = Coded(key, from + i, w[Len(r) + i])

(* Nothing yet. *)
LEMMA CarriedNone ==
    ASSUME NEW s, NEW k \in Nat, NEW key, NEW from
    PROVE  Carried(s, k, << >>, << >>, key, from) <=> Len(s) = k
<1>1. PICK e : e = << >>
  OBVIOUS
<1>2. Len(e) = 0
  BY <1>1
<1>3. Len(e) - Len(e) = 0 /\ k + (Len(e) - Len(e)) = k
  BY <1>2
<1>4. Carried(s, k, e, e, key, from) <=> Len(s) = k
  BY <1>3 DEF Carried
<1>5. QED
  BY <1>1, <1>4

LEMMA CarriedDrop ==
    ASSUME NEW s \in Seq(Token), NEW t \in Seq(Token), NEW k \in Nat, NEW w \in Seq(Content),
           NEW r \in Seq(Content), NEW key, NEW from, NEW n \in 0..k,
           Len(r) <= Len(w), Carried(s, k, w, r, key, from), Drops(s, n, t)
    PROVE  Carried(t, k - n, w, r, key, from)
<1>1. PICK u \in Nat, lr \in Nat : u = Len(w) - Len(r) /\ lr = Len(r)
  <2>1. Len(w) \in Nat /\ Len(r) \in Nat
    OBVIOUS
  <2>2. Len(w) - Len(r) \in Nat
    BY <2>1
  <2>3. QED
    BY <2>1, <2>2
<1>2. Len(s) = k + u /\ \A i \in 1..u : s[k + i] = Coded(key, from + i, w[lr + i])
  BY <1>1 DEF Carried
<1>3. Len(t) = k + u - n /\ \A i \in 1..(k + u - n) : t[i] = s[n + i]
  BY <1>2 DEF Drops
<1>4. ASSUME NEW i \in 1..u
      PROVE  t[(k - n) + i] = Coded(key, from + i, w[lr + i])
  <2>1. (k - n) + i \in 1..(k + u - n) /\ n + ((k - n) + i) = k + i
    BY <1>1
  <2>2. QED
    BY <1>2, <1>3, <2>1
<1>5. Len(t) = (k - n) + u
  BY <1>1, <1>3
<1>6. QED
  BY <1>1, <1>4, <1>5 DEF Carried

LEMMA CarriedWrite ==
    ASSUME NEW s \in Seq(Token), NEW t \in Seq(Token), NEW k \in Nat, NEW w \in Seq(Content),
           NEW r \in Seq(Content), NEW key, NEW from \in Int, NEW m \in Seq(Content), NEW e \in Seq(Token),
           Len(r) <= Len(w), Carried(s, k, w, r, key, from), Puts(s, e, t), Len(e) = Len(m),
           \A i \in 1..Len(m) : e[i] = Coded(key, from + (Len(w) - Len(r)) + i, m[i])
    PROVE  Carried(t, k, w \o m, r, key, from)
<1>1. PICK lw \in Nat, lr \in Nat, lm \in Nat : lw = Len(w) /\ lr = Len(r) /\ lm = Len(m)
  OBVIOUS
<1>2. PICK u \in Nat : u = lw - lr /\ lw = lr + u
  <2>1. lw - lr \in Nat /\ lw = lr + (lw - lr)
    BY <1>1
  <2>2. QED
    BY <2>1
<1>3. PICK v : v = w \o m
  OBVIOUS
<1>4. Len(v) = lw + lm /\ \A i \in 1..(lw + lm) : v[i] = IF i <= lw THEN w[i] ELSE m[i - lw]
  BY <1>1, <1>3, ConcatProperties
<1>5. Len(s) = k + u /\ \A i \in 1..u : s[k + i] = Coded(key, from + i, w[lr + i])
  BY <1>1, <1>2 DEF Carried
<1>6. /\ Len(t) = k + u + lm /\ \A i \in 1..(k + u) : t[i] = s[i]
      /\ \A i \in 1..lm : t[k + u + i] = e[i]
  BY <1>1, <1>5 DEF Puts
<1>7. \A i \in 1..lm : e[i] = Coded(key, from + u + i, m[i])
  BY <1>1, <1>2
<1>8. Len(v) - lr = u + lm /\ k + (Len(v) - lr) = k + u + lm
  BY <1>1, <1>2, <1>4
<1>9. ASSUME NEW i \in 1..(u + lm)
      PROVE  t[k + i] = Coded(key, from + i, v[lr + i])
  <2>1. CASE i <= u
    <3>1. k + i \in 1..(k + u) /\ i \in 1..u /\ lr + i \in 1..(lw + lm) /\ lr + i <= lw
      BY <1>1, <1>2, <2>1
    <3>2. v[lr + i] = w[lr + i]
      BY <1>4, <3>1
    <3>3. QED
      BY <1>5, <1>6, <3>1, <3>2
  <2>2. CASE i > u
    <3>1. PICK j \in 1..lm : i = u + j
      <4>1. i - u \in 1..lm /\ i = u + (i - u)
        BY <1>1, <1>2, <2>2
      <4>2. QED
        BY <4>1
    <3>2. /\ k + i = k + u + j /\ from + i = from + u + j /\ lr + i = lw + j
          /\ lw + j \in 1..(lw + lm) /\ ~(lw + j <= lw) /\ lw + j - lw = j
      BY <1>1, <1>2, <3>1
    <3>3. v[lw + j] = m[j]
      BY <1>4, <3>2
    <3>4. t[k + u + j] = Coded(key, from + u + j, m[j])
      BY <1>6, <1>7, <3>1
    <3>5. QED
      BY <3>2, <3>3, <3>4
  <2>3. QED
    BY <1>1, <1>2, <2>1, <2>2
<1>10. Carried(t, k, v, r, key, from)
  BY <1>1, <1>6, <1>8, <1>9 DEF Carried
<1>11. QED
  BY <1>3, <1>10

LEMMA CarriedRead ==
    ASSUME NEW s \in Seq(Token), NEW t \in Seq(Token), NEW w \in Seq(Content),
           NEW r \in Seq(Content), NEW q \in Seq(Content), NEW key, NEW from \in Int, NEW n \in Nat,
           Len(r) + n <= Len(w), Len(q) = Len(r) + n,
           Carried(s, 0, w, r, key, from), Drops(s, n, t)
    PROVE  Carried(t, 0, w, q, key, from + n)
<1>1. PICK u \in Nat, lr \in Nat, lq \in Nat : u = Len(w) - Len(r) /\ lr = Len(r) /\ lq = Len(q)
  <2>1. Len(w) \in Nat /\ Len(r) \in Nat /\ Len(q) \in Nat
    OBVIOUS
  <2>2. Len(w) - Len(r) \in Nat
    BY <2>1
  <2>3. QED
    BY <2>1, <2>2
<1>2. Len(s) = u /\ \A i \in 1..u : s[0 + i] = Coded(key, from + i, w[lr + i])
  BY <1>1 DEF Carried
<1>3. Len(t) = u - n /\ \A i \in 1..(u - n) : t[i] = s[n + i]
  BY <1>2 DEF Drops
<1>4. Len(w) - lq = u - n /\ 0 + (u - n) = u - n
  BY <1>1
<1>5. ASSUME NEW i \in 1..(u - n)
      PROVE  t[0 + i] = Coded(key, from + n + i, w[lq + i])
  <2>1. n + i \in 1..u /\ 0 + i = i /\ 0 + (n + i) = n + i /\ lr + (n + i) = lq + i /\ from + (n + i) = from + n + i
    BY <1>1
  <2>2. QED
    BY <1>2, <1>3, <2>1
<1>6. QED
  BY <1>1, <1>3, <1>4, <1>5 DEF Carried

\* The j-th token is followed by k of padding, in which the mark cannot be.
Padding(s, j, k, mark) == \A i \in 1..k : s[j + i] # mark[2]
MarkAt(s, k, mark) == s[k + 1] = mark[1] /\ s[k + 2] = mark[2]

(* A mark is found at its place and nowhere else, as soon as all of it is there. *)
LEMMA MarkFound ==
    ASSUME NEW mark \in {Hash1, VcB}, NEW seen \in Seq(Token), NEW s \in Seq(Token), NEW k \in Nat,
           \A i \in 1..Len(seen) : seen[i] = s[i],
           Padding(s, 0, k, mark), MarkAt(s, k, mark) \/ Len(seen) <= k
    PROVE  Position(mark, seen) = IF Len(seen) >= k + 2 THEN k + 1 ELSE 0
<1>1. mark \in Seq(Token) /\ Len(mark) = 2 /\ mark[1] # mark[2]
  BY Marks DEF Tag
<1>2. PICK l \in Nat : l = Len(seen)
  OBVIOUS
<1>3. PICK at : at = {i \in 1..(Len(seen) + 1 - Len(mark)) : SubSeq(seen, i, i + Len(mark) - 1) = mark}
  OBVIOUS
<1>4. \A i \in at : i \in 1..(l - 1) /\ SubSeq(seen, i, i + 1) = mark
  BY <1>1, <1>2, <1>3
<1>5. ASSUME NEW i \in 1..(l - 1)
      PROVE  /\ SubSeq(seen, i, i + 1) \in Seq(Token) /\ Len(SubSeq(seen, i, i + 1)) = 2
             /\ SubSeq(seen, i, i + 1)[1] = seen[i] /\ SubSeq(seen, i, i + 1)[2] = seen[i + 1]
  <2>1. \A j \in i..(i + 1) : seen[j] \in Token
    BY <1>2
  <2>2. i \in Int /\ i + 1 \in Int
    BY <1>2
  <2>3. /\ SubSeq(seen, i, i + 1) \in Seq(Token)
        /\ Len(SubSeq(seen, i, i + 1)) = IF i <= i + 1 THEN i + 1 - i + 1 ELSE 0
        /\ \A j \in 1..(i + 1 - i + 1) : SubSeq(seen, i, i + 1)[j] = seen[i + j - 1]
    BY ONLY <2>1, <2>2, SubSeqProperties
  <2>4. i <= i + 1 /\ i + 1 - i + 1 = 2 /\ i + 1 - 1 = i /\ i + 2 - 1 = i + 1 /\ 1 \in 1..2 /\ 2 \in 1..2
    BY <2>2
  <2>5. QED
    BY <2>3, <2>4
<1>6. \A i \in at : i >= k + 1
  <2>1. ASSUME NEW i \in at, i <= k
        PROVE  FALSE
    <3>1. s[i + 1] = mark[2]
      <4>1. i \in 1..(l - 1) /\ SubSeq(seen, i, i + 1) = mark
        BY <1>4
      <4>2. SubSeq(seen, i, i + 1)[2] = seen[i + 1]
        BY <1>5, <4>1
      <4>3. i + 1 \in 1..l
        BY ONLY <4>1, l \in Nat
      <4>4. seen[i + 1] = mark[2]
        BY ONLY <4>1, <4>2
      <4>5. QED
        BY <1>2, <4>3, <4>4
    <3>2. CASE i + 1 <= k
      <4>1. i + 1 \in 1..k /\ 0 + (i + 1) = i + 1
        BY <1>2, <1>4, <3>2
      <4>2. QED
        BY <3>1, <4>1 DEF Padding
    <3>3. CASE i = k
      <4>1. s[k + 1] = mark[1]
        <5>1. ~(l <= k)
          BY <1>2, <1>4, <3>3
        <5>2. QED
          BY <1>2, <5>1 DEF MarkAt
      <4>2. QED
        BY <1>1, <3>1, <3>3, <4>1
    <3>4. QED
      BY <1>2, <1>4, <2>1, <3>2, <3>3
  <2>2. QED
    BY <1>2, <1>4, <2>1
<1>10. Position(mark, seen) = IF at = {} THEN 0 ELSE CHOOSE i \in at : \A j \in at : i <= j
  BY <1>3 DEF Position
<1>7. CASE l < k + 2
  <2>1. at = {}
    BY <1>2, <1>4, <1>6, <1>7
  <2>2. ~(Len(seen) >= k + 2)
    BY <1>2, <1>7
  <2>3. QED
    BY <1>10, <2>1, <2>2
<1>8. CASE l >= k + 2
  <2>1. k + 1 \in 1..(l - 1) /\ k + 1 \in 1..l /\ k + 2 \in 1..l /\ k + 1 + 1 = k + 2 /\ ~(l <= k)
    BY <1>2, <1>8
  <2>2. seen[k + 1] = mark[1] /\ seen[k + 2] = mark[2]
    BY <1>2, <2>1 DEF MarkAt
  <2>3. SubSeq(seen, k + 1, k + 2) = mark
    <3>1. PICK t : t = SubSeq(seen, k + 1, k + 2)
      OBVIOUS
    <3>2. t \in Seq(Token) /\ Len(t) = 2 /\ t[1] = mark[1] /\ t[2] = mark[2]
      BY <1>5, <2>1, <2>2, <3>1
    <3>3. t = mark
      <4>1. \A i \in 1..Len(t) : t[i] = mark[i]
        BY <3>2
      <4>2. Len(t) = Len(mark)
        BY <1>1, <3>2
      <4>3. QED
        BY <1>1, <3>2, <4>1, <4>2, SeqEqual
    <3>4. QED
      BY <3>1, <3>3
  <2>4. k + 1 \in at
    <3>1. k + 1 \in 1..(Len(seen) + 1 - Len(mark)) /\ k + 1 + Len(mark) - 1 = k + 2
      BY <1>1, <1>2, <2>1
    <3>2. QED
      BY <1>3, <2>3, <3>1
  <2>5. (CHOOSE i \in at : \A j \in at : i <= j) = k + 1
    <3>1. \A j \in at : k + 1 <= j
      BY <1>2, <1>4, <1>6
    <3>2. \A i \in at : (\A j \in at : i <= j) => i = k + 1
      BY <1>2, <1>4, <1>6, <2>4
    <3>3. QED
      BY <2>4, <3>1, <3>2
  <2>6. at # {} /\ Len(seen) >= k + 2
    BY <1>2, <1>8, <2>4
  <2>7. QED
    BY <1>10, <2>5, <2>6
<1>9. QED
  BY <1>2, <1>7, <1>8

-----------------------------------------------------------------------------
(* The invariant *)

\* Contents of x that the other end has not read.
Unread(x) == Len(wrote[x]) - Len(read[x])

\* Where the keystream is at the first of them.
Start(x) == enc[x] - Unread(x)
KeyOf(x) == IF cipher[x] = "rc4" THEN SendKey(x) ELSE "-"

\* k tokens of the handshake are on their way to x, then what was written.
Ahead(x, k) ==
    Carried(Line(x), k, wrote[Other(x)], read[Other(x)], KeyOf(Other(x)), Start(Other(x)))

\* What x reads decides how it goes on with the keystream.
StartIs(x, n) == cipher[x] # "plain" => Start(x) = n

\* After j tokens comes the hash, the client's header with padding of n, the server's
\* from its choice on.
HashAt(s, j) == s[j + 1] = <<"-", 0, <<"hash2", Wanted>>>>
HeaderAt(s, j, n) ==
    /\ s[j + 1] = <<"A", 1, Tag("vc")>> /\ s[j + 2] = <<"A", 2, Tag("vc+")>>
    /\ s[j + 3] = <<"A", 3, <<"crypto", offer>>>> /\ s[j + 4] = <<"A", 4, <<"len", n>>>>
ReplyAt(s, j, n) ==
    /\ s[j + 1] = <<"B", 3, <<"crypto", Selected(CipherOf(offer))>>>>
    /\ s[j + 2] = <<"B", 4, <<"len", n>>>>

Up == {"up", "shake", "message", "peer"}
Answered == {"pad, IA"} \cup Up     \* the server has answered the header
Early == {"first", "key", "sync", "hash2", "client header"}     \* and before that

\* What is on its way to the server, by where it is and where the client is.
KeyComes ==
    pc["server"] = "first" =>
        CASE pc["client"] = "start" -> Len(Line("server")) = 0
          [] pc["client"] = "server key" ->
                \E k \in Pads : /\ Len(Line("server")) = k + 2 /\ Padding(Line("server"), 2, k, Hash1)
                                /\ Line("server")[1] = Key[1]
          [] OTHER ->
                /\ Ahead("server", 0)
                /\ wrote["client"] # << >> => wrote["client"][1] = HandshakeTag
                /\ pc["client"] # "up" => wrote["client"] # << >>
RestOfKeyComes ==
    pc["server"] = "key" =>
        \E k \in Pads : Len(Line("server")) = k + 1 /\ Padding(Line("server"), 1, k, Hash1)
MarkComes ==
    pc["server"] = "sync" =>
        \E k \in Pads :
            /\ Padding(Line("server"), 0, k, Hash1)
            /\ IF pc["client"] = "server key" THEN Len(Line("server")) = k
               ELSE \E n \in Lens :
                        /\ Len(Line("server")) = k + 3 + n + 5 /\ MarkAt(Line("server"), k, Hash1)
                        /\ HashAt(Line("server"), k + 2) /\ HeaderAt(Line("server"), k + 3, n)
                        /\ enc["client"] = n + 5 /\ Len(part["server"]) <= k + 1
HashComes ==
    pc["server"] = "hash2" =>
        \E n \in Lens : /\ Len(Line("server")) = n + 6 /\ HashAt(Line("server"), 0)
                        /\ HeaderAt(Line("server"), 1, n) /\ enc["client"] = n + 5
HeaderComes ==
    pc["server"] = "client header" =>
        \E n \in Lens : /\ Len(Line("server")) = n + 5 /\ HeaderAt(Line("server"), 0, n)
                        /\ enc["client"] = n + 5
PadComes ==
    pc["server"] = "pad, IA" =>
        /\ Ahead("server", pads["server"] + 1)
        /\ pads["server"] \in Lens /\ dec["server"] = 4 /\ StartIs("client", pads["server"] + 5)
ToServer == KeyComes /\ RestOfKeyComes /\ MarkComes /\ HashComes /\ HeaderComes /\ PadComes

\* To the client.
AnswerComes ==
    /\ pc["client"] = "start" => Len(Line("client")) = 0
    /\ pc["client"] = "server key" =>
        IF pc["server"] # "sync" THEN Len(Line("client")) = 0
        ELSE \E k \in Pads : Len(Line("client")) = k + 2 /\ Padding(Line("client"), 2, k, VcB)
VcComes ==
    pc["client"] = "sync" =>
        \E k \in Pads :
            /\ Padding(Line("client"), 0, k, VcB)
            /\ IF pc["server"] \notin Answered THEN Len(Line("client")) = k
               ELSE \E n \in Lens :
                        /\ Ahead("client", k + 2 + n + 2) /\ MarkAt(Line("client"), k, VcB)
                        /\ ReplyAt(Line("client"), k + 2, n) /\ StartIs("server", n + 4)
                        /\ Len(part["client"]) <= k + 1
ChoiceComes ==
    pc["client"] = "header" =>
        /\ dec["client"] = 2
        /\ \E n \in Lens : /\ Ahead("client", n + 2) /\ ReplyAt(Line("client"), 0, n)
                           /\ StartIs("server", n + 4)
LastPadComes ==
    pc["client"] = "pad" =>
        /\ Ahead("client", pads["client"])
        /\ pads["client"] \in Lens /\ dec["client"] = 4 /\ StartIs("server", pads["client"] + 4)
ToClient == AnswerComes /\ VcComes /\ ChoiceComes /\ LastPadComes

\* After the handshake.
Talk(x) == Ahead(x, 0) /\ (cipher[x] = "rc4" => StartIs(Other(x), dec[x]))
Talks == \A x \in Ends : pc[x] \in Up => Talk(x)

\* How far the two ends have come, beside each other.
Pairs ==
    IF mode = "plain"
    THEN ({"start"} \X {"first"}) \cup (Up \X ({"first"} \cup Up))
    ELSE ({"start"} \X {"first"}) \cup ({"server key"} \X {"first", "key", "sync"})
         \cup ({"sync"} \X ({"sync", "hash2", "client header"} \cup Answered))
         \cup (({"header", "pad"} \cup Up) \X Answered)

Stages ==
    /\ <<pc["client"], pc["server"]>> \in Pairs
    /\ \A x \in Ends : /\ pc[x] \in Shaking \cup {"up"} => wrote[x] = << >>
                       /\ pc[x] \in Shaking => read[Other(x)] = << >>
                       /\ pc[x] # "sync" => part[x] = << >>
                       /\ pc[x] = "up" => out[x] = << >>
    /\ cipher["client"] = IF mode = "pe" /\ pc["client"] \in {"pad"} \cup Up
                          THEN CipherOf(offer) ELSE "none"
    /\ cipher["server"] = IF mode = "pe" /\ pc["server"] \in Answered
                          THEN CipherOf(offer) ELSE "none"
    /\ mode = "pe" /\ pc["client"] # "start" => hash["client"] = Wanted
    /\ mode = "pe" /\ pc["server"] \in {"client header"} \cup Answered => hash["server"] = Wanted
    /\ pc["server"] \in Early => dec["server"] = 0

\* What has been read is what was written.
Faithful ==
    \A x \in Ends : /\ Len(read[x]) <= Len(wrote[x])
                    /\ \A i \in 1..Len(read[x]) : read[x][i] = wrote[x][i]

Types ==
    /\ me \in Ends /\ mode \in {"pe", "plain"} /\ offer \in 1..3 /\ lru \subseteq Hashes
    /\ DOMAIN pc = Ends
    /\ out \in [Ends -> Seq(Token)] /\ chan \in [Ends -> Seq(Token)]
    /\ buf \in [Ends -> Seq(Token)] /\ part \in [Ends -> Seq(Token)]
    /\ enc \in [Ends -> Nat] /\ dec \in [Ends -> Nat]
    /\ cipher \in [Ends -> {"none", "plain", "rc4"}]
    /\ hash \in [Ends -> Hashes \cup {NoHash}]
    /\ pads \in [Ends -> {0} \cup Lens]
    /\ wrote \in [Ends -> Seq(Content)] /\ read \in [Ends -> Seq(Content)]
    /\ \A x \in Ends : Len(chan[x]) <= Capacity /\ Len(part[x]) <= MaxPad + 1

StreamInv == Types /\ NeverRefused /\ Faithful /\ (Open => Stages /\ ToServer /\ ToClient /\ Talks)

-----------------------------------------------------------------------------
(* What an action does to the lines *)

LEMMA TwoEnds == \A x \in Ends : /\ Other(x) \in Ends /\ Other(x) # x /\ Other(Other(x)) = x
                                 /\ \A y \in Ends : y = x \/ y = Other(x)
BY DEF Ends, Other

LEMMA LinesAreTokens ==
    ASSUME Types, NEW x \in Ends
    PROVE  Line(x) \in Seq(Token) /\ Len(Line(x)) = Len(part[x]) + Len(buf[x]) + Len(chan[x]) + Len(out[Other(x)])
<1>1. part[x] \in Seq(Token) /\ buf[x] \in Seq(Token) /\ chan[x] \in Seq(Token) /\ out[Other(x)] \in Seq(Token)
  BY TwoEnds DEF Types
<1>2. PICK a, b, c, d : a = part[x] /\ b = buf[x] /\ c = chan[x] /\ d = out[Other(x)]
  OBVIOUS
<1>3. a \in Seq(Token) /\ b \in Seq(Token) /\ c \in Seq(Token) /\ d \in Seq(Token)
  BY <1>1, <1>2
<1>4. Joined(a, b, c, d) \in Seq(Token) /\ Len(Joined(a, b, c, d)) = Len(a) + Len(b) + Len(c) + Len(d)
  BY ONLY <1>3, Row
<1>5. QED
  BY <1>2, <1>4 DEF Line

LEMMA SendLines ==
    ASSUME Types, NEW x \in Ends, Send(x)
    PROVE  /\ \A y \in Ends : Line(y)' = Line(y)
           /\ out' \in [Ends -> Seq(Token)] /\ chan' \in [Ends -> Seq(Token)]
           /\ \A y \in Ends : Len(chan'[y]) <= Capacity
<1>1. PICK y \in Ends : y = Other(x) /\ y # x /\ x = Other(y)
  BY TwoEnds
<1>2. PICK a, b, c, d : a = part[y] /\ b = buf[y] /\ c = chan[y] /\ d = out[x]
  OBVIOUS
<1>3. a \in Seq(Token) /\ b \in Seq(Token) /\ c \in Seq(Token) /\ d \in Seq(Token)
  BY <1>1, <1>2 DEF Types
<1>4. PICK n \in 0..Len(d) :
          /\ n <= Capacity - Len(c)
          /\ chan' = [chan EXCEPT ![y] = c \o SubSeq(d, 1, n)]
          /\ out' = [out EXCEPT ![x] = SubSeq(d, n + 1, Len(d))]
  <2>1. PICK ld \in Nat, lc \in Nat : ld = Len(d) /\ lc = Len(c)
    BY <1>3
  <2>2. PICK n : /\ n = (IF ld < Capacity - lc THEN ld ELSE Capacity - lc) /\ n > 0
                 /\ chan' = [chan EXCEPT ![y] = c \o SubSeq(d, 1, n)]
                 /\ out' = [out EXCEPT ![x] = SubSeq(d, n + 1, ld)]
    BY <1>1, <1>2, <2>1 DEF Send, Types
  <2>3. n \in 0..ld /\ n <= Capacity - lc
    BY <2>1, <2>2, PeStreamAssumption
  <2>4. QED
    BY <2>1, <2>2, <2>3
<1>5. PICK l, r : l = SubSeq(d, 1, n) /\ r = SubSeq(d, n + 1, Len(d))
  OBVIOUS
<1>6. l \in Seq(Token) /\ r \in Seq(Token)
  BY <1>3, <1>5, Shifted
<1>7. Joined(a, b, c \o l, r) = Joined(a, b, c, d)
  BY <1>3, <1>5, RowMoves
<1>8. Len(l) = n
  BY <1>3, <1>4, <1>5
<1>9. PICK cl : cl = c \o l
  OBVIOUS
<1>10. cl \in Seq(Token) /\ Len(cl) <= Capacity
  <2>1. cl \in Seq(Token) /\ Len(cl) = Len(c) + Len(l)
    BY <1>3, <1>6, <1>9, ConcatProperties
  <2>2. Len(c) \in Nat /\ n \in Nat /\ Capacity \in Nat
    BY <1>3, <1>4, PeStreamAssumption
  <2>3. QED
    BY <1>4, <1>8, <2>1, <2>2
<1>11. /\ out \in [Ends -> Seq(Token)] /\ chan \in [Ends -> Seq(Token)]
       /\ \A z \in Ends : Len(chan[z]) <= Capacity
  BY DEF Types
<1>12. chan' = [chan EXCEPT ![y] = cl] /\ out' = [out EXCEPT ![x] = r] /\ part' = part /\ buf' = buf
  BY <1>4, <1>5, <1>9 DEF Send
<1>13. /\ chan'[y] = cl /\ chan'[x] = chan[x] /\ out'[x] = r /\ out'[y] = out[y]
       /\ out' \in [Ends -> Seq(Token)] /\ chan' \in [Ends -> Seq(Token)]
  BY <1>1, <1>6, <1>10, <1>11, <1>12
<1>14. Line(y)' = Line(y)
  BY <1>1, <1>2, <1>7, <1>9, <1>12, <1>13 DEF Line
<1>15. Line(x)' = Line(x)
  BY <1>1, <1>12, <1>13 DEF Line
<1>16. QED
  BY <1>1, <1>10, <1>11, <1>13, <1>14, <1>15, TwoEnds

LEMMA FillLines ==
    ASSUME Types, NEW x \in Ends, Fill(x)
    PROVE  /\ \A y \in Ends : Line(y)' = Line(y)
           /\ buf' \in [Ends -> Seq(Token)] /\ chan' \in [Ends -> Seq(Token)]
           /\ \A y \in Ends : Len(chan'[y]) <= Capacity
<1>1. PICK y \in Ends : y = Other(x) /\ y # x /\ x = Other(y)
  BY TwoEnds
<1>2. PICK a, b, c, d : a = part[x] /\ b = buf[x] /\ c = chan[x] /\ d = out[y]
  OBVIOUS
<1>3. a \in Seq(Token) /\ b \in Seq(Token) /\ c \in Seq(Token) /\ d \in Seq(Token)
  BY <1>1, <1>2 DEF Types
<1>4. PICK n \in 0..Len(c) :
          /\ buf' = [buf EXCEPT ![x] = b \o SubSeq(c, 1, n)]
          /\ chan' = [chan EXCEPT ![x] = SubSeq(c, n + 1, Len(c))]
  <2>1. c # << >> /\ \E n \in {1, Len(c)} :
          /\ buf' = [buf EXCEPT ![x] = b \o SubSeq(c, 1, n)]
          /\ chan' = [chan EXCEPT ![x] = SubSeq(c, n + 1, Len(c))]
    BY <1>2 DEF Fill, Types
  <2>2. 1 \in 0..Len(c) /\ Len(c) \in 0..Len(c)
    BY <1>3, <2>1
  <2>3. QED
    BY <2>1, <2>2
<1>5. PICK l, r : l = SubSeq(c, 1, n) /\ r = SubSeq(c, n + 1, Len(c))
  OBVIOUS
<1>6. l \in Seq(Token) /\ r \in Seq(Token)
  BY <1>3, <1>5, Shifted
<1>7. Joined(a, b \o l, r, d) = Joined(a, b, c, d)
  BY <1>3, <1>5, RowMoves
<1>8. Len(r) <= Len(c)
  <2>1. PICK lc \in Nat : lc = Len(c)
    BY <1>3
  <2>2. Len(r) = IF n + 1 <= lc THEN lc - (n + 1) + 1 ELSE 0
    BY <1>3, <1>5, <2>1
  <2>3. QED
    BY <2>1, <2>2
<1>9. PICK bl : bl = b \o l
  OBVIOUS
<1>10. bl \in Seq(Token)
  BY <1>3, <1>6, <1>9, ConcatProperties
<1>11. /\ buf \in [Ends -> Seq(Token)] /\ chan \in [Ends -> Seq(Token)]
       /\ \A z \in Ends : Len(chan[z]) <= Capacity
  BY DEF Types
<1>12. chan' = [chan EXCEPT ![x] = r] /\ buf' = [buf EXCEPT ![x] = bl] /\ part' = part /\ out' = out
  BY <1>4, <1>5, <1>9 DEF Fill
<1>13. /\ chan'[x] = r /\ chan'[y] = chan[y] /\ buf'[x] = bl /\ buf'[y] = buf[y]
       /\ buf' \in [Ends -> Seq(Token)] /\ chan' \in [Ends -> Seq(Token)]
  BY <1>1, <1>6, <1>10, <1>11, <1>12
<1>14. Line(x)' = Line(x)
  BY <1>1, <1>2, <1>7, <1>9, <1>12, <1>13 DEF Line
<1>15. Line(y)' = Line(y)
  BY <1>1, <1>12, <1>13 DEF Line
<1>16. Len(r) <= Capacity
  <2>1. Len(c) \in Nat /\ Len(r) \in Nat /\ Capacity \in Nat /\ Len(c) <= Capacity
    BY <1>2, <1>3, <1>6, <1>11, PeStreamAssumption
  <2>2. QED
    BY <1>8, <2>1
<1>17. QED
  BY <1>1, <1>11, <1>13, <1>14, <1>15, <1>16, TwoEnds

(* x takes n tokens and writes s. *)
LEMMA StepLines ==
    ASSUME Types, NEW x \in Ends, part' = part, part[x] = << >>, chan' = chan, out[x] = << >>,
           NEW n \in Nat, n <= Len(buf[x]), buf' = [buf EXCEPT ![x] = SubSeq(buf[x], n + 1, Len(buf[x]))],
           NEW s \in Seq(Token), out' = [out EXCEPT ![x] = s]
    PROVE  /\ Drops(Line(x), n, Line(x)') /\ Puts(Line(Other(x)), s, Line(Other(x))')
           /\ buf' \in [Ends -> Seq(Token)] /\ out' \in [Ends -> Seq(Token)]
<1>1. PICK y \in Ends : y = Other(x) /\ y # x /\ x = Other(y)
  BY TwoEnds
<1>2. PICK e, b, c, d : e = << >> /\ b = buf[x] /\ c = chan[x] /\ d = out[y]
  OBVIOUS
<1>3. b \in Seq(Token) /\ c \in Seq(Token) /\ d \in Seq(Token) /\ e \in Seq(Token) /\ Len(e) = 0
  <2>1. e \in Seq(Token) /\ Len(e) = 0
    BY <1>2, EmptySeq
  <2>2. QED
    BY <1>1, <1>2, <2>1 DEF Types
<1>4. PICK r : r = SubSeq(b, n + 1, Len(b))
  OBVIOUS
<1>5. r \in Seq(Token) /\ Drops(Joined(e, b, c, d), n, Joined(e, r, c, d))
  <2>1. PICK k : k = Len(e)
    OBVIOUS
  <2>2. k = 0 /\ n + 1 - k = n + 1 /\ k <= n /\ n <= k + Len(b)
    BY <1>2, <1>3, <2>1
  <2>3. \A a \in Seq(Token) : Len(a) <= n /\ n <= Len(a) + Len(b) =>
          /\ SubSeq(b, n + 1 - Len(a), Len(b)) \in Seq(Token)
          /\ Drops(Joined(a, b, c, d), n, Joined(<< >>, SubSeq(b, n + 1 - Len(a), Len(b)), c, d))
    BY <1>3, DropRow
  <2>4. QED
    BY <1>2, <1>3, <1>4, <2>1, <2>2, <2>3
<1>6. part[y] \in Seq(Token) /\ buf[y] \in Seq(Token) /\ chan[y] \in Seq(Token)
  BY DEF Types
<1>7. Puts(Joined(part[y], buf[y], chan[y], << >>), s, Joined(part[y], buf[y], chan[y], s))
  BY <1>6, PutRow
<1>8. buf \in [Ends -> Seq(Token)] /\ out \in [Ends -> Seq(Token)]
  BY DEF Types
<1>9. /\ buf'[x] = r /\ buf'[y] = buf[y] /\ out'[x] = s /\ out'[y] = out[y]
      /\ buf' \in [Ends -> Seq(Token)] /\ out' \in [Ends -> Seq(Token)]
  BY <1>1, <1>2, <1>4, <1>5, <1>8
<1>10. Line(x) = Joined(e, b, c, d) /\ Line(x)' = Joined(e, r, c, d)
  BY <1>1, <1>2, <1>9 DEF Line
<1>11. /\ Line(y) = Joined(part[y], buf[y], chan[y], << >>)
       /\ Line(y)' = Joined(part[y], buf[y], chan[y], s)
  BY <1>1, <1>9 DEF Line
<1>12. QED
  BY <1>1, <1>5, <1>7, <1>9, <1>10, <1>11

-----------------------------------------------------------------------------
(* What stays true of a line to which nothing happens *)

\* Nothing happens to what x sends, but that the cipher may be chosen before.
SentSame(x) ==
    /\ wrote'[x] = wrote[x] /\ read'[x] = read[x] /\ enc'[x] = enc[x]
    /\ \/ cipher'[x] = cipher[x]
       \/ cipher[x] = "none" /\ wrote[x] = << >> /\ read[x] = << >>

LEMMA LensAreNat == \A n \in Lens : n \in Nat /\ n <= MaxPad
BY PeStreamAssumption

LEMMA AheadKept ==
    ASSUME Types, NEW x \in Ends, SentSame(Other(x)), Line(x)' = Line(x), NEW k \in Nat, Ahead(x, k)
    PROVE  Ahead(x, k)'
<1>1. PICK y \in Ends : y = Other(x)
  BY TwoEnds
<1>2. /\ wrote'[y] = wrote[y] /\ read'[y] = read[y] /\ enc'[y] = enc[y]
  BY <1>1 DEF SentSame
<1>3. Start(y)' = Start(y)
  BY <1>2 DEF Start, Unread
<1>4. CASE cipher'[y] = cipher[y]
  BY <1>1, <1>2, <1>3, <1>4 DEF Ahead, KeyOf
<1>5. CASE wrote[y] = << >> /\ read[y] = << >>
  <2>1. PICK s \in Seq(Token) : s = Line(x)
    BY LinesAreTokens
  <2>2. PICK key, from, key2, from2 : /\ key = KeyOf(y) /\ from = Start(y)
                                      /\ key2 = KeyOf(y)' /\ from2 = Start(y)'
    OBVIOUS
  <2>3. Carried(s, k, << >>, << >>, key, from)
    BY <1>1, <1>5, <2>1, <2>2 DEF Ahead
  <2>4. Carried(s, k, << >>, << >>, key2, from2)
    BY <2>3, CarriedNone
  <2>5. QED
    BY <1>1, <1>2, <1>5, <2>1, <2>2, <2>4 DEF Ahead
<1>6. QED
  BY <1>1, <1>4, <1>5 DEF SentSame

LEMMA StartKept ==
    ASSUME NEW x \in Ends, SentSame(x), NEW n, StartIs(x, n)
    PROVE  StartIs(x, n)'
BY DEF SentSame, StartIs, Start, Unread

LEMMA TalkKept ==
    ASSUME Types, NEW x \in Ends, SentSame(Other(x)), Line(x)' = Line(x), Talk(x),
           dec'[x] = dec[x], cipher'[x] = cipher[x]
    PROVE  Talk(x)'
<1>1. Other(x) \in Ends
  BY TwoEnds
<1>2. Ahead(x, 0)'
  BY AheadKept DEF Talk
<1>3. ASSUME cipher'[x] = "rc4"
      PROVE  StartIs(Other(x), dec[x])'
  <2>1. StartIs(Other(x), dec[x])
    BY <1>3 DEF Talk
  <2>2. PICK n : n = dec[x] /\ n = dec'[x]
    OBVIOUS
  <2>3. StartIs(Other(x), n)'
    BY <1>1, <2>1, <2>2, StartKept
  <2>4. QED
    BY <2>2, <2>3 DEF StartIs
<1>4. QED
  BY <1>2, <1>3 DEF Talk, StartIs

LEMMA ToServerKept ==
    ASSUME Types, ToServer, SentSame("client"), Line("server")' = Line("server"), offer' = offer,
           part'["server"] = part["server"], pads'["server"] = pads["server"],
           dec'["server"] = dec["server"], pc'["server"] = pc["server"],
           pc["server"] \in {"first", "sync"} => pc'["client"] = pc["client"]
    PROVE  ToServer'
<1>1. "server" \in Ends /\ "client" \in Ends /\ Other("server") = "client"
  BY DEF Ends, Other
<1>2. wrote'["client"] = wrote["client"] /\ enc'["client"] = enc["client"]
  BY DEF SentSame
<1>3. PICK s : s = Line("server") /\ s = Line("server")'
  OBVIOUS
<1>4. KeyComes'
  <2>1. CASE pc["server"] = "first" /\ pc["client"] \notin {"start", "server key"}
    <3>1. Ahead("server", 0)'
      BY <1>1, <2>1, AheadKept DEF ToServer, KeyComes
    <3>2. QED
      BY <1>2, <2>1, <3>1 DEF ToServer, KeyComes
  <2>2. CASE pc["server"] = "first" /\ pc["client"] \in {"start", "server key"}
    BY <2>2 DEF ToServer, KeyComes, Padding
  <2>3. QED
    BY <2>1, <2>2 DEF KeyComes
<1>5. RestOfKeyComes'
  BY DEF ToServer, RestOfKeyComes, Padding
<1>6. MarkComes'
  BY <1>2 DEF ToServer, MarkComes, Padding, MarkAt, HashAt, HeaderAt
<1>7. HashComes'
  BY <1>2 DEF ToServer, HashComes, HashAt, HeaderAt
<1>8. HeaderComes'
  BY <1>2 DEF ToServer, HeaderComes, HeaderAt
<1>9. PadComes'
  <2>1. CASE pc["server"] = "pad, IA"
    <3>1. PICK n \in Lens : n = pads["server"] /\ n = pads'["server"] /\ n \in Nat
      BY <2>1, LensAreNat DEF ToServer, PadComes
    <3>2. Ahead("server", n + 1) /\ StartIs("client", n + 5) /\ dec["server"] = 4
      BY <2>1, <3>1 DEF ToServer, PadComes
    <3>3. Ahead("server", n + 1)' /\ StartIs("client", n + 5)'
      BY <1>1, <3>1, <3>2, AheadKept, StartKept
    <3>4. QED
      BY <3>1, <3>2, <3>3 DEF PadComes, Ahead, StartIs
  <2>2. QED
    BY <2>1 DEF PadComes
<1>10. QED
  BY <1>4, <1>5, <1>6, <1>7, <1>8, <1>9 DEF ToServer

LEMMA ToClientKept ==
    ASSUME Types, ToClient, SentSame("server"), Line("client")' = Line("client"), offer' = offer,
           part'["client"] = part["client"], pads'["client"] = pads["client"],
           dec'["client"] = dec["client"], pc'["client"] = pc["client"],
           pc["client"] = "server key" => (pc'["server"] = "sync" <=> pc["server"] = "sync"),
           pc["client"] = "sync" => (pc'["server"] \in Answered <=> pc["server"] \in Answered)
    PROVE  ToClient'
<1>1. "server" \in Ends /\ "client" \in Ends /\ Other("client") = "server"
  BY DEF Ends, Other
<1>2. PICK s : s = Line("client") /\ s = Line("client")'
  OBVIOUS
<1>3. AnswerComes'
  BY DEF ToClient, AnswerComes, Padding
<1>4. VcComes'
  <2>1. CASE pc["client"] = "sync" /\ pc["server"] \notin Answered
    BY <2>1 DEF ToClient, VcComes, Padding
  <2>2. CASE pc["client"] = "sync" /\ pc["server"] \in Answered
    <3>1. PICK k \in Pads, n \in Lens :
              /\ Padding(s, 0, k, VcB) /\ Ahead("client", k + 2 + n + 2) /\ MarkAt(s, k, VcB)
              /\ ReplyAt(s, k + 2, n) /\ StartIs("server", n + 4) /\ Len(part["client"]) <= k + 1
      BY <1>2, <2>2 DEF ToClient, VcComes
    <3>2. k \in Nat /\ n \in Nat /\ k + 2 + n + 2 \in Nat
      <4>1. n \in Lens /\ k \in Pads
        BY <3>1
      <4>2. n \in Nat /\ k \in Nat
        BY <4>1, LensAreNat DEF Pads
      <4>3. QED
        BY ONLY <4>2
    <3>3. Ahead("client", k + 2 + n + 2)' /\ StartIs("server", n + 4)'
      BY <1>1, <3>1, <3>2, AheadKept, StartKept
    <3>4. ReplyAt(Line("client"), k + 2, n)'
      BY <1>2, <3>1 DEF ReplyAt
    <3>5. Padding(Line("client"), 0, k, VcB)' /\ MarkAt(Line("client"), k, VcB)'
      BY <1>2, <3>1 DEF Padding, MarkAt
    <3>6. QED
      BY <2>2, <3>1, <3>3, <3>4, <3>5 DEF VcComes
  <2>3. QED
    BY <2>1, <2>2 DEF VcComes
<1>5. ChoiceComes'
  <2>1. CASE pc["client"] = "header"
    <3>1. PICK n \in Lens : Ahead("client", n + 2) /\ ReplyAt(s, 0, n) /\ StartIs("server", n + 4)
      BY <1>2, <2>1 DEF ToClient, ChoiceComes
    <3>2. n \in Nat /\ n + 2 \in Nat
      <4>1. n \in Lens
        BY <3>1
      <4>2. n \in Nat
        BY <4>1, LensAreNat
      <4>3. QED
        BY ONLY <4>2
    <3>3. Ahead("client", n + 2)' /\ StartIs("server", n + 4)'
      BY <1>1, <3>1, <3>2, AheadKept, StartKept
    <3>4. ReplyAt(Line("client"), 0, n)' /\ dec["client"] = 2
      BY <1>2, <2>1, <3>1 DEF ReplyAt, ToClient, ChoiceComes
    <3>5. QED
      BY <2>1, <3>1, <3>3, <3>4 DEF ChoiceComes
  <2>2. QED
    BY <2>1 DEF ChoiceComes
<1>6. LastPadComes'
  <2>1. CASE pc["client"] = "pad"
    <3>1. PICK n \in Lens : n = pads["client"] /\ n = pads'["client"] /\ n \in Nat
      BY <2>1, LensAreNat DEF ToClient, LastPadComes
    <3>2. Ahead("client", n) /\ StartIs("server", n + 4) /\ dec["client"] = 4
      BY <2>1, <3>1 DEF ToClient, LastPadComes
    <3>3. Ahead("client", n)' /\ StartIs("server", n + 4)'
      BY <1>1, <3>1, <3>2, AheadKept, StartKept
    <3>4. QED
      BY <3>1, <3>2, <3>3 DEF LastPadComes, Ahead, StartIs
  <2>2. QED
    BY <2>1 DEF LastPadComes
<1>7. QED
  BY <1>3, <1>4, <1>5, <1>6 DEF ToClient

-----------------------------------------------------------------------------
(* Steps of the transport *)

LEMMA SendStep ==
    ASSUME StreamInv, NEW x \in Ends, Send(x), me' = me
    PROVE  StreamInv'
<1>1. Types /\ NeverRefused /\ Faithful /\ Stages /\ ToServer /\ ToClient /\ Talks
  BY DEF StreamInv, Send
<1>2. /\ UNCHANGED <<mode, offer, lru, pc, buf, part, enc, dec, cipher, hash, pads, wrote, read>>
  BY DEF Send
<1>3. /\ \A y \in Ends : Line(y)' = Line(y)
      /\ out' \in [Ends -> Seq(Token)] /\ chan' \in [Ends -> Seq(Token)]
      /\ \A y \in Ends : Len(chan'[y]) <= Capacity
  BY <1>1, SendLines
<1>4. Types'
  BY <1>1, <1>2, <1>3 DEF Types
<1>5. NeverRefused' /\ Faithful'
  BY <1>1, <1>2 DEF NeverRefused, Faithful
<1>6. \A y \in Ends : SentSame(y)
  BY <1>2 DEF SentSame
<1>7. ToServer' /\ ToClient'
  <2>1. "server" \in Ends /\ "client" \in Ends
    BY DEF Ends
  <2>2. ToServer'
    BY <1>1, <1>2, <1>3, <1>6, <2>1, ToServerKept
  <2>3. ToClient'
    BY <1>1, <1>2, <1>3, <1>6, <2>1, ToClientKept
  <2>4. QED
    BY <2>2, <2>3
<1>8. Talks'
  <2>1. ASSUME NEW y \in Ends, pc'[y] \in Up
        PROVE  Talk(y)'
    <3>1. Talk(y)
      BY <1>1, <1>2, <2>1 DEF Talks
    <3>2. Other(y) \in Ends
      BY TwoEnds
    <3>3. QED
      BY <1>1, <1>2, <1>3, <1>6, <3>1, <3>2, TalkKept
  <2>2. QED
    BY <2>1 DEF Talks
<1>9. Stages'
  <2>1. ASSUME NEW y \in Ends, pc[y] = "up"
        PROVE  out'[y] = << >>
    <3>1. out[y] = << >>
      BY <1>1, <2>1 DEF Stages
    <3>2. y # x /\ out' = [out EXCEPT ![x] = out'[x]]
      BY <1>1, <3>1 DEF Send, Writing, Types
    <3>3. QED
      BY <1>1, <3>1, <3>2 DEF Types
  <2>2. QED
    BY <1>1, <1>2, <2>1 DEF Stages, Pairs
<1>10. QED
  BY <1>4, <1>5, <1>7, <1>8, <1>9 DEF StreamInv

LEMMA FillStep ==
    ASSUME StreamInv, NEW x \in Ends, Fill(x), me' = me
    PROVE  StreamInv'
<1>1. Types /\ NeverRefused /\ Faithful /\ Stages /\ ToServer /\ ToClient /\ Talks
  BY DEF StreamInv, Fill
<1>2. UNCHANGED <<mode, offer, lru, pc, out, part, enc, dec, cipher, hash, pads, wrote, read>>
  BY DEF Fill
<1>3. /\ \A y \in Ends : Line(y)' = Line(y)
      /\ buf' \in [Ends -> Seq(Token)] /\ chan' \in [Ends -> Seq(Token)]
      /\ \A y \in Ends : Len(chan'[y]) <= Capacity
  BY <1>1, FillLines
<1>4. Types'
  BY <1>1, <1>2, <1>3 DEF Types
<1>5. NeverRefused' /\ Faithful'
  BY <1>1, <1>2 DEF NeverRefused, Faithful
<1>6. \A y \in Ends : SentSame(y)
  BY <1>2 DEF SentSame
<1>7. ToServer' /\ ToClient'
  <2>1. "server" \in Ends /\ "client" \in Ends
    BY DEF Ends
  <2>2. ToServer'
    BY <1>1, <1>2, <1>3, <1>6, <2>1, ToServerKept
  <2>3. ToClient'
    BY <1>1, <1>2, <1>3, <1>6, <2>1, ToClientKept
  <2>4. QED
    BY <2>2, <2>3
<1>8. Talks'
  <2>1. ASSUME NEW y \in Ends, pc'[y] \in Up
        PROVE  Talk(y)'
    <3>1. Talk(y)
      BY <1>1, <1>2, <2>1 DEF Talks
    <3>2. Other(y) \in Ends
      BY TwoEnds
    <3>3. QED
      BY <1>1, <1>2, <1>3, <1>6, <3>1, <3>2, TalkKept
  <2>2. QED
    BY <2>1 DEF Talks
<1>9. Stages'
  BY <1>1, <1>2 DEF Stages, Pairs
<1>10. QED
  BY <1>4, <1>5, <1>7, <1>8, <1>9 DEF StreamInv

(* Whoever ends takes the connection along. *)
LEMMA NobodyOpen ==
    ASSUME NEW x \in Ends, Gone(x)'
    PROVE  ~Open'
BY DEF Open

LEMMA BrokenStep ==
    ASSUME StreamInv, NEW x \in Ends, Broken(x), me' = me
    PROVE  StreamInv'
<1>1. Types /\ NeverRefused /\ Faithful
  BY DEF StreamInv
<1>2. /\ UNCHANGED <<mode, offer, lru, out, chan, buf, part, enc, dec, cipher, hash, pads, wrote, read>>
      /\ pc' = [pc EXCEPT ![x] = "closed"]
  BY DEF Broken
<1>3. Types'
  BY <1>1, <1>2 DEF Types
<1>4. pc'[x] = "closed" /\ \A y \in Ends : y # x => pc'[y] = pc[y]
  BY <1>1, <1>2 DEF Types
<1>5. NeverRefused' /\ Faithful'
  BY <1>1, <1>2, <1>4 DEF NeverRefused, Faithful
<1>6. ~Open'
  BY <1>4, NobodyOpen DEF Gone
<1>7. QED
  BY <1>3, <1>5, <1>6 DEF StreamInv

-----------------------------------------------------------------------------
(* Steps that take and write *)

LEMMA Taken ==
    ASSUME StreamInv, NEW x \in Ends, NEW from, NEW to, NEW n \in Nat, NEW s \in Seq(Token),
           Take(x, from, n, to), n <= Len(buf[x]), from # "sync",
           part' = part, chan' = chan, out' = [out EXCEPT ![x] = s]
    PROVE  /\ Drops(Line(x), n, Line(x)') /\ Puts(Line(Other(x)), s, Line(Other(x))')
           /\ buf' \in [Ends -> Seq(Token)] /\ out' \in [Ends -> Seq(Token)]
           /\ pc[x] = from /\ pc'[x] = to /\ \A y \in Ends : y # x => pc'[y] = pc[y]
           /\ DOMAIN pc' = Ends
<1>1. Types /\ Stages
  BY DEF StreamInv, Take
<1>2. /\ pc[x] = from /\ out[x] = << >> /\ buf' = [buf EXCEPT ![x] = SubSeq(buf[x], n + 1, Len(buf[x]))]
      /\ pc' = [pc EXCEPT ![x] = to]
  BY <1>1 DEF Take, Writing, Types
<1>3. part[x] = << >>
  BY <1>1, <1>2 DEF Stages
<1>4. /\ Drops(Line(x), n, Line(x)') /\ Puts(Line(Other(x)), s, Line(Other(x))')
      /\ buf' \in [Ends -> Seq(Token)] /\ out' \in [Ends -> Seq(Token)]
  BY <1>1, <1>2, <1>3, StepLines
<1>5. /\ pc'[x] = to /\ \A y \in Ends : y # x => pc'[y] = pc[y]
      /\ DOMAIN pc' = Ends
  BY <1>1, <1>2 DEF Types
<1>6. QED
  BY <1>2, <1>4, <1>5

LEMMA TakenOnly ==
    ASSUME StreamInv, NEW x \in Ends, NEW from, NEW to, NEW n \in Nat,
           Take(x, from, n, to), n <= Len(buf[x]), from # "sync",
           part' = part, chan' = chan, out' = out
    PROVE  /\ Drops(Line(x), n, Line(x)') /\ Line(Other(x))' = Line(Other(x))
           /\ buf' \in [Ends -> Seq(Token)]
           /\ pc[x] = from /\ pc'[x] = to /\ \A y \in Ends : y # x => pc'[y] = pc[y]
           /\ DOMAIN pc' = Ends
<1>1. Types /\ out[x] = << >>
  BY DEF StreamInv, Take, Writing
<1>2. PICK s : s = << >>
  OBVIOUS
<1>3. out' = [out EXCEPT ![x] = s] /\ s \in Seq(Token)
  <2>1. out \in [Ends -> Seq(Token)]
    BY <1>1 DEF Types
  <2>2. QED
    BY <1>1, <1>2, <2>1, EmptySeq
<1>4. /\ Drops(Line(x), n, Line(x)') /\ Puts(Line(Other(x)), s, Line(Other(x))')
      /\ buf' \in [Ends -> Seq(Token)] /\ out' \in [Ends -> Seq(Token)]
      /\ pc[x] = from /\ pc'[x] = to /\ \A y \in Ends : y # x => pc'[y] = pc[y]
      /\ DOMAIN pc' = Ends
  BY <1>3, Taken
<1>5. PICK y \in Ends : y = Other(x) /\ x = Other(y) /\ y # x
  BY TwoEnds
<1>6. Line(y)' = Line(y)
  <2>1. buf'[y] = buf[y]
    BY <1>1, <1>5 DEF Take, Types
  <2>2. QED
    BY <1>5, <2>1 DEF Line
<1>7. QED
  BY <1>4, <1>5, <1>6

(* What is in the buffer comes first. *)
LEMMA BufferIsFirst ==
    ASSUME Types, NEW x \in Ends, part[x] = << >>
    PROVE  /\ Len(buf[x]) <= Len(Line(x)) /\ Len(buf[x]) \in Nat /\ Len(Line(x)) \in Nat
           /\ \A i \in 1..Len(buf[x]) : buf[x][i] = Line(x)[i]
<1>1. PICK e, b, c, d : e = part[x] /\ b = buf[x] /\ c = chan[x] /\ d = out[Other(x)]
  OBVIOUS
<1>2. b \in Seq(Token) /\ c \in Seq(Token) /\ d \in Seq(Token)
  BY <1>1, TwoEnds DEF Types
<1>3. e = << >>
  BY <1>1
<1>4. /\ Joined(<< >>, b, c, d) \in Seq(Token)
      /\ Len(Joined(<< >>, b, c, d)) = Len(b) + Len(c) + Len(d)
      /\ \A i \in 1..(Len(b) + Len(c) + Len(d)) : Joined(<< >>, b, c, d)[i] = InRow(<< >>, b, c, d, i)
  BY ONLY <1>2, RowFromSecond
<1>5. Line(x) = Joined(<< >>, b, c, d)
  BY <1>1, <1>3 DEF Line
<1>6. PICK lb \in Nat, lc \in Nat, ld \in Nat : lb = Len(b) /\ lc = Len(c) /\ ld = Len(d)
  BY <1>2
<1>7. \A i \in 1..lb : InRow(e, b, c, d, i) = b[i]
  <2>1. Len(e) = 0 /\ \A i \in 1..lb : i - 0 = i /\ ~(i <= 0) /\ i <= 0 + lb
    BY <1>3, <1>6
  <2>2. QED
    BY <1>6, <2>1 DEF InRow
<1>8. \A i \in 1..lb : i \in 1..(lb + lc + ld)
  BY <1>6
<1>9. lb <= lb + lc + ld /\ lb + lc + ld \in Nat
  BY <1>6
<1>10. QED
  BY <1>1, <1>3, <1>4, <1>5, <1>6, <1>7, <1>8, <1>9

-----------------------------------------------------------------------------
(* Synchronising *)

LEMMA EveryRow ==
    \A S : \A a, b, c, d \in Seq(S) :
        /\ Len(Joined(a, b, c, d)) = Len(a) + Len(b) + Len(c) + Len(d)
        /\ \A i \in 1..(Len(a) + Len(b) + Len(c) + Len(d)) : Joined(a, b, c, d)[i] = InRow(a, b, c, d, i)
BY Row

(* What has been read comes first. *)
LEMMA SeenIsFirst ==
    ASSUME NEW S, NEW a, NEW b, NEW c, NEW d
    PROVE  a \in Seq(S) /\ b \in Seq(S) /\ c \in Seq(S) /\ d \in Seq(S)
           => /\ Len(a \o b) = Len(a) + Len(b)
              /\ Len(a \o b) <= Len(Joined(a, b, c, d))
              /\ \A i \in 1..Len(a \o b) : (a \o b)[i] = Joined(a, b, c, d)[i]
<1>0. HAVE a \in Seq(S) /\ b \in Seq(S) /\ c \in Seq(S) /\ d \in Seq(S)
<1>1. PICK ab : ab = a \o b
  OBVIOUS
<1>2. ab \in Seq(S) /\ Len(ab) = Len(a) + Len(b)
  BY <1>0, <1>1, ConcatProperties
<1>3. PICK e : e = << >>
  OBVIOUS
<1>4. e \in Seq(S) /\ c \in Seq(S) /\ d \in Seq(S) /\ ab \in Seq(S) /\ Len(e) = 0
  BY <1>0, <1>2, <1>3, EmptySeq
<1>5. /\ Len(Joined(ab, e, c, d)) = Len(ab) + Len(e) + Len(c) + Len(d)
      /\ \A i \in 1..(Len(ab) + Len(e) + Len(c) + Len(d)) : Joined(ab, e, c, d)[i] = InRow(ab, e, c, d, i)
  <2>1. ab \in Seq(S) /\ e \in Seq(S) /\ c \in Seq(S) /\ d \in Seq(S)
    BY <1>4
  <2>2. QED
    BY ONLY <2>1, EveryRow
<1>6. Joined(ab, e, c, d) = Joined(a, b, c, d)
  BY <1>0, <1>1, <1>3, RowMoves
<1>7. PICK l \in Nat, lc \in Nat, ld \in Nat : l = Len(ab) /\ lc = Len(c) /\ ld = Len(d)
  BY <1>4
<1>8. \A i \in 1..l : i \in 1..(l + 0 + lc + ld) /\ i <= l
  BY <1>7
<1>9. \A i \in 1..l : InRow(ab, e, c, d, i) = ab[i]
  BY <1>7, <1>8 DEF InRow
<1>10. \A i \in 1..l : Joined(ab, e, c, d)[i] = ab[i]
  BY <1>4, <1>5, <1>7, <1>8, <1>9
<1>11. l <= l + 0 + lc + ld
  BY <1>7
<1>12. QED
  BY <1>1, <1>2, <1>4, <1>5, <1>6, <1>7, <1>10, <1>11

LEMMA SyncTaken ==
    ASSUME StreamInv, NEW x \in Ends, NEW mark \in {Hash1, VcB}, NEW to,
           SyncFor(x, mark, to), chan' = chan, out' = out,
           NEW k \in Pads, Padding(Line(x), 0, k, mark),
           (MarkAt(Line(x), k, mark) /\ Len(part[x]) <= k + 1) \/ Len(Line(x)) = k
    PROVE  /\ Line(Other(x))' = Line(Other(x)) /\ part'[Other(x)] = part[Other(x)]
           /\ buf' \in [Ends -> Seq(Token)] /\ part' \in [Ends -> Seq(Token)]
           /\ \A y \in Ends : Len(part'[y]) <= MaxPad + 1
           /\ pc[x] = "sync" /\ (\A y \in Ends : y # x => pc'[y] = pc[y]) /\ DOMAIN pc' = Ends
           /\ \/ /\ pc'[x] = to /\ part'[x] = << >>
                 /\ Drops(Line(x), k + 2, Line(x)') /\ Len(Line(x)) # k
              \/ /\ pc'[x] = "sync" /\ Len(part'[x]) <= k + 1
                 /\ Line(x)' = Line(x)
<1>1. Types
  BY DEF StreamInv
<1>2. PICK y \in Ends : y = Other(x) /\ x = Other(y) /\ y # x
  BY TwoEnds
<1>3. PICK a, b, c, d : a = part[x] /\ b = buf[x] /\ c = chan[x] /\ d = out[y]
  OBVIOUS
<1>4. a \in Seq(Token) /\ b \in Seq(Token) /\ c \in Seq(Token) /\ d \in Seq(Token)
  BY <1>1, <1>2, <1>3 DEF Types
<1>5. PICK s, seen : s = Line(x) /\ seen = a \o b
  OBVIOUS
<1>6. s = Joined(a, b, c, d)
  BY <1>2, <1>3, <1>5 DEF Line
<1>7. s \in Seq(Token)
  BY <1>1, <1>5, LinesAreTokens
<1>8. /\ seen \in Seq(Token) /\ Len(seen) = Len(a) + Len(b) /\ Len(seen) <= Len(s)
      /\ \A i \in 1..Len(seen) : seen[i] = s[i]
  <2>1. /\ Len(a \o b) = Len(a) + Len(b)
        /\ Len(a \o b) <= Len(Joined(a, b, c, d))
        /\ \A i \in 1..Len(a \o b) : (a \o b)[i] = Joined(a, b, c, d)[i]
    BY ONLY <1>4, SeenIsFirst
  <2>2. QED
    BY <1>4, <1>5, <1>6, <2>1, ConcatProperties
<1>9. k \in Nat /\ k < MaxPad /\ MaxPad \in Nat
  BY PeStreamAssumption DEF Pads
<1>10. Position(mark, seen) = IF Len(seen) >= k + 2 THEN k + 1 ELSE 0
  <2>1. Padding(s, 0, k, mark)
    BY <1>5
  <2>2. MarkAt(s, k, mark) \/ Len(seen) <= k
    BY <1>5, <1>8
  <2>3. QED
    BY <1>7, <1>8, <1>9, <2>1, <2>2, MarkFound
<1>11. Len(mark) = 2
  BY Marks
<1>12. PICK la \in Nat, lb \in Nat, l \in Nat : la = Len(a) /\ lb = Len(b) /\ l = Len(seen) /\ l = la + lb
  BY <1>4, <1>8
<1>13. PICK at : at = Position(mark, seen)
  OBVIOUS
<1>14. /\ pc[x] = "sync"
       /\ pc' = [pc EXCEPT ![x] = IF at > 0 THEN to ELSE IF l >= MaxPad + 2 THEN "refused" ELSE "sync"]
       /\ buf' = [buf EXCEPT ![x] = IF at > 0 THEN SubSeq(b, at + 2 - la, lb) ELSE << >>]
       /\ part' = [part EXCEPT ![x] = IF at > 0 THEN << >> ELSE seen]
  BY <1>3, <1>5, <1>11, <1>12, <1>13 DEF SyncFor, Rest
<1>15. /\ buf \in [Ends -> Seq(Token)] /\ part \in [Ends -> Seq(Token)] /\ DOMAIN pc = Ends
       /\ \A z \in Ends : Len(part[z]) <= MaxPad + 1
  BY <1>1 DEF Types
<1>16. PICK e : e = << >>
  OBVIOUS
<1>17. e \in Seq(Token) /\ Len(e) = 0
  BY <1>16, EmptySeq
<1>18. CASE l >= k + 2
  <2>1. at = k + 1 /\ at > 0 /\ at + 2 - la = k + 2 + 1 - la
    <3>1. at = k + 1
      BY <1>10, <1>12, <1>13, <1>18
    <3>2. QED
      BY <1>9, <1>12, <3>1
  <2>2. PICK r : r = SubSeq(b, k + 2 + 1 - la, lb)
    OBVIOUS
  <2>3. la <= k + 2 /\ k + 2 <= la + lb /\ k + 2 \in Nat /\ Len(s) # k
    <3>1. Len(seen) <= Len(s) /\ Len(s) \in Nat
      BY <1>7, <1>8
    <3>2. Len(s) # k
      BY <1>9, <1>12, <1>18, <3>1
    <3>3. la <= k + 1
      BY <1>3, <1>5, <1>12, <3>2
    <3>4. QED
      BY <1>9, <1>12, <1>18, <3>2, <3>3
  <2>4. r \in Seq(Token) /\ Drops(s, k + 2, Joined(e, r, c, d))
    <3>1. PICK n : n = k + 2
      OBVIOUS
    <3>2. n \in Nat /\ Len(a) <= n /\ n <= Len(a) + Len(b)
      BY <1>12, <2>3, <3>1
    <3>3. /\ SubSeq(b, n + 1 - Len(a), Len(b)) \in Seq(Token)
          /\ Drops(Joined(a, b, c, d), n, Joined(<< >>, SubSeq(b, n + 1 - Len(a), Len(b)), c, d))
      BY <1>4, <3>2, DropRow
    <3>4. QED
      BY <1>6, <1>12, <1>16, <2>2, <3>1, <3>3
  <2>5. /\ pc' = [pc EXCEPT ![x] = to] /\ buf' = [buf EXCEPT ![x] = r] /\ part' = [part EXCEPT ![x] = e]
    BY <1>14, <1>16, <2>1, <2>2
  <2>6. /\ pc'[x] = to /\ buf'[x] = r /\ part'[x] = e /\ buf'[y] = buf[y] /\ part'[y] = part[y]
        /\ (\A z \in Ends : z # x => pc'[z] = pc[z]) /\ DOMAIN pc' = Ends
        /\ buf' \in [Ends -> Seq(Token)] /\ part' \in [Ends -> Seq(Token)]
    BY <1>2, <1>15, <1>17, <2>4, <2>5
  <2>7. Line(x)' = Joined(e, r, c, d)
    BY <1>2, <1>3, <2>6 DEF Line
  <2>8. Line(y)' = Line(y)
    BY <1>2, <2>6 DEF Line
  <2>9. \A z \in Ends : Len(part'[z]) <= MaxPad + 1
    <3>1. 0 <= MaxPad + 1
      BY <1>9
    <3>2. QED
      BY <1>2, <1>15, <1>17, <2>6, <3>1, TwoEnds
  <2>10. QED
    BY <1>2, <1>5, <1>14, <1>16, <2>3, <2>4, <2>6, <2>7, <2>8, <2>9
<1>19. CASE l < k + 2
  <2>1. at = 0 /\ ~(l >= MaxPad + 2) /\ l <= k + 1 /\ l <= MaxPad + 1
    <3>1. ~(l >= k + 2)
      BY <1>9, <1>12, <1>19
    <3>2. at = 0
      BY <1>10, <1>12, <1>13, <3>1
    <3>3. QED
      BY <1>9, <1>12, <1>19, <3>2
  <2>2. /\ pc' = [pc EXCEPT ![x] = "sync"] /\ buf' = [buf EXCEPT ![x] = e] /\ part' = [part EXCEPT ![x] = seen]
    BY <1>14, <1>16, <2>1
  <2>3. /\ pc'[x] = "sync" /\ buf'[x] = e /\ part'[x] = seen /\ buf'[y] = buf[y] /\ part'[y] = part[y]
        /\ (\A z \in Ends : z # x => pc'[z] = pc[z]) /\ DOMAIN pc' = Ends
        /\ buf' \in [Ends -> Seq(Token)] /\ part' \in [Ends -> Seq(Token)]
    BY <1>2, <1>8, <1>15, <1>17, <2>2
  <2>4. Line(x)' = Joined(seen, e, c, d)
    BY <1>2, <1>3, <2>3 DEF Line
  <2>5. Joined(seen, e, c, d) = Joined(a, b, c, d)
    BY <1>4, <1>5, <1>16, RowMoves
  <2>6. Line(y)' = Line(y)
    BY <1>2, <2>3 DEF Line
  <2>7. \A z \in Ends : Len(part'[z]) <= MaxPad + 1
    BY <1>2, <1>12, <1>15, <2>1, <2>3, TwoEnds
  <2>8. QED
    BY <1>2, <1>5, <1>6, <1>12, <1>14, <2>1, <2>3, <2>4, <2>5, <2>6, <2>7
<1>20. QED
  BY <1>9, <1>12, <1>18, <1>19

-----------------------------------------------------------------------------
(* Before anything is written *)

LEMMA NothingSaid ==
    ASSUME StreamInv, Open, NEW x \in Ends, pc[x] \in Shaking \cup {"up"}
    PROVE  wrote[x] = << >> /\ read[x] = << >> /\ Start(x) = enc[x] /\ enc[x] \in Nat
<1>1. wrote[x] = << >> /\ Len(read[x]) <= Len(wrote[x]) /\ read[x] \in Seq(Content) /\ enc[x] \in Nat
  BY DEF StreamInv, Stages, Faithful, Types
<1>2. read[x] = << >>
  <2>1. Len(read[x]) = 0
    BY <1>1
  <2>2. QED
    BY <1>1, <2>1, EmptySeq
<1>3. Len(wrote[x]) = 0 /\ Len(read[x]) = 0
  BY <1>1, <1>2
<1>4. Start(x) = enc[x]
  BY <1>1, <1>3 DEF Start, Unread
<1>5. QED
  BY <1>1, <1>2, <1>4

LEMMA NothingAheadNext ==
    ASSUME NEW x \in Ends, wrote'[Other(x)] = << >>, read'[Other(x)] = << >>, NEW k \in Nat, Len(Line(x)') = k
    PROVE  Ahead(x, k)'
<1>1. PICK s, key, from : s = Line(x)' /\ key = KeyOf(Other(x))' /\ from = Start(Other(x))'
  OBVIOUS
<1>2. Carried(s, k, << >>, << >>, key, from) <=> Len(s) = k
  BY CarriedNone
<1>3. QED
  BY <1>1, <1>2 DEF Ahead

(* A key and padding behind it. *)
LEMMA KeyAndPad ==
    ASSUME NEW mark \in {Hash1, VcB}, NEW pad \in PadBefore(mark)
    PROVE  /\ Key \o pad \in Seq(Token) /\ Len(pad) \in Pads /\ Len(Key \o pad) = Len(pad) + 2
           /\ (Key \o pad)[1] = Key[1]
           /\ \A i \in 1..Len(pad) : (Key \o pad)[2 + i] # mark[2]
<1>1. PICK a, s : a = Key /\ s = a \o pad
  OBVIOUS
<1>2. a \in Seq(Token) /\ Len(a) = 2
  BY <1>1, Marks
<1>3. pad \in Seq(Token) /\ Len(pad) \in Pads /\ \A i \in 1..Len(pad) : pad[i] # mark[2]
  BY PadHasNoMark
<1>4. /\ s \in Seq(Token) /\ Len(s) = Len(a) + Len(pad)
      /\ \A i \in 1..(Len(a) + Len(pad)) : s[i] = IF i <= Len(a) THEN a[i] ELSE pad[i - Len(a)]
  BY <1>1, <1>2, <1>3, ConcatProperties
<1>5. PICK n \in Nat : n = Len(pad)
  BY <1>3
<1>6. Len(s) = n + 2
  BY <1>2, <1>4, <1>5
<1>7. s[1] = a[1]
  <2>1. 1 \in 1..(2 + n) /\ 1 <= 2
    BY <1>5
  <2>2. QED
    BY <1>2, <1>4, <1>5, <2>1
<1>8. ASSUME NEW i \in 1..n
      PROVE  s[2 + i] # mark[2]
  <2>1. 2 + i \in 1..(2 + n) /\ ~(2 + i <= 2) /\ 2 + i - 2 = i
    BY <1>5
  <2>2. s[2 + i] = pad[i]
    BY <1>2, <1>4, <1>5, <2>1
  <2>3. QED
    BY <1>3, <1>5, <2>2
<1>9. QED
  BY <1>1, <1>3, <1>4, <1>5, <1>6, <1>7, <1>8

(* Histories that stay. *)
LEMMA HistoriesKept ==
    ASSUME Types, Faithful, wrote' = wrote, read' = read
    PROVE  Faithful'
BY DEF Faithful

LEMMA DropsNothing == \A s, t : Drops(s, 0, t) /\ Len(s) = 0 => Len(t) = 0
BY DEF Drops

-----------------------------------------------------------------------------
(* client_handshake *)

LEMMA ClientStartStep ==
    ASSUME StreamInv, ClientStart, me' = me
    PROVE  StreamInv'
<1>1. Types /\ NeverRefused /\ Faithful /\ Stages /\ ToServer /\ ToClient /\ Talks /\ Open
  BY DEF StreamInv, ClientStart, Take
<1>2. UNCHANGED <<mode, offer, lru, chan, part, enc, dec, cipher, pads, wrote, read>>
      /\ hash' = [hash EXCEPT !["client"] = Wanted]
  BY DEF ClientStart
<1>3. "client" \in Ends /\ "server" \in Ends /\ Other("client") = "server" /\ Other("server") = "client"
  BY DEF Ends, Other
<1>4. pc["client"] = "start" /\ pc["server"] = "first" /\ out["client"] = << >>
  BY <1>1 DEF ClientStart, Take, Writing, Stages, Pairs, Up, Answered
<1>5. /\ wrote["client"] = << >> /\ read["client"] = << >> /\ wrote["server"] = << >> /\ read["server"] = << >>
  BY <1>1, <1>3, <1>4, NothingSaid DEF Shaking
<1>6. Len(Line("server")) = 0 /\ Len(Line("client")) = 0
  BY <1>1, <1>4 DEF ToServer, KeyComes, ToClient, AnswerComes
<1>7. hash' \in [Ends -> Hashes \cup {NoHash}] /\ hash'["client"] = Wanted /\ hash'["server"] = hash["server"]
  BY <1>1, <1>2, <1>3, PeStreamAssumption DEF Types
<1>8. Faithful'
  BY <1>1, <1>2, HistoriesKept
<1>9. Len(buf["client"]) \in Nat
  <2>1. buf["client"] \in Seq(Token)
    BY <1>1, <1>3 DEF Types
  <2>2. QED
    BY <2>1
<1>10. CASE mode = "pe"
  <2>1. PICK pad \in PadBefore(Hash1) : out' = [out EXCEPT !["client"] = Key \o pad]
    BY <1>10 DEF ClientStart, Put
  <2>2. PICK s : s = Key \o pad
    OBVIOUS
  <2>3. PICK k \in Pads : k = Len(pad)
    BY KeyAndPad
  <2>4. s \in Seq(Token) /\ Len(s) = k + 2 /\ s[1] = Key[1] /\ \A i \in 1..k : s[2 + i] # Hash1[2]
    BY <2>2, <2>3, KeyAndPad
  <2>5. Take("client", "start", 0, "server key") /\ out' = [out EXCEPT !["client"] = s]
    BY <1>10, <2>1, <2>2 DEF ClientStart
  <2>6. /\ Drops(Line("client"), 0, Line("client")') /\ Puts(Line("server"), s, Line("server")')
        /\ buf' \in [Ends -> Seq(Token)] /\ out' \in [Ends -> Seq(Token)]
        /\ pc'["client"] = "server key" /\ pc'["server"] = "first" /\ DOMAIN pc' = Ends
    <3>1. 0 \in Nat /\ 0 <= Len(buf["client"]) /\ "start" # "sync" /\ part' = part /\ chan' = chan
      BY <1>2, <1>9
    <3>2. /\ Drops(Line("client"), 0, Line("client")') /\ Puts(Line(Other("client")), s, Line(Other("client"))')
          /\ buf' \in [Ends -> Seq(Token)] /\ out' \in [Ends -> Seq(Token)]
          /\ pc'["client"] = "server key" /\ (\A y \in Ends : y # "client" => pc'[y] = pc[y])
          /\ DOMAIN pc' = Ends
      BY <1>3, <2>4, <2>5, <3>1, Taken
    <3>3. QED
      BY <1>3, <1>4, <3>2
  <2>7. Types'
    BY <1>1, <1>2, <1>7, <2>6 DEF Types
  <2>8. NeverRefused'
    BY <2>6 DEF NeverRefused, Ends
  <2>9. Stages'
    BY <1>1, <1>2, <1>4, <1>7, <1>10, <2>6 DEF Stages, Pairs, Shaking, Up, Answered, Ends
  <2>10. k \in Nat /\ k + 2 \in Nat
    BY DEF Pads
  <2>11. Len(Line("client")') = 0
    BY <1>6, <2>6, DropsNothing
  <2>12. /\ Len(Line("server")') = k + 2 /\ \A i \in 1..(k + 2) : Line("server")'[i] = s[i]
    <3>1. PICK t, z : t = Line("server")' /\ z = Line("server")
      OBVIOUS
    <3>2. Len(t) = Len(z) + Len(s) /\ \A i \in 1..Len(s) : t[Len(z) + i] = s[i]
      BY <2>6, <3>1 DEF Puts
    <3>3. Len(z) = 0 /\ Len(s) = k + 2 /\ 0 + (k + 2) = k + 2 /\ \A i \in 1..(k + 2) : 0 + i = i
      BY <1>6, <2>4, <2>10, <3>1
    <3>4. QED
      BY <3>1, <3>2, <3>3
  <2>13. Padding(Line("server")', 2, k, Hash1) /\ Line("server")'[1] = Key[1]
    <3>1. 1 \in 1..(k + 2) /\ \A i \in 1..k : 2 + i \in 1..(k + 2)
      BY <2>10
    <3>2. QED
      BY <2>4, <2>12, <3>1 DEF Padding
  <2>14. ToServer'
    BY <2>6, <2>12, <2>13 DEF ToServer, KeyComes, RestOfKeyComes, MarkComes, HashComes, HeaderComes, PadComes, Padding
  <2>15. ToClient'
    BY <2>6, <2>11 DEF ToClient, AnswerComes, VcComes, ChoiceComes, LastPadComes
  <2>16. Talks'
    BY <2>6 DEF Talks, Ends, Up
  <2>17. QED
    BY <1>8, <2>7, <2>8, <2>9, <2>14, <2>15, <2>16 DEF StreamInv
<1>11. CASE mode # "pe"
  <2>1. Take("client", "start", 0, "up") /\ out' = out /\ mode = "plain"
    BY <1>1, <1>11 DEF ClientStart, Types
  <2>2. /\ Drops(Line("client"), 0, Line("client")') /\ Line("server")' = Line("server")
        /\ buf' \in [Ends -> Seq(Token)]
        /\ pc'["client"] = "up" /\ pc'["server"] = "first" /\ DOMAIN pc' = Ends
    <3>1. 0 \in Nat /\ 0 <= Len(buf["client"]) /\ "start" # "sync" /\ part' = part /\ chan' = chan
      BY <1>2, <1>9
    <3>2. /\ Drops(Line("client"), 0, Line("client")') /\ Line(Other("client"))' = Line(Other("client"))
          /\ buf' \in [Ends -> Seq(Token)]
          /\ pc'["client"] = "up" /\ (\A y \in Ends : y # "client" => pc'[y] = pc[y])
          /\ DOMAIN pc' = Ends
      BY <1>3, <2>1, <3>1, TakenOnly
    <3>3. QED
      BY <1>3, <1>4, <3>2
  <2>3. Types'
    BY <1>1, <1>2, <1>7, <2>1, <2>2 DEF Types
  <2>4. NeverRefused'
    BY <2>2 DEF NeverRefused, Ends
  <2>5. cipher["client"] = "none" /\ cipher["server"] = "none"
    BY <1>1, <2>1 DEF Stages
  <2>6. Stages'
    BY <1>1, <1>2, <1>4, <1>5, <2>1, <2>2, <2>5 DEF Stages, Pairs, Shaking, Up, Answered, Ends
  <2>7. Len(Line("client")') = 0 /\ Len(Line("server")') = 0
    BY <1>6, <2>2 DEF Drops
  <2>8. Ahead("client", 0)' /\ Ahead("server", 0)'
    BY <1>2, <1>3, <1>5, <2>7, NothingAheadNext
  <2>9. ToServer'
    BY <1>2, <1>5, <2>2, <2>8 DEF ToServer, KeyComes, RestOfKeyComes, MarkComes, HashComes, HeaderComes, PadComes
  <2>10. ToClient'
    BY <2>2 DEF ToClient, AnswerComes, VcComes, ChoiceComes, LastPadComes
  <2>11. Talks'
    BY <1>2, <2>2, <2>5, <2>8 DEF Talks, Talk, Ends, Up
  <2>12. QED
    BY <1>8, <2>3, <2>4, <2>6, <2>9, <2>10, <2>11 DEF StreamInv
<1>12. QED
  BY <1>10, <1>11

LEMMA EndNames ==
    "client" \in Ends /\ "server" \in Ends /\ Other("client") = "server" /\ Other("server") = "client"
    /\ \A x \in Ends : x = "client" \/ x = "server"
BY DEF Ends, Other

(* One end moves: what its stage says of it has to be seen to, the other's stays. *)
LEMMA OneEndMoves ==
    ASSUME Stages, NEW x \in Ends, wrote' = wrote, read' = read, pc'[Other(x)] = pc[Other(x)],
           part'[Other(x)] = part[Other(x)], out'[Other(x)] = out[Other(x)],
           wrote[x] = << >>, read[Other(x)] = << >>,
           pc'[x] # "sync" => part'[x] = << >>, pc'[x] = "up" => out'[x] = << >>
    PROVE  \A z \in Ends : /\ pc'[z] \in Shaking \cup {"up"} => wrote'[z] = << >>
                           /\ pc'[z] \in Shaking => read'[Other(z)] = << >>
                           /\ pc'[z] # "sync" => part'[z] = << >>
                           /\ pc'[z] = "up" => out'[z] = << >>
<1>1. PICK y \in Ends : y = Other(x) /\ \A z \in Ends : z = x \/ z = y
  BY TwoEnds
<1>2. /\ pc[y] \in Shaking \cup {"up"} => wrote[y] = << >>
      /\ pc[y] \in Shaking => read[Other(y)] = << >>
      /\ pc[y] # "sync" => part[y] = << >>
      /\ pc[y] = "up" => out[y] = << >>
  BY DEF Stages
<1>3. QED
  BY <1>1, <1>2

LEMMA DropsAt ==
    ASSUME NEW s, NEW t, NEW n \in Nat, NEW k \in Nat, Drops(s, n, t), Len(s) = n + k
    PROVE  Len(t) = k /\ \A i \in 1..k : t[i] = s[n + i]
<1>1. n + k - n = k
  OBVIOUS
<1>2. QED
  BY <1>1 DEF Drops

LEMMA PutsAt ==
    ASSUME NEW s, NEW e, NEW t, NEW k \in Nat, NEW m \in Nat, Puts(s, e, t), Len(s) = k, Len(e) = m
    PROVE  Len(t) = k + m /\ (\A i \in 1..k : t[i] = s[i]) /\ \A i \in 1..m : t[k + i] = e[i]
BY DEF Puts

LEMMA ClientTakes ==
    ASSUME StreamInv, NEW from, NEW to, NEW n \in Nat, NEW s \in Seq(Token),
           Take("client", from, n, to), n <= Len(buf["client"]), from # "sync",
           part' = part, chan' = chan, out' = [out EXCEPT !["client"] = s]
    PROVE  /\ Drops(Line("client"), n, Line("client")') /\ Puts(Line("server"), s, Line("server")')
           /\ buf' \in [Ends -> Seq(Token)] /\ out' \in [Ends -> Seq(Token)]
           /\ pc'["client"] = to /\ pc'["server"] = pc["server"] /\ DOMAIN pc' = Ends
<1>1. /\ Drops(Line("client"), n, Line("client")') /\ Puts(Line(Other("client")), s, Line(Other("client"))')
      /\ buf' \in [Ends -> Seq(Token)] /\ out' \in [Ends -> Seq(Token)]
      /\ pc'["client"] = to /\ (\A y \in Ends : y # "client" => pc'[y] = pc[y]) /\ DOMAIN pc' = Ends
  BY EndNames, Taken
<1>2. QED
  BY <1>1, EndNames

LEMMA ServerTakes ==
    ASSUME StreamInv, NEW from, NEW to, NEW n \in Nat, NEW s \in Seq(Token),
           Take("server", from, n, to), n <= Len(buf["server"]), from # "sync",
           part' = part, chan' = chan, out' = [out EXCEPT !["server"] = s]
    PROVE  /\ Drops(Line("server"), n, Line("server")') /\ Puts(Line("client"), s, Line("client")')
           /\ buf' \in [Ends -> Seq(Token)] /\ out' \in [Ends -> Seq(Token)]
           /\ pc'["server"] = to /\ pc'["client"] = pc["client"] /\ DOMAIN pc' = Ends
<1>1. /\ Drops(Line("server"), n, Line("server")') /\ Puts(Line(Other("server")), s, Line(Other("server"))')
      /\ buf' \in [Ends -> Seq(Token)] /\ out' \in [Ends -> Seq(Token)]
      /\ pc'["server"] = to /\ (\A y \in Ends : y # "server" => pc'[y] = pc[y]) /\ DOMAIN pc' = Ends
  BY EndNames, Taken
<1>2. QED
  BY <1>1, EndNames

LEMMA ClientTakesOnly ==
    ASSUME StreamInv, NEW from, NEW to, NEW n \in Nat,
           Take("client", from, n, to), n <= Len(buf["client"]), from # "sync",
           part' = part, chan' = chan, out' = out
    PROVE  /\ Drops(Line("client"), n, Line("client")') /\ Line("server")' = Line("server")
           /\ buf' \in [Ends -> Seq(Token)]
           /\ pc'["client"] = to /\ pc'["server"] = pc["server"] /\ DOMAIN pc' = Ends
<1>1. /\ Drops(Line("client"), n, Line("client")') /\ Line(Other("client"))' = Line(Other("client"))
      /\ buf' \in [Ends -> Seq(Token)]
      /\ pc'["client"] = to /\ (\A y \in Ends : y # "client" => pc'[y] = pc[y]) /\ DOMAIN pc' = Ends
  BY EndNames, TakenOnly
<1>2. QED
  BY <1>1, EndNames

LEMMA ServerTakesOnly ==
    ASSUME StreamInv, NEW from, NEW to, NEW n \in Nat,
           Take("server", from, n, to), n <= Len(buf["server"]), from # "sync",
           part' = part, chan' = chan, out' = out
    PROVE  /\ Drops(Line("server"), n, Line("server")') /\ Line("client")' = Line("client")
           /\ buf' \in [Ends -> Seq(Token)]
           /\ pc'["server"] = to /\ pc'["client"] = pc["client"] /\ DOMAIN pc' = Ends
<1>1. /\ Drops(Line("server"), n, Line("server")') /\ Line(Other("server"))' = Line(Other("server"))
      /\ buf' \in [Ends -> Seq(Token)]
      /\ pc'["server"] = to /\ (\A y \in Ends : y # "server" => pc'[y] = pc[y]) /\ DOMAIN pc' = Ends
  BY EndNames, TakenOnly
<1>2. QED
  BY <1>1, EndNames

(* Its buffer is at the beginning of the line of one who does not synchronise. *)
LEMMA BufferedFirst ==
    ASSUME StreamInv, Open, NEW x \in Ends, pc[x] # "sync"
    PROVE  /\ Len(buf[x]) <= Len(Line(x)) /\ Len(buf[x]) \in Nat /\ Len(Line(x)) \in Nat
           /\ \A i \in 1..Len(buf[x]) : buf[x][i] = Line(x)[i]
<1>1. Types /\ part[x] = << >>
  BY DEF StreamInv, Stages
<1>2. QED
  BY <1>1, BufferIsFirst

LEMMA PartInLine ==
    ASSUME Types, NEW x \in Ends
    PROVE  Len(part[x]) \in Nat /\ Len(Line(x)) \in Nat /\ Len(part[x]) <= Len(Line(x))
<1>1. PICK a, b, c, d : a = part[x] /\ b = buf[x] /\ c = chan[x] /\ d = out[Other(x)]
  OBVIOUS
<1>2. a \in Seq(Token) /\ b \in Seq(Token) /\ c \in Seq(Token) /\ d \in Seq(Token)
  BY <1>1, TwoEnds DEF Types
<1>3. PICK la \in Nat, lb \in Nat, lc \in Nat, ld \in Nat : la = Len(a) /\ lb = Len(b) /\ lc = Len(c) /\ ld = Len(d)
  BY <1>2
<1>4. Len(Line(x)) = la + lb + lc + ld
  BY <1>1, <1>3, LinesAreTokens
<1>5. la + lb + lc + ld \in Nat /\ la <= la + lb + lc + ld
  BY <1>3
<1>6. QED
  BY <1>1, <1>3, <1>4, <1>5

LEMMA PadsAreNat == \A k \in Pads : k \in Nat
BY DEF Pads

LEMMA ClientKeyStep ==
    ASSUME StreamInv, ClientKey, me' = me
    PROVE  StreamInv'
<1>1. Types /\ NeverRefused /\ Faithful /\ Stages /\ ToServer /\ ToClient /\ Talks /\ Open
  BY DEF StreamInv, ClientKey, Take
<1>2. UNCHANGED <<mode, offer, lru, chan, part, dec, cipher, hash, pads, wrote, read>>
  BY DEF ClientKey
<1>3. Take("client", "server key", 2, "sync") /\ pc["client"] = "server key" /\ Len(buf["client"]) >= 2
  BY DEF ClientKey, Take, Need
<1>4. PICK n \in Lens : /\ out' = [out EXCEPT !["client"] = HashAndHeader(n)]
                        /\ enc' = [enc EXCEPT !["client"] = Len(ClientHeaderOf(n))]
  BY DEF ClientKey, Put, HashAndHeader, ClientHeaderOf
<1>5. n \in Nat
  BY LensAreNat
<1>6. offer \in 1..3
  BY <1>1 DEF Types
<1>7. PICK s : s = HashAndHeader(n)
  OBVIOUS
<1>8. /\ s \in Seq(Token) /\ Len(s) = n + 8
      /\ s[1] = Hash1[1] /\ s[2] = Hash1[2] /\ s[3] = <<"-", 0, <<"hash2", Wanted>>>>
      /\ s[4] = <<"A", 1, Tag("vc")>> /\ s[5] = <<"A", 2, Tag("vc+")>>
      /\ s[6] = <<"A", 3, <<"crypto", offer>>>> /\ s[7] = <<"A", 4, <<"len", n>>>>
  BY <1>5, <1>6, <1>7, HashAndHeaderTokens
<1>9. Len(ClientHeaderOf(n)) = n + 5
  BY <1>5, <1>6, ClientHeaderContents
<1>10. /\ Drops(Line("client"), 2, Line("client")') /\ Puts(Line("server"), s, Line("server")')
       /\ buf' \in [Ends -> Seq(Token)] /\ out' \in [Ends -> Seq(Token)]
       /\ pc'["client"] = "sync" /\ pc'["server"] = pc["server"] /\ DOMAIN pc' = Ends
  <2>1. 2 \in Nat /\ 2 <= Len(buf["client"]) /\ "server key" # "sync" /\ part' = part /\ chan' = chan
    BY <1>1, <1>2, <1>3, EndNames, BufferedFirst
  <2>2. out' = [out EXCEPT !["client"] = s]
    BY <1>4, <1>7
  <2>3. QED
    BY <1>3, <1>8, <2>1, <2>2, ClientTakes
<1>11. Len(Line("client")) # 0
  <2>1. Len(buf["client"]) <= Len(Line("client")) /\ Len(buf["client"]) \in Nat /\ Len(Line("client")) \in Nat
    BY <1>1, <1>3, EndNames, BufferedFirst
  <2>2. PICK a \in Nat, b \in Nat : a = Len(buf["client"]) /\ b = Len(Line("client"))
    BY <2>1
  <2>3. a >= 2 /\ a <= b
    BY <1>3, <2>1, <2>2
  <2>4. b # 0
    BY ONLY <2>2, <2>3
  <2>5. QED
    BY <2>2, <2>4
<1>12. pc["server"] = "sync"
  BY <1>1, <1>3, <1>11 DEF ToClient, AnswerComes
<1>13. PICK k \in Pads : Len(Line("client")) = 2 + k /\ \A i \in 1..k : Line("client")[2 + i] # VcB[2]
  <2>1. PICK k \in Pads : Len(Line("client")) = k + 2 /\ Padding(Line("client"), 2, k, VcB)
    BY <1>1, <1>3, <1>12 DEF ToClient, AnswerComes
  <2>2. k + 2 = 2 + k
    BY <2>1, PadsAreNat
  <2>3. QED
    BY <2>1, <2>2 DEF Padding
<1>14. Len(Line("client")') = k /\ Padding(Line("client")', 0, k, VcB)
  <2>1. k \in Nat /\ 2 \in Nat
    BY <1>13, PadsAreNat
  <2>2. PICK z, t : z = Line("client") /\ t = Line("client")'
    OBVIOUS
  <2>3. Len(t) = k /\ \A i \in 1..k : t[i] = z[2 + i]
    <3>1. Drops(z, 2, t) /\ Len(z) = 2 + k
      BY <1>10, <1>13, <2>2
    <3>2. QED
      BY ONLY <2>1, <3>1, DropsAt
  <2>4. \A i \in 1..k : 0 + i = i
    BY <2>1
  <2>5. QED
    BY <1>13, <2>2, <2>3, <2>4 DEF Padding
<1>15. PICK j \in Pads : Padding(Line("server"), 0, j, Hash1) /\ Len(Line("server")) = j
  BY <1>1, <1>3, <1>12 DEF ToServer, MarkComes
<1>16. /\ Len(Line("server")') = j + (n + 8) /\ (\A i \in 1..j : Line("server")'[i] = Line("server")[i])
       /\ \A i \in 1..(n + 8) : Line("server")'[j + i] = s[i]
  <2>1. j \in Nat /\ n + 8 \in Nat
    BY <1>5, <1>15, PadsAreNat
  <2>2. PICK z, t : z = Line("server") /\ t = Line("server")'
    OBVIOUS
  <2>3. Len(t) = j + (n + 8) /\ (\A i \in 1..j : t[i] = z[i]) /\ \A i \in 1..(n + 8) : t[j + i] = s[i]
    <3>1. PICK p \in Nat, m \in Nat : p = j /\ m = n + 8
      BY <2>1
    <3>2. Puts(z, s, t) /\ Len(z) = p /\ Len(s) = m
      BY <1>8, <1>10, <1>15, <2>2, <3>1
    <3>3. Len(t) = p + m /\ (\A i \in 1..p : t[i] = z[i]) /\ \A i \in 1..m : t[p + i] = s[i]
      BY ONLY <3>2, p \in Nat, m \in Nat, PutsAt
    <3>4. QED
      BY <3>1, <3>3
  <2>4. QED
    BY <2>2, <2>3
<1>17. Len(part["server"]) <= j + 1
  <2>1. Len(part["server"]) \in Nat /\ Len(part["server"]) <= j /\ j \in Nat
    BY <1>1, <1>15, EndNames, PartInLine, PadsAreNat
  <2>2. QED
    BY <2>1
<1>18. enc' \in [Ends -> Nat] /\ enc'["client"] = n + 5 /\ enc'["server"] = enc["server"]
  BY <1>1, <1>4, <1>5, <1>9, EndNames DEF Types
<1>19. Types'
  BY <1>1, <1>2, <1>10, <1>18 DEF Types
<1>20. NeverRefused' /\ Faithful'
  BY <1>1, <1>2, <1>10, <1>12, EndNames, HistoriesKept DEF NeverRefused
<1>21. Stages'
  BY <1>1, <1>2, <1>3, <1>10, <1>12 DEF Stages, Pairs, Shaking, Up, Answered, Ends
<1>22. ToClient'
  <2>1. VcComes'
    BY <1>10, <1>12, <1>13, <1>14 DEF VcComes, Answered, Up
  <2>2. QED
    BY <1>10, <2>1 DEF ToClient, AnswerComes, ChoiceComes, LastPadComes
<1>23. ToServer'
  <2>1. PICK t : t = Line("server")'
    OBVIOUS
  <2>2. j \in Nat
    BY <1>15, PadsAreNat
  <2>3. /\ j + 1 = j + 1 /\ j + 2 + 1 = j + 3 /\ j + 3 + 1 = j + 4 /\ j + 3 + 2 = j + 5 /\ j + 3 + 3 = j + 6
        /\ j + 3 + 4 = j + 7 /\ j + 3 + n + 5 = j + (n + 8)
        /\ \A i \in {1, 2, 3, 4, 5, 6, 7} : i \in 1..(n + 8)
    BY <1>5, <2>2
  <2>4. /\ t[j + 1] = s[1] /\ t[j + 2] = s[2] /\ t[j + 3] = s[3] /\ t[j + 4] = s[4]
        /\ t[j + 5] = s[5] /\ t[j + 6] = s[6] /\ t[j + 7] = s[7]
    BY <1>16, <2>1, <2>3
  <2>5. MarkAt(t, j, Hash1) /\ HashAt(t, j + 2)
    BY <1>8, <2>3, <2>4 DEF MarkAt, HashAt
  <2>6. HeaderAt(t, j + 3, n)
    BY <1>8, <2>3, <2>4 DEF HeaderAt
  <2>7. Padding(t, 0, j, Hash1)
    <3>1. \A i \in 1..j : 0 + i = i
      BY <2>2
    <3>2. QED
      BY <1>15, <1>16, <2>1, <3>1 DEF Padding
  <2>8. HeaderAt(Line("server"), j + 3, n)'
    BY <1>2, <2>1, <2>6 DEF HeaderAt
  <2>9. MarkAt(Line("server"), j, Hash1)' /\ HashAt(Line("server"), j + 2)' /\ Padding(Line("server"), 0, j, Hash1)'
    BY <2>1, <2>5, <2>7 DEF MarkAt, HashAt, Padding
  <2>10. MarkComes'
    BY <1>2, <1>10, <1>15, <1>16, <1>17, <1>18, <2>3, <2>8, <2>9 DEF MarkComes
  <2>11. QED
    BY <1>10, <1>12, <2>10 DEF ToServer, KeyComes, RestOfKeyComes, HashComes, HeaderComes, PadComes
<1>24. Talks'
  BY <1>10, <1>12 DEF Talks, Ends, Up
<1>25. QED
  BY <1>19, <1>20, <1>21, <1>22, <1>23, <1>24 DEF StreamInv

LEMMA LinesNextAreTokens ==
    ASSUME Types', NEW x \in Ends
    PROVE  Line(x)' \in Seq(Token)
<1>1. /\ part'[x] \in Seq(Token) /\ buf'[x] \in Seq(Token) /\ chan'[x] \in Seq(Token)
      /\ out'[Other(x)] \in Seq(Token)
  BY TwoEnds DEF Types
<1>2. PICK a, b, c, d : a = part'[x] /\ b = buf'[x] /\ c = chan'[x] /\ d = out'[Other(x)]
  OBVIOUS
<1>3. a \in Seq(Token) /\ b \in Seq(Token) /\ c \in Seq(Token) /\ d \in Seq(Token)
  BY <1>1, <1>2
<1>4. Joined(a, b, c, d) \in Seq(Token)
  BY ONLY <1>3, Row
<1>5. QED
  BY <1>2, <1>4 DEF Line

(* What is dropped was before what was written. *)
LEMMA AheadDrop ==
    ASSUME Types, Types', Faithful, NEW x \in Ends, SentSame(Other(x)), NEW k \in Nat, NEW n \in 0..k, Ahead(x, k),
           Drops(Line(x), n, Line(x)')
    PROVE  Ahead(x, k - n)'
<1>1. PICK y \in Ends : y = Other(x)
  BY TwoEnds
<1>2. /\ wrote'[y] = wrote[y] /\ read'[y] = read[y] /\ enc'[y] = enc[y]
  BY <1>1 DEF SentSame
<1>3. Start(y)' = Start(y)
  BY <1>2 DEF Start, Unread
<1>4. PICK s, t, w, r : s = Line(x) /\ t = Line(x)' /\ w = wrote[y] /\ r = read[y]
  OBVIOUS
<1>5. s \in Seq(Token) /\ t \in Seq(Token)
  <2>1. Line(x) \in Seq(Token)
    BY LinesAreTokens
  <2>2. Line(x)' \in Seq(Token)
    BY LinesNextAreTokens
  <2>3. QED
    BY <1>4, <2>1, <2>2
<1>6. w \in Seq(Content) /\ r \in Seq(Content) /\ Len(r) <= Len(w)
  BY <1>1, <1>4 DEF Types, Faithful
<1>7. \A key, from : Carried(s, k, w, r, key, from) => Carried(t, k - n, w, r, key, from)
  <2>1. Drops(s, n, t)
    BY <1>4
  <2>2. TAKE key, from
  <2>3. HAVE Carried(s, k, w, r, key, from)
  <2>4. QED
    BY ONLY <1>5, <1>6, <2>1, <2>3, k \in Nat, n \in 0..k, CarriedDrop
<1>8. CASE cipher'[y] = cipher[y]
  <2>1. PICK key, from : key = KeyOf(y) /\ from = Start(y)
    OBVIOUS
  <2>2. KeyOf(y)' = key /\ Start(y)' = from
    BY <1>3, <1>8, <2>1 DEF KeyOf
  <2>3. Carried(s, k, w, r, key, from)
    BY <1>1, <1>4, <2>1 DEF Ahead
  <2>4. Carried(t, k - n, w, r, key, from)
    BY <1>7, <2>3
  <2>5. QED
    BY <1>1, <1>2, <1>4, <2>2, <2>4 DEF Ahead
<1>9. CASE w = << >> /\ r = << >>
  <2>1. PICK key, from, key2, from2 : /\ key = KeyOf(y) /\ from = Start(y)
                                      /\ key2 = KeyOf(y)' /\ from2 = Start(y)'
    OBVIOUS
  <2>2. Carried(s, k, w, r, key, from)
    BY <1>1, <1>4, <2>1 DEF Ahead
  <2>3. Carried(t, k - n, << >>, << >>, key, from)
    BY <1>7, <1>9, <2>2
  <2>4. k - n \in Nat
    OBVIOUS
  <2>5. Carried(t, k - n, << >>, << >>, key2, from2)
    BY <2>3, <2>4, CarriedNone
  <2>6. QED
    BY <1>1, <1>2, <1>4, <1>9, <2>1, <2>5 DEF Ahead
<1>10. QED
  BY <1>1, <1>4, <1>8, <1>9 DEF SentSame

LEMMA ClientSyncStep ==
    ASSUME StreamInv, ClientSync, me' = me
    PROVE  StreamInv'
<1>1. Types /\ NeverRefused /\ Faithful /\ Stages /\ ToServer /\ ToClient /\ Talks /\ Open
  BY DEF StreamInv, ClientSync, SyncFor
<1>2. UNCHANGED <<mode, offer, lru, out, chan, enc, cipher, hash, pads, wrote, read>>
      /\ dec' = [dec EXCEPT !["client"] = 2]
  BY VcContents DEF ClientSync
<1>3. SyncFor("client", VcB, "header") /\ pc["client"] = "sync"
  BY DEF ClientSync, SyncFor, VcB
<1>4. PICK k \in Pads :
            /\ Padding(Line("client"), 0, k, VcB)
            /\ IF pc["server"] \notin Answered THEN Len(Line("client")) = k
               ELSE \E n \in Lens :
                        /\ Ahead("client", k + 2 + n + 2) /\ MarkAt(Line("client"), k, VcB)
                        /\ ReplyAt(Line("client"), k + 2, n) /\ StartIs("server", n + 4)
                        /\ Len(part["client"]) <= k + 1
  BY <1>1, <1>3 DEF ToClient, VcComes
<1>5. /\ Line("server")' = Line("server") /\ part'["server"] = part["server"]
      /\ buf' \in [Ends -> Seq(Token)] /\ part' \in [Ends -> Seq(Token)]
      /\ \A y \in Ends : Len(part'[y]) <= MaxPad + 1
      /\ pc'["server"] = pc["server"] /\ DOMAIN pc' = Ends
      /\ \/ /\ pc'["client"] = "header" /\ part'["client"] = << >>
            /\ Drops(Line("client"), k + 2, Line("client")') /\ Len(Line("client")) # k
         \/ /\ pc'["client"] = "sync" /\ Len(part'["client"]) <= k + 1
            /\ Line("client")' = Line("client")
  <2>1. (MarkAt(Line("client"), k, VcB) /\ Len(part["client"]) <= k + 1) \/ Len(Line("client")) = k
    BY <1>4
  <2>2. /\ Line(Other("client"))' = Line(Other("client")) /\ part'[Other("client")] = part[Other("client")]
        /\ buf' \in [Ends -> Seq(Token)] /\ part' \in [Ends -> Seq(Token)]
        /\ \A y \in Ends : Len(part'[y]) <= MaxPad + 1
        /\ pc["client"] = "sync" /\ (\A y \in Ends : y # "client" => pc'[y] = pc[y]) /\ DOMAIN pc' = Ends
        /\ \/ /\ pc'["client"] = "header" /\ part'["client"] = << >>
              /\ Drops(Line("client"), k + 2, Line("client")') /\ Len(Line("client")) # k
           \/ /\ pc'["client"] = "sync" /\ Len(part'["client"]) <= k + 1
              /\ Line("client")' = Line("client")
    BY <1>2, <1>3, <1>4, <2>1, EndNames, SyncTaken
  <2>3. QED
    BY <2>2, EndNames
<1>6. dec' \in [Ends -> Nat] /\ dec'["client"] = 2 /\ dec'["server"] = dec["server"]
  BY <1>1, <1>2, EndNames DEF Types
<1>7. Types'
  BY <1>1, <1>2, <1>5, <1>6 DEF Types
<1>8. NeverRefused' /\ Faithful'
  BY <1>1, <1>2, <1>5, EndNames, HistoriesKept DEF NeverRefused
<1>9. pc'["client"] = "header" => pc["server"] \in Answered
  BY <1>4, <1>5
<1>10. Stages'
  <2>1. <<pc'["client"], pc["server"]>> \in Pairs'
    BY <1>1, <1>2, <1>3, <1>5, <1>9 DEF Stages, Pairs, Up, Answered
  <2>2. wrote["client"] = << >> /\ wrote["server"] = wrote'["server"] /\ read["server"] = << >>
    BY <1>1, <1>2, <1>3, EndNames DEF Stages, Shaking
  <2>3. /\ pc'["client"] \in {"sync", "header"} /\ pc'["client"] \notin Up \cup {"pad", "start"}
        /\ (pc'["client"] # "sync" => part'["client"] = << >>)
    BY <1>5 DEF Up
  <2>4. \A x \in Ends : /\ pc'[x] \in Shaking \cup {"up"} => wrote'[x] = << >>
                        /\ pc'[x] \in Shaking => read'[Other(x)] = << >>
                        /\ pc'[x] # "sync" => part'[x] = << >>
                        /\ pc'[x] = "up" => out'[x] = << >>
    BY <1>1, <1>2, <1>5, <2>2, <2>3, EndNames, OneEndMoves
  <2>5. /\ cipher["client"] = "none" /\ (mode = "pe" => hash["client"] = Wanted)
    BY <1>1, <1>3 DEF Stages, Up
  <2>6. QED
    BY <1>1, <1>2, <1>5, <1>6, <2>1, <2>3, <2>4, <2>5 DEF Stages
<1>11. SentSame("client") /\ SentSame("server")
  BY <1>2 DEF SentSame
<1>12. ToServer'
  <2>1. pc["server"] \in {"first", "sync"} => pc'["client"] = pc["client"]
    BY <1>3, <1>5, <1>9 DEF Answered, Up
  <2>2. QED
    BY <1>1, <1>2, <1>5, <1>6, <1>11, <2>1, ToServerKept
<1>13. ToClient'
  <2>1. CASE pc'["client"] = "sync"
    <3>1. Line("client")' = Line("client") /\ Len(part'["client"]) <= k + 1
      BY <1>5, <2>1
    <3>2. CASE pc["server"] \notin Answered
      <4>1. Len(Line("client")') = k /\ Padding(Line("client")', 0, k, VcB)
        BY <1>4, <3>1, <3>2
      <4>2. VcComes'
        BY <1>5, <3>2, <4>1 DEF VcComes, Padding
      <4>3. QED
        BY <2>1, <4>2 DEF ToClient, AnswerComes, ChoiceComes, LastPadComes
    <3>3. CASE pc["server"] \in Answered
      <4>1. PICK n \in Lens :
                  /\ Ahead("client", k + 2 + n + 2) /\ MarkAt(Line("client"), k, VcB)
                  /\ ReplyAt(Line("client"), k + 2, n) /\ StartIs("server", n + 4)
        BY <1>4, <3>3
      <4>2. k + 2 + n + 2 \in Nat
        <5>1. n \in Nat /\ k \in Nat
          BY LensAreNat, PadsAreNat
        <5>2. QED
          BY ONLY <5>1
      <4>3. Ahead("client", k + 2 + n + 2)' /\ StartIs("server", n + 4)'
        BY <1>1, <1>11, <3>1, <4>1, <4>2, EndNames, AheadKept, StartKept
      <4>4. ReplyAt(Line("client"), k + 2, n)'
        BY <1>2, <3>1, <4>1 DEF ReplyAt
      <4>5. Padding(Line("client"), 0, k, VcB)' /\ MarkAt(Line("client"), k, VcB)'
        BY <1>4, <3>1, <4>1 DEF Padding, MarkAt
      <4>6. VcComes'
        BY <1>5, <3>1, <3>3, <4>3, <4>4, <4>5 DEF VcComes
      <4>7. QED
        BY <2>1, <4>6 DEF ToClient, AnswerComes, ChoiceComes, LastPadComes
    <3>4. QED
      BY <3>2, <3>3
  <2>2. CASE pc'["client"] = "header"
    <3>1. PICK n \in Lens :
                /\ Ahead("client", k + 2 + n + 2)
                /\ ReplyAt(Line("client"), k + 2, n) /\ StartIs("server", n + 4)
      BY <1>4, <1>9, <2>2
    <3>2. /\ k + 2 + n + 2 \in Nat /\ k + 2 \in 0..(k + 2 + n + 2) /\ k + 2 + n + 2 - (k + 2) = n + 2
          /\ k + 2 \in Nat /\ k + 2 <= k + 2 + n + 2
      <4>1. n \in Nat /\ k \in Nat
        BY LensAreNat, PadsAreNat
      <4>2. QED
        BY ONLY <4>1
    <3>3. Drops(Line("client"), k + 2, Line("client")')
      BY <1>5, <2>2
    <3>4. PICK m, j : m = k + 2 + n + 2 /\ j = k + 2
      OBVIOUS
    <3>5. Ahead("client", n + 2)'
      <4>0. n \in Nat /\ k \in Nat
        BY LensAreNat, PadsAreNat
      <4>1. m \in Nat /\ j \in 0..m /\ m - j = n + 2
        BY ONLY <3>4, <4>0
      <4>2. Ahead("client", m) /\ Drops(Line("client"), j, Line("client")')
        BY <3>1, <3>3, <3>4
      <4>3. Ahead("client", m - j)'
        BY <1>1, <1>7, <1>11, <4>1, <4>2, EndNames, AheadDrop
      <4>4. QED
        BY <4>1, <4>3
    <3>6. ReplyAt(Line("client"), 0, n)'
      <4>1. PICK s, t : s = Line("client") /\ t = Line("client")'
        OBVIOUS
      <4>2. Len(t) >= 2
        <5>1. Len(t) = n + 2 + Unread("server")' /\ Unread("server")' \in Nat
          <6>1. Len(t) = n + 2 + (Len(wrote'["server"]) - Len(read'["server"]))
            BY <3>5, <4>1, EndNames DEF Ahead, Carried
          <6>2. Len(read["server"]) <= Len(wrote["server"]) /\ wrote["server"] \in Seq(Content) /\ read["server"] \in Seq(Content)
            BY <1>1, EndNames DEF Faithful, Types
          <6>3. PICK lw \in Nat, lr \in Nat : lw = Len(wrote["server"]) /\ lr = Len(read["server"])
            BY <6>2
          <6>4. lw - lr \in Nat
            BY <6>2, <6>3
          <6>5. QED
            BY <1>2, <6>1, <6>3, <6>4 DEF Unread
        <5>2. n \in Nat
          BY LensAreNat
        <5>3. PICK u \in Nat : u = Unread("server")'
          BY <5>1
        <5>4. n + 2 + u >= 2
          BY ONLY <5>2, <5>3
        <5>5. QED
          BY <5>1, <5>3, <5>4
      <4>3. t[1] = s[k + 2 + 1] /\ t[2] = s[k + 2 + 2]
        <5>1. Drops(s, k + 2, t)
          BY <3>3, <4>1
        <5>2. Len(t) \in Nat
          <6>1. Line("client")' \in Seq(Token)
            BY <1>7, EndNames, LinesNextAreTokens
          <6>2. QED
            BY <4>1, <6>1
        <5>3. 1 \in 1..Len(t) /\ 2 \in 1..Len(t)
          BY <4>2, <5>2
        <5>4. QED
          BY <5>1, <5>3 DEF Drops
      <4>4. QED
        BY <1>2, <3>1, <4>1, <4>3 DEF ReplyAt
    <3>7. StartIs("server", n + 4)'
      BY <1>11, <3>1, EndNames, StartKept
    <3>8. ChoiceComes'
      BY <1>6, <3>5, <3>6, <3>7 DEF ChoiceComes
    <3>9. QED
      BY <2>2, <3>8 DEF ToClient, AnswerComes, VcComes, LastPadComes
  <2>3. QED
    BY <1>5, <2>1, <2>2
<1>14. Talks'
  <2>1. CASE pc'["server"] \in Up
    <3>1. Talk("server")
      BY <1>1, <1>5, <2>1, EndNames DEF Talks
    <3>2. Talk("server")'
      BY <1>1, <1>2, <1>5, <1>6, <1>11, <3>1, EndNames, TalkKept
    <3>3. QED
      BY <1>5, <3>2, EndNames DEF Talks, Up
  <2>2. QED
    BY <1>5, <2>1, EndNames DEF Talks, Up
<1>15. QED
  BY <1>7, <1>8, <1>10, <1>12, <1>13, <1>14 DEF StreamInv

(* The first n tokens, decrypted. *)
LEMMA FirstDecrypted ==
    ASSUME NEW b \in Seq(Token), NEW n \in Nat, n <= Len(b), NEW key, NEW pos \in Nat
    PROVE  LET d == Decrypt(key, pos, SubSeq(b, 1, n))
           IN  /\ d \in Seq(Content) /\ Len(d) = n
               /\ \A i \in 1..n : d[i] = IF b[i][1] = key /\ b[i][2] = pos + i THEN b[i][3] ELSE Garbage
<1>1. PICK s : s = SubSeq(b, 1, n)
  OBVIOUS
<1>2. s \in Seq(Token) /\ Len(s) = n /\ \A i \in 1..n : s[i] = b[i]
  <2>1. \A i \in 1..n : b[i] \in Token
    OBVIOUS
  <2>2. /\ SubSeq(b, 1, n) \in Seq(Token)
        /\ Len(SubSeq(b, 1, n)) = IF 1 <= n THEN n - 1 + 1 ELSE 0
        /\ \A i \in 1..(n - 1 + 1) : SubSeq(b, 1, n)[i] = b[1 + i - 1]
    BY <2>1, SubSeqProperties
  <2>3. (IF 1 <= n THEN n - 1 + 1 ELSE 0) = n /\ n - 1 + 1 = n /\ \A i \in 1..n : 1 + i - 1 = i
    OBVIOUS
  <2>4. QED
    BY <1>1, <2>2, <2>3
<1>3. /\ Decrypt(key, pos, s) \in Seq(Content) /\ Len(Decrypt(key, pos, s)) = Len(s)
      /\ \A i \in 1..Len(s) : Decrypt(key, pos, s)[i] =
             IF s[i][1] = key /\ s[i][2] = pos + i THEN s[i][3] ELSE Garbage
  BY <1>2, DecryptedContents
<1>4. QED
  BY <1>1, <1>2, <1>3

(* What the client has chosen with what the server has selected is what it offered. *)
LEMMA SelectedIsOffered ==
    ASSUME offer \in 1..3
    PROVE  /\ Selected(CipherOf(offer)) \in {1, 2} /\ CipherOf(Selected(CipherOf(offer))) = CipherOf(offer)
           /\ CipherOf(offer) \in {"plain", "rc4"}
BY DEF Selected, CipherOf

LEMMA ClientHeaderStep ==
    ASSUME StreamInv, ClientHeader, me' = me
    PROVE  StreamInv'
<1>1. Types /\ NeverRefused /\ Faithful /\ Stages /\ ToServer /\ ToClient /\ Talks /\ Open
  BY DEF StreamInv, ClientHeader, Take
<1>2. UNCHANGED <<mode, offer, lru, out, chan, part, enc, hash, wrote, read>>
      /\ dec' = [dec EXCEPT !["client"] = @ + 2]
  BY DEF ClientHeader
<1>3. pc["client"] = "header" /\ Len(buf["client"]) >= 2
  BY DEF ClientHeader, Take, Need
<1>4. /\ dec["client"] = 2 /\ pc["server"] \in Answered /\ mode = "pe"
      /\ wrote["client"] = << >> /\ read["client"] = << >>
      /\ cipher["client"] = "none" /\ hash["client"] = Wanted
      /\ offer \in 1..3
  <2>1. <<"header", pc["server"]>> \in Pairs
    BY <1>1, <1>3 DEF Stages
  <2>2. pc["server"] \in Answered /\ mode = "pe"
    BY <1>1, <2>1 DEF Pairs, Types, Up
  <2>3. wrote["client"] = << >> /\ read["client"] = << >>
    BY <1>1, <1>3, EndNames, NothingSaid DEF Shaking
  <2>4. dec["client"] = 2 /\ cipher["client"] = "none" /\ hash["client"] = Wanted
    BY <1>1, <1>3, <2>2 DEF ToClient, ChoiceComes, Stages, Up
  <2>5. QED
    BY <1>1, <2>2, <2>3, <2>4 DEF Types
<1>5. PICK n \in Lens : /\ Ahead("client", n + 2) /\ ReplyAt(Line("client"), 0, n)
                        /\ StartIs("server", n + 4)
  BY <1>1, <1>3 DEF ToClient, ChoiceComes
<1>6. n \in Nat /\ n <= MaxPad
  BY LensAreNat
<1>7. PICK c \in {1, 2} : c = Selected(CipherOf(offer)) /\ CipherOf(c) = CipherOf(offer)
  BY <1>4, SelectedIsOffered
<1>8. PICK b \in Seq(Token) : b = buf["client"]
  BY <1>1, EndNames DEF Types
<1>9. /\ b[1] = <<"B", 3, <<"crypto", c>>>> /\ b[2] = <<"B", 4, <<"len", n>>>>
  <2>1. \A i \in 1..Len(b) : b[i] = Line("client")[i]
    BY <1>1, <1>3, <1>8, EndNames, BufferedFirst
  <2>2. 1 \in 1..Len(b) /\ 2 \in 1..Len(b) /\ 0 + 1 = 1 /\ 0 + 2 = 2
    BY <1>3, <1>8
  <2>3. QED
    BY <1>5, <1>7, <2>1, <2>2 DEF ReplyAt
<1>10. PICK h : h = Decrypt("B", dec["client"], SubSeq(buf["client"], 1, 2))
  OBVIOUS
<1>11. h[1] = <<"crypto", c>> /\ h[2] = <<"len", n>>
  <2>1. 2 \in Nat /\ 2 <= Len(b) /\ 1 \in 1..2 /\ 2 \in 1..2 /\ 2 + 1 = 3 /\ 2 + 2 = 4
    BY <1>3, <1>8
  <2>2. \A i \in 1..2 : Decrypt("B", 2, SubSeq(b, 1, 2))[i] =
            IF b[i][1] = "B" /\ b[i][2] = 2 + i THEN b[i][3] ELSE Garbage
    BY <2>1, FirstDecrypted
  <2>3. \A i \in 1..2 : h[i] = IF b[i][1] = "B" /\ b[i][2] = 2 + i THEN b[i][3] ELSE Garbage
    BY <1>4, <1>8, <1>10, <2>2
  <2>4. QED
    BY <1>9, <2>1, <2>3
<1>12. /\ Take("client", "header", 2, "pad")
       /\ cipher' = [cipher EXCEPT !["client"] = CipherOf(offer)] /\ pads' = [pads EXCEPT !["client"] = n]
  <2>1. h[1] \in {<<"crypto", 1>>, <<"crypto", 2>>} /\ h[2][1] = "len" /\ h[1][2] = c /\ h[2][2] = n
    BY <1>11
  <2>2. QED
    BY <1>6, <1>7, <1>10, <2>1 DEF ClientHeader
<1>13. /\ Drops(Line("client"), 2, Line("client")') /\ Line("server")' = Line("server")
       /\ buf' \in [Ends -> Seq(Token)]
       /\ pc'["client"] = "pad" /\ pc'["server"] = pc["server"] /\ DOMAIN pc' = Ends
  <2>1. 2 \in Nat /\ 2 <= Len(buf["client"]) /\ "header" # "sync"
    BY <1>3, <1>8
  <2>2. QED
    BY <1>2, <1>12, <2>1, ClientTakesOnly
<1>14. dec' \in [Ends -> Nat] /\ dec'["client"] = 4 /\ dec'["server"] = dec["server"]
  BY <1>1, <1>2, <1>4, EndNames DEF Types
<1>15. /\ cipher' \in [Ends -> {"none", "plain", "rc4"}] /\ cipher'["client"] = CipherOf(offer)
       /\ cipher'["server"] = cipher["server"]
  BY <1>1, <1>4, <1>12, EndNames, SelectedIsOffered DEF Types
<1>16. pads' \in [Ends -> {0} \cup Lens] /\ pads'["client"] = n /\ pads'["server"] = pads["server"]
  BY <1>1, <1>12, EndNames DEF Types
<1>17. Types'
  BY <1>1, <1>2, <1>13, <1>14, <1>15, <1>16 DEF Types
<1>18. NeverRefused' /\ Faithful'
  BY <1>1, <1>2, <1>13, EndNames, HistoriesKept DEF NeverRefused
<1>19. Stages'
  <2>1. <<"pad", pc["server"]>> \in Pairs'
    BY <1>2, <1>4 DEF Pairs
  <2>2. \A x \in Ends : /\ pc'[x] \in Shaking \cup {"up"} => wrote'[x] = << >>
                        /\ pc'[x] \in Shaking => read'[Other(x)] = << >>
                        /\ pc'[x] # "sync" => part'[x] = << >>
                        /\ pc'[x] = "up" => out'[x] = << >>
    <3>1. wrote["client"] = << >> /\ read["server"] = << >> /\ part["client"] = << >>
      BY <1>1, <1>3, EndNames DEF Stages, Shaking
    <3>2. QED
      BY <1>1, <1>2, <1>3, <1>13, EndNames, <3>1, OneEndMoves
  <2>3. QED
    BY <1>1, <1>2, <1>4, <1>13, <1>14, <1>15, <2>1, <2>2 DEF Stages
<1>20. SentSame("client") /\ SentSame("server")
  BY <1>2, <1>4, <1>15 DEF SentSame
<1>21. ToServer'
  <2>1. pc["server"] \notin {"first", "sync"}
    BY <1>4 DEF Answered, Up
  <2>2. QED
    BY <1>1, <1>2, <1>13, <1>14, <1>16, <1>20, <2>1, ToServerKept
<1>22. ToClient'
  <2>1. PICK m : m = n + 2
    OBVIOUS
  <2>2. m \in Nat /\ 2 \in 0..m /\ m - 2 = n
    BY ONLY <1>6, <2>1
  <2>3. Ahead("client", m - 2)'
    BY <1>1, <1>5, <1>13, <1>17, <1>20, <2>1, <2>2, EndNames, AheadDrop
  <2>4. Ahead("client", n)' /\ StartIs("server", n + 4)'
    BY <1>5, <1>20, <2>2, <2>3, EndNames, StartKept
  <2>5. LastPadComes'
    BY <1>14, <1>16, <2>4 DEF LastPadComes, Ahead, StartIs
  <2>6. QED
    BY <1>13, <2>5 DEF ToClient, AnswerComes, VcComes, ChoiceComes
<1>23. Talks'
  <2>1. CASE pc'["server"] \in Up
    <3>1. Talk("server")
      BY <1>1, <1>13, <2>1, EndNames DEF Talks
    <3>2. Talk("server")'
      BY <1>1, <1>13, <1>14, <1>15, <1>20, <3>1, EndNames, TalkKept
    <3>3. QED
      BY <1>13, <3>2, EndNames DEF Talks, Up
  <2>2. QED
    BY <1>13, <2>1, EndNames DEF Talks, Up
<1>24. QED
  BY <1>17, <1>18, <1>19, <1>21, <1>22, <1>23 DEF StreamInv

LEMMA ClientPadStep ==
    ASSUME StreamInv, ClientPad, me' = me
    PROVE  StreamInv'
<1>1. Types /\ NeverRefused /\ Faithful /\ Stages /\ ToServer /\ ToClient /\ Talks /\ Open
  BY DEF StreamInv, ClientPad, Take
<1>2. UNCHANGED <<mode, offer, lru, out, chan, part, enc, cipher, hash, pads, wrote, read>>
  BY DEF ClientPad
<1>3. /\ pc["client"] = "pad" /\ Len(buf["client"]) >= pads["client"] /\ out["client"] = << >>
  BY DEF ClientPad, Take, Need, Writing
<1>4. PICK n \in Lens : n = pads["client"]
  BY <1>1, <1>3 DEF ToClient, LastPadComes
<1>5. n \in Nat
  BY LensAreNat
<1>6. Ahead("client", n) /\ StartIs("server", n + 4) /\ dec["client"] = 4
  BY <1>1, <1>3, <1>4 DEF ToClient, LastPadComes
<1>7. /\ Drops(Line("client"), n, Line("client")') /\ Line("server")' = Line("server")
      /\ buf' \in [Ends -> Seq(Token)]
      /\ pc'["client"] = "up" /\ pc'["server"] = pc["server"] /\ DOMAIN pc' = Ends
  <2>1. Take("client", "pad", n, "up")
    BY <1>4 DEF ClientPad
  <2>2. n <= Len(buf["client"])
    <3>1. Len(buf["client"]) \in Nat
      BY <1>1, EndNames DEF Types
    <3>2. QED
      BY <1>3, <1>4, <1>5, <3>1
  <2>3. QED
    BY <1>2, <1>5, <2>1, <2>2, ClientTakesOnly
<1>8. dec' \in [Ends -> Nat] /\ dec'["client"] = n + 4 /\ dec'["server"] = dec["server"]
  <2>1. dec' = [dec EXCEPT !["client"] = 4 + n]
    BY <1>1, <1>4, <1>6, EndNames DEF ClientPad, Skipped, Types
  <2>2. 4 + n = n + 4 /\ n + 4 \in Nat
    BY <1>5
  <2>3. QED
    BY <1>1, <2>1, <2>2, EndNames DEF Types
<1>9. Types'
  BY <1>1, <1>2, <1>7, <1>8 DEF Types
<1>10. NeverRefused' /\ Faithful'
  BY <1>1, <1>2, <1>7, EndNames, HistoriesKept DEF NeverRefused
<1>11. pc["server"] \in Answered /\ mode = "pe"
  <2>1. <<"pad", pc["server"]>> \in Pairs
    BY <1>1, <1>3 DEF Stages
  <2>2. QED
    BY <1>1, <2>1 DEF Pairs, Types, Up
<1>12. Stages'
  <2>1. <<"up", pc["server"]>> \in Pairs'
    BY <1>2, <1>11 DEF Pairs, Up
  <2>2. \A x \in Ends : /\ pc'[x] \in Shaking \cup {"up"} => wrote'[x] = << >>
                        /\ pc'[x] \in Shaking => read'[Other(x)] = << >>
                        /\ pc'[x] # "sync" => part'[x] = << >>
                        /\ pc'[x] = "up" => out'[x] = << >>
    <3>1. wrote["client"] = << >> /\ read["server"] = << >> /\ part["client"] = << >>
      BY <1>1, <1>3, EndNames DEF Stages, Shaking
    <3>2. QED
      BY <1>1, <1>2, <1>3, <1>7, EndNames, <3>1, OneEndMoves
  <2>3. cipher["client"] = CipherOf(offer) /\ hash["client"] = Wanted
    BY <1>1, <1>3, <1>11 DEF Stages
  <2>4. QED
    BY <1>1, <1>2, <1>7, <1>8, <1>11, <2>1, <2>2, <2>3 DEF Stages, Up
<1>13. SentSame("client") /\ SentSame("server")
  BY <1>2 DEF SentSame
<1>14. ToServer'
  <2>1. pc["server"] \notin {"first", "sync"}
    BY <1>11 DEF Answered, Up
  <2>2. QED
    BY <1>1, <1>2, <1>7, <1>8, <1>13, <2>1, ToServerKept
<1>15. ToClient'
  BY <1>7 DEF ToClient, AnswerComes, VcComes, ChoiceComes, LastPadComes
<1>16. Talk("client")'
  <2>1. n \in 0..n /\ n - n = 0
    BY <1>5
  <2>2. Ahead("client", n - n)'
    BY <1>1, <1>5, <1>6, <1>7, <1>9, <1>13, <2>1, EndNames, AheadDrop
  <2>3. Ahead("client", 0)' /\ StartIs("server", n + 4)'
    BY <1>6, <1>13, <2>1, <2>2, EndNames, StartKept
  <2>4. QED
    BY <1>8, <2>3, EndNames DEF Talk, StartIs
<1>17. Talks'
  <2>1. CASE pc'["server"] \in Up
    <3>1. Talk("server")
      BY <1>1, <1>7, <2>1, EndNames DEF Talks
    <3>2. Talk("server")'
      BY <1>1, <1>2, <1>7, <1>8, <1>13, <3>1, EndNames, TalkKept
    <3>3. QED
      BY <1>16, <3>2, EndNames DEF Talks
  <2>2. QED
    BY <1>16, <2>1, EndNames DEF Talks
<1>18. QED
  BY <1>9, <1>10, <1>12, <1>14, <1>15, <1>17 DEF StreamInv

-----------------------------------------------------------------------------
(* server_handshake *)

(* One is dropped. *)
LEMMA DropsFirst ==
    ASSUME NEW s, NEW t, NEW k \in Nat, Drops(s, 1, t), Len(s) = 1 + k
    PROVE  Len(t) = k /\ \A i \in 1..k : t[i] = s[1 + i]
<1>1. PICK n \in Nat : n = 1
  OBVIOUS
<1>2. Drops(s, n, t) /\ Len(s) = n + k
  BY <1>1
<1>3. Len(t) = k /\ \A i \in 1..k : t[i] = s[n + i]
  BY ONLY <1>2, n \in Nat, k \in Nat, DropsAt
<1>4. QED
  BY ONLY <1>1, <1>3

LEMMA ServerFirstStep ==
    ASSUME StreamInv, ServerFirst, me' = me
    PROVE  StreamInv'
<1>1. Types /\ NeverRefused /\ Faithful /\ Stages /\ ToServer /\ ToClient /\ Talks /\ Open
  BY DEF StreamInv, ServerFirst, Take
<1>2. UNCHANGED <<mode, offer, lru, out, chan, part, enc, dec, cipher, hash, pads, wrote, read>>
  BY DEF ServerFirst
<1>3. pc["server"] = "first" /\ out["server"] = << >> /\ Len(buf["server"]) >= 1
  BY DEF ServerFirst, Take, Writing, Need
<1>4. PICK b, s : b = buf["server"] /\ s = Line("server")
  OBVIOUS
<1>5. PICK lb \in Nat, l \in Nat : lb = Len(b) /\ l = Len(s) /\ 1 <= lb /\ lb <= l /\ b[1] = s[1]
  <2>1. Len(b) <= Len(s) /\ Len(b) \in Nat /\ Len(s) \in Nat /\ \A i \in 1..Len(b) : b[i] = s[i]
    BY <1>1, <1>3, <1>4, EndNames, BufferedFirst
  <2>2. PICK lb \in Nat, l \in Nat : lb = Len(b) /\ l = Len(s)
    BY <2>1
  <2>3. 1 <= lb /\ lb <= l
    BY <1>3, <1>4, <2>1, <2>2
  <2>4. 1 \in 1..lb
    BY ONLY <2>2, <2>3
  <2>5. b[1] = s[1]
    BY <2>1, <2>2, <2>4
  <2>6. QED
    BY <2>2, <2>3, <2>5
<1>6. /\ wrote["server"] = << >> /\ read["server"] = << >> /\ read["client"] = << >>
      /\ cipher["server"] = "none" /\ part["server"] = << >> /\ dec["server"] = 0
  <2>1. wrote["server"] = << >> /\ read["server"] = << >>
    BY <1>1, <1>3, EndNames, NothingSaid DEF Shaking
  <2>2. read["client"] = << >> /\ cipher["server"] = "none" /\ part["server"] = << >> /\ dec["server"] = 0
    BY <1>1, <1>3, EndNames DEF Stages, Shaking, Answered, Up, Early
  <2>3. QED
    BY <2>1, <2>2
<1>7. pc["client"] # "start"
  <2>1. l # 0
    BY <1>5
  <2>2. QED
    BY <1>1, <1>3, <1>4, <1>5, <2>1 DEF ToServer, KeyComes
<1>8. \/ pc["client"] = "server key" /\ mode = "pe"
      \/ pc["client"] \in Up /\ mode = "plain"
  <2>1. <<pc["client"], "first">> \in Pairs
    BY <1>1, <1>3 DEF Stages
  <2>2. CASE mode = "plain"
    BY <1>7, <2>1, <2>2 DEF Pairs
  <2>3. CASE mode = "pe"
    BY <1>7, <2>1, <2>3 DEF Pairs, Answered, Up
  <2>4. QED
    BY <1>1, <2>2, <2>3 DEF Types
<1>9. /\ DOMAIN pc' = Ends /\ pc'["client"] = pc["client"] /\ Line("client")' = Line("client")
      /\ buf' \in [Ends -> Seq(Token)]
      /\ \/ /\ b[1][3] = HandshakeTag /\ pc'["server"] = "up"
            /\ Drops(Line("server"), 0, Line("server")')
         \/ /\ b[1][3] # HandshakeTag /\ pc'["server"] = "key"
            /\ Drops(Line("server"), 1, Line("server")')
  <2>1. b # << >>
    BY <1>5
  <2>2. CASE b[1][3] = HandshakeTag
    <3>1. Take("server", "first", 0, "up") /\ 0 \in Nat /\ 0 <= Len(buf["server"]) /\ "first" # "sync"
      BY <1>4, <1>5, <2>1, <2>2 DEF ServerFirst
    <3>2. QED
      BY <1>2, <2>2, <3>1, ServerTakesOnly
  <2>3. CASE b[1][3] # HandshakeTag
    <3>1. Take("server", "first", 1, "key") /\ 1 \in Nat /\ 1 <= Len(buf["server"]) /\ "first" # "sync"
      BY <1>4, <1>5, <2>1, <2>3 DEF ServerFirst
    <3>2. QED
      BY <1>2, <2>3, <3>1, ServerTakesOnly
  <2>4. QED
    BY <2>2, <2>3
<1>10. Types'
  BY <1>1, <1>2, <1>9 DEF Types
<1>11. NeverRefused' /\ Faithful'
  BY <1>1, <1>2, <1>9, EndNames, HistoriesKept DEF NeverRefused
<1>12. SentSame("client") /\ SentSame("server")
  BY <1>2 DEF SentSame
<1>13. CASE pc["client"] = "server key" /\ mode = "pe"
  <2>1. PICK k \in Pads : /\ Len(s) = k + 2 /\ Padding(s, 2, k, Hash1) /\ s[1] = Key[1]
    BY <1>1, <1>3, <1>4, <1>13 DEF ToServer, KeyComes
  <2>2. b[1][3] # HandshakeTag
    <3>1. Key[1] = <<"-", 0, Tag("key1")>>
      BY Marks
    <3>2. QED
      BY <1>5, <2>1, <3>1 DEF Tag, HandshakeTag
  <2>3. pc'["server"] = "key" /\ Drops(Line("server"), 1, Line("server")')
    BY <1>9, <2>2
  <2>4. Len(Line("server")') = k + 1 /\ Padding(Line("server"), 1, k, Hash1)'
    <3>1. PICK t, m : t = Line("server")' /\ m = k + 1
      OBVIOUS
    <3>2. k \in Nat
      BY PadsAreNat
    <3>3. m \in Nat /\ k + 2 = 1 + m /\ 1 \in Nat
      BY ONLY <3>1, <3>2
    <3>4. Drops(s, 1, t) /\ Len(s) = 1 + m
      BY <1>4, <2>1, <2>3, <3>1, <3>3
    <3>5. Len(t) = m /\ \A i \in 1..m : t[i] = s[1 + i]
      BY ONLY <3>3, <3>4, DropsFirst
    <3>6. \A i \in 1..k : 1 + i \in 1..m /\ 1 + (1 + i) = 2 + i
      BY ONLY <3>1, <3>2
    <3>7. \A i \in 1..k : t[1 + i] # Hash1[2]
      BY <2>1, <3>5, <3>6 DEF Padding
    <3>8. QED
      BY <3>1, <3>5, <3>7 DEF Padding
  <2>5. Stages'
    <3>1. <<"server key", "key">> \in Pairs'
      BY <1>2, <1>13 DEF Pairs
    <3>2. QED
      BY <1>1, <1>2, <1>3, <1>6, <1>9, <1>13, <2>3, <3>1, EndNames DEF Stages, Shaking, Answered, Up, Early
  <2>6. ToServer'
    BY <2>3, <2>4 DEF ToServer, KeyComes, RestOfKeyComes, MarkComes, HashComes, HeaderComes, PadComes
  <2>7. ToClient'
    BY <1>1, <1>2, <1>3, <1>9, <1>12, <1>13, <2>3, ToClientKept
  <2>8. Talks'
    BY <1>9, <1>13, <2>3, EndNames DEF Talks, Up
  <2>9. QED
    BY <1>10, <1>11, <2>5, <2>6, <2>7, <2>8 DEF StreamInv
<1>14. CASE pc["client"] \in Up /\ mode = "plain"
  <2>1. /\ Ahead("server", 0) /\ (wrote["client"] # << >> => wrote["client"][1] = HandshakeTag)
    BY <1>1, <1>3, <1>14 DEF ToServer, KeyComes, Up
  <2>2. s[1][3] = HandshakeTag
    <3>1. PICK w, key, from : w = wrote["client"] /\ key = KeyOf("client") /\ from = Start("client")
      OBVIOUS
    <3>2. Carried(s, 0, w, << >>, key, from)
      BY <1>4, <1>6, <2>1, <3>1, EndNames DEF Ahead
    <3>3. w \in Seq(Content)
      BY <1>1, <3>1, EndNames DEF Types
    <3>4. PICK lw \in Nat : lw = Len(w)
      BY <3>3
    <3>5. Len(<< >>) = 0 /\ lw - 0 = lw /\ 0 + lw = lw
      BY <3>4
    <3>6. l = lw
      BY <1>5, <3>2, <3>4, <3>5 DEF Carried
    <3>7. 1 \in 1..lw /\ 0 + 1 = 1
      BY <1>5, <3>6
    <3>8. s[1] = Coded(key, from + 1, w[1])
      BY <3>2, <3>4, <3>5, <3>7 DEF Carried
    <3>9. w # << >>
      BY <3>4, <3>7
    <3>10. QED
      BY <2>1, <3>1, <3>8, <3>9 DEF Coded
  <2>3. pc'["server"] = "up" /\ Drops(Line("server"), 0, Line("server")')
    BY <1>5, <1>9, <2>2
  <2>4. Ahead("server", 0)'
    <3>1. 0 \in Nat /\ 0 \in 0..0 /\ 0 - 0 = 0
      OBVIOUS
    <3>2. Ahead("server", 0 - 0)'
      BY <1>1, <1>10, <1>12, <2>1, <2>3, <3>1, EndNames, AheadDrop
    <3>3. QED
      BY <3>1, <3>2
  <2>5. Stages'
    <3>1. <<pc["client"], "up">> \in Pairs'
      BY <1>2, <1>14 DEF Pairs, Up
    <3>2. \A x \in Ends : /\ pc'[x] \in Shaking \cup {"up"} => wrote'[x] = << >>
                          /\ pc'[x] \in Shaking => read'[Other(x)] = << >>
                          /\ pc'[x] # "sync" => part'[x] = << >>
                          /\ pc'[x] = "up" => out'[x] = << >>
      BY <1>1, <1>2, <1>3, <1>6, <1>9, <2>3, EndNames, OneEndMoves
    <3>3. QED
      BY <1>1, <1>2, <1>6, <1>9, <1>14, <2>3, <3>1, <3>2 DEF Stages, Early
  <2>6. ToServer'
    BY <2>3 DEF ToServer, KeyComes, RestOfKeyComes, MarkComes, HashComes, HeaderComes, PadComes
  <2>7. ToClient'
    BY <1>9, <1>14 DEF ToClient, AnswerComes, VcComes, ChoiceComes, LastPadComes, Up
  <2>8. Talk("server")'
    BY <1>2, <1>6, <2>4, EndNames DEF Talk
  <2>9. Talk("client")'
    <3>1. Talk("client")
      BY <1>1, <1>14, EndNames DEF Talks
    <3>2. QED
      BY <1>1, <1>2, <1>9, <1>12, <3>1, EndNames, TalkKept
  <2>10. Talks'
    BY <2>8, <2>9, EndNames DEF Talks
  <2>11. QED
    BY <1>10, <1>11, <2>5, <2>6, <2>7, <2>10 DEF StreamInv
<1>15. QED
  BY <1>8, <1>13, <1>14

LEMMA ServerKeyStep ==
    ASSUME StreamInv, ServerKey, me' = me
    PROVE  StreamInv'
<1>1. Types /\ NeverRefused /\ Faithful /\ Stages /\ ToServer /\ ToClient /\ Talks /\ Open
  BY DEF StreamInv, ServerKey, Take
<1>2. UNCHANGED <<mode, offer, lru, chan, part, enc, dec, cipher, hash, pads, wrote, read>>
  BY DEF ServerKey
<1>3. Take("server", "key", 1, "sync") /\ pc["server"] = "key" /\ Len(buf["server"]) >= 1
  BY DEF ServerKey, Take, Need
<1>4. PICK pad \in PadBefore(VcB) : out' = [out EXCEPT !["server"] = Key \o pad]
  BY DEF ServerKey, Put, VcB
<1>5. PICK s, k : s = Key \o pad /\ k = Len(pad) /\ k \in Pads
  BY KeyAndPad
<1>6. s \in Seq(Token) /\ Len(s) = k + 2 /\ \A i \in 1..k : s[2 + i] # VcB[2]
  BY <1>5, KeyAndPad
<1>7. /\ Drops(Line("server"), 1, Line("server")') /\ Puts(Line("client"), s, Line("client")')
      /\ buf' \in [Ends -> Seq(Token)] /\ out' \in [Ends -> Seq(Token)]
      /\ pc'["server"] = "sync" /\ pc'["client"] = pc["client"] /\ DOMAIN pc' = Ends
  <2>1. 1 \in Nat /\ 1 <= Len(buf["server"]) /\ "key" # "sync" /\ out' = [out EXCEPT !["server"] = s]
    <3>1. Len(buf["server"]) \in Nat
      BY <1>1, EndNames DEF Types
    <3>2. 1 <= Len(buf["server"])
      BY <1>3, <3>1
    <3>3. QED
      BY <1>4, <1>5, <3>2
  <2>2. QED
    BY <1>2, <1>3, <1>6, <2>1, ServerTakes
<1>8. pc["client"] = "server key" /\ mode = "pe"
  BY <1>1, <1>3 DEF Stages, Pairs, Types, Answered, Up
<1>9. PICK j \in Pads : Len(Line("server")) = j + 1 /\ Padding(Line("server"), 1, j, Hash1)
  BY <1>1, <1>3 DEF ToServer, RestOfKeyComes
<1>10. Len(Line("client")) = 0
  BY <1>1, <1>3, <1>8 DEF ToClient, AnswerComes
<1>11. Types'
  BY <1>1, <1>2, <1>7 DEF Types
<1>12. NeverRefused' /\ Faithful'
  BY <1>1, <1>2, <1>7, EndNames, HistoriesKept DEF NeverRefused
<1>13. Stages'
  BY <1>1, <1>2, <1>3, <1>7, <1>8 DEF Stages, Pairs, Shaking, Up, Answered, Ends, Early
<1>14. ToServer'
  <2>1. PICK z, t : z = Line("server") /\ t = Line("server")'
    OBVIOUS
  <2>2. j \in Nat /\ 1 \in Nat
    BY PadsAreNat
  <2>3. j + 1 = 1 + j /\ \A i \in 1..j : 0 + i = i
    BY ONLY <2>2
  <2>4. Drops(z, 1, t) /\ Len(z) = 1 + j
    BY <1>7, <1>9, <2>1, <2>3
  <2>5. Len(t) = j /\ \A i \in 1..j : t[i] = z[1 + i]
    BY ONLY <2>2, <2>4, DropsFirst
  <2>6. Padding(t, 0, j, Hash1)
    BY <1>9, <2>1, <2>3, <2>5 DEF Padding
  <2>7. MarkComes'
    BY <1>7, <1>8, <1>9, <2>1, <2>5, <2>6 DEF MarkComes, Padding
  <2>8. QED
    BY <1>7, <2>7 DEF ToServer, KeyComes, RestOfKeyComes, HashComes, HeaderComes, PadComes
<1>15. ToClient'
  <2>1. PICK z, t, m : z = Line("client") /\ t = Line("client")' /\ m = k + 2
    OBVIOUS
  <2>2. k \in Nat
    BY <1>5, PadsAreNat
  <2>3. m \in Nat /\ 0 \in Nat /\ 0 + m = m /\ (\A i \in 1..m : 0 + i = i) /\ \A i \in 1..k : 2 + i \in 1..m
    BY ONLY <2>1, <2>2
  <2>4. Puts(z, s, t) /\ Len(z) = 0 /\ Len(s) = m
    BY <1>6, <1>7, <1>10, <2>1
  <2>5. Len(t) = 0 + m /\ \A i \in 1..m : t[0 + i] = s[i]
    BY ONLY <2>3, <2>4, PutsAt
  <2>6. Padding(t, 2, k, VcB)
    BY <1>6, <2>3, <2>5 DEF Padding
  <2>7. Len(t) = k + 2
    BY <2>1, <2>3, <2>5
  <2>8. AnswerComes'
    BY <1>5, <1>7, <1>8, <2>1, <2>6, <2>7 DEF AnswerComes, Padding
  <2>9. QED
    BY <1>7, <1>8, <2>8 DEF ToClient, VcComes, ChoiceComes, LastPadComes
<1>16. Talks'
  BY <1>7, <1>8 DEF Talks, Ends, Up
<1>17. QED
  BY <1>11, <1>12, <1>13, <1>14, <1>15, <1>16 DEF StreamInv

LEMMA ServerSyncStep ==
    ASSUME StreamInv, ServerSync, me' = me
    PROVE  StreamInv'
<1>1. Types /\ NeverRefused /\ Faithful /\ Stages /\ ToServer /\ ToClient /\ Talks /\ Open
  BY DEF StreamInv, ServerSync, SyncFor
<1>2. UNCHANGED <<mode, offer, lru, out, chan, enc, dec, cipher, hash, pads, wrote, read>>
  BY DEF ServerSync
<1>3. SyncFor("server", Hash1, "hash2") /\ pc["server"] = "sync"
  BY DEF ServerSync, SyncFor
<1>4. PICK k \in Pads :
            /\ Padding(Line("server"), 0, k, Hash1)
            /\ IF pc["client"] = "server key" THEN Len(Line("server")) = k
               ELSE \E n \in Lens :
                        /\ Len(Line("server")) = k + 3 + n + 5 /\ MarkAt(Line("server"), k, Hash1)
                        /\ HashAt(Line("server"), k + 2) /\ HeaderAt(Line("server"), k + 3, n)
                        /\ enc["client"] = n + 5 /\ Len(part["server"]) <= k + 1
  BY <1>1, <1>3 DEF ToServer, MarkComes
<1>5. /\ Line("client")' = Line("client") /\ part'["client"] = part["client"]
      /\ buf' \in [Ends -> Seq(Token)] /\ part' \in [Ends -> Seq(Token)]
      /\ \A y \in Ends : Len(part'[y]) <= MaxPad + 1
      /\ pc'["client"] = pc["client"] /\ DOMAIN pc' = Ends
      /\ \/ /\ pc'["server"] = "hash2" /\ part'["server"] = << >>
            /\ Drops(Line("server"), k + 2, Line("server")') /\ Len(Line("server")) # k
         \/ /\ pc'["server"] = "sync" /\ Len(part'["server"]) <= k + 1
            /\ Line("server")' = Line("server")
  <2>1. (MarkAt(Line("server"), k, Hash1) /\ Len(part["server"]) <= k + 1) \/ Len(Line("server")) = k
    BY <1>4
  <2>2. /\ Line(Other("server"))' = Line(Other("server")) /\ part'[Other("server")] = part[Other("server")]
        /\ buf' \in [Ends -> Seq(Token)] /\ part' \in [Ends -> Seq(Token)]
        /\ \A y \in Ends : Len(part'[y]) <= MaxPad + 1
        /\ pc["server"] = "sync" /\ (\A y \in Ends : y # "server" => pc'[y] = pc[y]) /\ DOMAIN pc' = Ends
        /\ \/ /\ pc'["server"] = "hash2" /\ part'["server"] = << >>
              /\ Drops(Line("server"), k + 2, Line("server")') /\ Len(Line("server")) # k
           \/ /\ pc'["server"] = "sync" /\ Len(part'["server"]) <= k + 1
              /\ Line("server")' = Line("server")
    BY <1>2, <1>3, <1>4, <2>1, EndNames, SyncTaken
  <2>3. QED
    BY <2>2, EndNames
<1>6. Types'
  BY <1>1, <1>2, <1>5 DEF Types
<1>7. NeverRefused' /\ Faithful'
  BY <1>1, <1>2, <1>5, EndNames, HistoriesKept DEF NeverRefused
<1>8. mode = "pe" /\ pc["client"] \in {"server key", "sync"}
  <2>1. <<pc["client"], "sync">> \in Pairs
    BY <1>1, <1>3 DEF Stages
  <2>2. QED
    BY <1>1, <2>1 DEF Pairs, Types, Answered, Up
<1>9. pc'["server"] = "hash2" => pc["client"] = "sync"
  BY <1>4, <1>5, <1>8
<1>10. Stages'
  <2>1. <<pc["client"], pc'["server"]>> \in Pairs'
    <3>1. /\ <<"server key", "sync">> \in Pairs' /\ <<"sync", "sync">> \in Pairs'
          /\ <<"sync", "hash2">> \in Pairs'
      BY <1>2, <1>8 DEF Pairs
    <3>2. QED
      BY <1>5, <1>8, <1>9, <3>1
  <2>2. \A x \in Ends : /\ pc'[x] \in Shaking \cup {"up"} => wrote'[x] = << >>
                        /\ pc'[x] \in Shaking => read'[Other(x)] = << >>
                        /\ pc'[x] # "sync" => part'[x] = << >>
                        /\ pc'[x] = "up" => out'[x] = << >>
    <3>1. wrote["server"] = << >> /\ read["client"] = << >>
      BY <1>1, <1>3, EndNames DEF Stages, Shaking
    <3>2. /\ pc["client"] \in Shaking \cup {"up"} => wrote["client"] = << >>
          /\ pc["client"] \in Shaking => read["server"] = << >>
          /\ pc["client"] # "sync" => part["client"] = << >>
          /\ pc["client"] = "up" => out["client"] = << >>
      BY <1>1, EndNames DEF Stages
    <3>3. pc'["server"] # "up" /\ (pc'["server"] # "sync" => part'["server"] = << >>)
      BY <1>5
    <3>4. QED
      BY <1>2, <1>5, <3>1, <3>2, <3>3, EndNames
  <2>3. cipher["server"] = "none" /\ dec["server"] = 0
    BY <1>1, <1>3 DEF Stages, Answered, Up, Early
  <2>4. pc'["server"] \notin {"client header"} \cup Answered
    BY <1>5 DEF Answered, Up
  <2>5. QED
    BY <1>1, <1>2, <1>5, <2>1, <2>2, <2>3, <2>4 DEF Stages
<1>11. SentSame("client") /\ SentSame("server")
  BY <1>2 DEF SentSame
<1>12. ToClient'
  <2>1. pc["client"] = "server key" => (pc'["server"] = "sync" <=> pc["server"] = "sync")
    BY <1>3, <1>5, <1>9
  <2>2. pc["client"] = "sync" => (pc'["server"] \in Answered <=> pc["server"] \in Answered)
    BY <1>3, <1>5 DEF Answered, Up
  <2>3. QED
    BY <1>1, <1>2, <1>5, <1>11, <2>1, <2>2, ToClientKept
<1>13. ToServer'
  <2>1. CASE pc'["server"] = "sync"
    <3>1. Line("server")' = Line("server") /\ Len(part'["server"]) <= k + 1
      BY <1>5, <2>1
    <3>2. CASE pc["client"] = "server key"
      <4>1. Len(Line("server")') = k /\ Padding(Line("server")', 0, k, Hash1)
        BY <1>4, <3>1, <3>2
      <4>2. MarkComes'
        BY <1>5, <3>2, <4>1 DEF MarkComes, Padding
      <4>3. QED
        BY <2>1, <4>2 DEF ToServer, KeyComes, RestOfKeyComes, HashComes, HeaderComes, PadComes
    <3>3. CASE pc["client"] # "server key"
      <4>1. PICK n \in Lens :
                  /\ Len(Line("server")) = k + 3 + n + 5 /\ MarkAt(Line("server"), k, Hash1)
                  /\ HashAt(Line("server"), k + 2) /\ HeaderAt(Line("server"), k + 3, n)
                  /\ enc["client"] = n + 5
        BY <1>4, <3>3
      <4>2. HashAt(Line("server"), k + 2)' /\ HeaderAt(Line("server"), k + 3, n)'
        BY <1>2, <3>1, <4>1 DEF HashAt, HeaderAt
      <4>3. Padding(Line("server"), 0, k, Hash1)' /\ MarkAt(Line("server"), k, Hash1)'
        BY <1>4, <3>1, <4>1 DEF Padding, MarkAt
      <4>4. MarkComes'
        BY <1>2, <1>5, <3>1, <3>3, <4>1, <4>2, <4>3 DEF MarkComes
      <4>5. QED
        BY <2>1, <4>4 DEF ToServer, KeyComes, RestOfKeyComes, HashComes, HeaderComes, PadComes
    <3>4. QED
      BY <3>2, <3>3
  <2>2. CASE pc'["server"] = "hash2"
    <3>1. PICK n \in Lens :
                /\ Len(Line("server")) = k + 3 + n + 5
                /\ HashAt(Line("server"), k + 2) /\ HeaderAt(Line("server"), k + 3, n)
                /\ enc["client"] = n + 5
      BY <1>4, <1>9, <2>2
    <3>2. n \in Nat /\ k \in Nat
      BY <1>4, <3>1, LensAreNat, PadsAreNat
    <3>3. PICK j \in Nat, m \in Nat : j = k + 2 /\ m = n + 6
      BY <3>2
    <3>4. /\ j \in Nat /\ m \in Nat /\ k + 3 + n + 5 = j + m
          /\ \A i \in 1..5 : i \in 1..m
          /\ j + 1 = k + 2 + 1 /\ j + 2 = k + 3 + 1 /\ j + 3 = k + 3 + 2 /\ j + 4 = k + 3 + 3 /\ j + 5 = k + 3 + 4
      BY ONLY <3>2, <3>3
    <3>5. PICK s, t : s = Line("server") /\ t = Line("server")'
      OBVIOUS
    <3>6. Drops(s, j, t) /\ Len(s) = j + m
      BY <1>5, <2>2, <3>1, <3>3, <3>4, <3>5
    <3>7. Len(t) = m /\ \A i \in 1..m : t[i] = s[j + i]
      BY ONLY <3>6, j \in Nat, m \in Nat, DropsAt
    <3>8. /\ t[1] = s[k + 2 + 1] /\ t[2] = s[k + 3 + 1] /\ t[3] = s[k + 3 + 2]
          /\ t[4] = s[k + 3 + 3] /\ t[5] = s[k + 3 + 4]
      <4>1. 1 \in 1..5 /\ 2 \in 1..5 /\ 3 \in 1..5 /\ 4 \in 1..5 /\ 5 \in 1..5
        OBVIOUS
      <4>2. t[1] = s[j + 1] /\ t[2] = s[j + 2] /\ t[3] = s[j + 3] /\ t[4] = s[j + 4] /\ t[5] = s[j + 5]
        BY <3>4, <3>7, <4>1
      <4>3. QED
        BY <3>4, <4>2
    <3>9. HashAt(t, 0) /\ HeaderAt(t, 1, n)
      <4>1. 0 + 1 = 1 /\ 1 + 1 = 2 /\ 1 + 2 = 3 /\ 1 + 3 = 4 /\ 1 + 4 = 5
        OBVIOUS
      <4>2. QED
        BY <3>1, <3>5, <3>8, <4>1 DEF HashAt, HeaderAt
    <3>10. HashAt(Line("server"), 0)' /\ HeaderAt(Line("server"), 1, n)'
      BY <1>2, <3>5, <3>9 DEF HashAt, HeaderAt
    <3>11. HashComes'
      BY <1>2, <3>1, <3>3, <3>5, <3>7, <3>10 DEF HashComes
    <3>12. QED
      BY <2>2, <3>11 DEF ToServer, KeyComes, RestOfKeyComes, MarkComes, HeaderComes, PadComes
  <2>3. QED
    BY <1>5, <2>1, <2>2
<1>14. Talks'
  BY <1>5, <1>8, EndNames DEF Talks, Up
<1>15. QED
  BY <1>6, <1>7, <1>10, <1>12, <1>13, <1>14 DEF StreamInv

LEMMA ServerHashStep ==
    ASSUME StreamInv, ServerHash, me' = me
    PROVE  StreamInv'
<1>1. Types /\ NeverRefused /\ Faithful /\ Stages /\ ToServer /\ ToClient /\ Talks /\ Open
  BY DEF StreamInv, ServerHash, Take
<1>2. UNCHANGED <<mode, offer, lru, out, chan, part, enc, dec, cipher, pads, wrote, read>>
  BY DEF ServerHash
<1>3. pc["server"] = "hash2" /\ Len(buf["server"]) >= 1
  BY DEF ServerHash, Take, Need
<1>4. PICK n \in Lens : /\ Len(Line("server")) = n + 6 /\ HashAt(Line("server"), 0)
                        /\ HeaderAt(Line("server"), 1, n) /\ enc["client"] = n + 5
  BY <1>1, <1>3 DEF ToServer, HashComes
<1>5. Len(buf["server"]) \in Nat /\ 1 <= Len(buf["server"]) /\ 1 \in 1..Len(buf["server"])
  <2>1. Len(buf["server"]) \in Nat
    BY <1>1, EndNames DEF Types
  <2>2. QED
    BY <1>3, <2>1
<1>6. buf["server"][1][3][2] = Wanted
  <2>1. \A i \in 1..Len(buf["server"]) : buf["server"][i] = Line("server")[i]
    BY <1>1, <1>3, EndNames, BufferedFirst
  <2>2. Line("server")[1] = <<"-", 0, <<"hash2", Wanted>>>>
    BY <1>4 DEF HashAt
  <2>3. QED
    BY <1>5, <2>1, <2>2
<1>7. pc["client"] = "sync" /\ mode = "pe"
  <2>1. <<pc["client"], "hash2">> \in Pairs
    BY <1>1, <1>3 DEF Stages
  <2>2. QED
    BY <1>1, <2>1 DEF Pairs, Types, Answered, Up
<1>8. /\ Take("server", "hash2", 1, IF Found(Wanted) # NoHash THEN "client header" ELSE "refused")
      /\ hash' = [hash EXCEPT !["server"] = Found(Wanted)]
  BY <1>6 DEF ServerHash
<1>9. Wanted \in Hashes /\ NoHash \notin Hashes
  BY PeStreamAssumption
<1>10. /\ hash' \in [Ends -> Hashes \cup {NoHash}] /\ hash'["client"] = hash["client"]
       /\ hash'["server"] = Found(Wanted)
  BY <1>1, <1>8, <1>9, EndNames DEF Types, Found
<1>11. CASE Wanted \notin lru
  <2>1. Take("server", "hash2", 1, "refused")
    BY <1>8, <1>11 DEF Found
  <2>2. buf' \in [Ends -> Seq(Token)] /\ pc'["server"] = "refused" /\ pc'["client"] = pc["client"] /\ DOMAIN pc' = Ends
    BY <1>2, <1>5, <2>1, ServerTakesOnly
  <2>3. Types'
    BY <1>1, <1>2, <1>10, <2>2 DEF Types
  <2>4. NeverRefused' /\ Faithful'
    BY <1>1, <1>2, <1>7, <1>11, <2>2, EndNames, HistoriesKept DEF NeverRefused
  <2>5. ~Open'
    BY <2>2, EndNames, NobodyOpen DEF Gone
  <2>6. QED
    BY <2>3, <2>4, <2>5 DEF StreamInv
<1>12. CASE Wanted \in lru
  <2>1. Found(Wanted) = Wanted /\ Take("server", "hash2", 1, "client header")
    BY <1>8, <1>9, <1>12 DEF Found
  <2>2. /\ Drops(Line("server"), 1, Line("server")') /\ Line("client")' = Line("client")
        /\ buf' \in [Ends -> Seq(Token)]
        /\ pc'["server"] = "client header" /\ pc'["client"] = pc["client"] /\ DOMAIN pc' = Ends
    BY <1>2, <1>5, <2>1, ServerTakesOnly
  <2>3. Types'
    BY <1>1, <1>2, <1>10, <2>2 DEF Types
  <2>4. NeverRefused' /\ Faithful'
    BY <1>1, <1>2, <1>7, <2>2, EndNames, HistoriesKept DEF NeverRefused
  <2>5. Stages'
    <3>1. <<"sync", "client header">> \in Pairs'
      BY <1>2, <1>7 DEF Pairs
    <3>2. \A x \in Ends : /\ pc'[x] \in Shaking \cup {"up"} => wrote'[x] = << >>
                          /\ pc'[x] \in Shaking => read'[Other(x)] = << >>
                          /\ pc'[x] # "sync" => part'[x] = << >>
                          /\ pc'[x] = "up" => out'[x] = << >>
      <4>1. wrote["server"] = << >> /\ read["client"] = << >> /\ part["server"] = << >>
        BY <1>1, <1>3, EndNames DEF Stages, Shaking
      <4>2. /\ pc["client"] \in Shaking \cup {"up"} => wrote["client"] = << >>
            /\ pc["client"] \in Shaking => read["server"] = << >>
            /\ pc["client"] # "sync" => part["client"] = << >>
            /\ pc["client"] = "up" => out["client"] = << >>
        BY <1>1, EndNames DEF Stages
      <4>3. QED
        BY <1>2, <2>2, <4>1, <4>2, EndNames
    <3>3. cipher["server"] = "none" /\ dec["server"] = 0 /\ "client header" \notin Answered
      BY <1>1, <1>3 DEF Stages, Answered, Up, Early
    <3>4. QED
      BY <1>1, <1>2, <1>7, <1>10, <2>1, <2>2, <3>1, <3>2, <3>3 DEF Stages
  <2>6. SentSame("client") /\ SentSame("server")
    BY <1>2 DEF SentSame
  <2>7. ToClient'
    <3>1. pc["client"] = "sync" => (pc'["server"] \in Answered <=> pc["server"] \in Answered)
      BY <1>3, <2>2 DEF Answered, Up
    <3>2. QED
      BY <1>1, <1>2, <1>7, <2>2, <2>6, <3>1, ToClientKept
  <2>8. ToServer'
    <3>1. PICK s, t, m : s = Line("server") /\ t = Line("server")' /\ m = n + 5
      OBVIOUS
    <3>2. n \in Nat
      BY <1>4, LensAreNat
    <3>3. m \in Nat /\ n + 6 = 1 + m /\ 1 \in 1..m /\ 2 \in 1..m /\ 3 \in 1..m /\ 4 \in 1..m
      BY ONLY <3>1, <3>2
    <3>4. Drops(s, 1, t) /\ Len(s) = 1 + m
      BY <1>4, <2>2, <3>1, <3>3
    <3>5. Len(t) = m /\ \A i \in 1..m : t[i] = s[1 + i]
      BY ONLY <3>3, <3>4, DropsFirst
    <3>6. HeaderAt(t, 0, n)
      <4>1. t[1] = s[1 + 1] /\ t[2] = s[1 + 2] /\ t[3] = s[1 + 3] /\ t[4] = s[1 + 4]
        BY <3>3, <3>5
      <4>2. 0 + 1 = 1 /\ 0 + 2 = 2 /\ 0 + 3 = 3 /\ 0 + 4 = 4
        OBVIOUS
      <4>3. QED
        BY <1>4, <3>1, <4>1, <4>2 DEF HeaderAt
    <3>7. HeaderAt(Line("server"), 0, n)'
      BY <1>2, <3>1, <3>6 DEF HeaderAt
    <3>8. HeaderComes'
      BY <1>2, <1>4, <3>1, <3>5, <3>7 DEF HeaderComes
    <3>9. QED
      BY <2>2, <3>8 DEF ToServer, KeyComes, RestOfKeyComes, MarkComes, HashComes, PadComes
  <2>9. Talks'
    BY <1>7, <2>2, EndNames DEF Talks, Up
  <2>10. QED
    BY <2>3, <2>4, <2>5, <2>7, <2>8, <2>9 DEF StreamInv
<1>13. QED
  BY <1>11, <1>12

(* The VC of a header is found. *)
LEMMA FirstTwo ==
    ASSUME NEW h \in Seq(Content), Len(h) = 4, h[1] = Tag("vc"), h[2] = Tag("vc+")
    PROVE  SubSeq(h, 1, 2) = Vc
<1>1. PICK t : t = SubSeq(h, 1, 2)
  OBVIOUS
<1>2. /\ SubSeq(h, 1, 2) \in Seq(Content)
      /\ Len(SubSeq(h, 1, 2)) = IF 1 <= 2 THEN 2 - 1 + 1 ELSE 0
      /\ \A i \in 1..(2 - 1 + 1) : SubSeq(h, 1, 2)[i] = h[1 + i - 1]
  <2>0. \A i \in 1..2 : i \in 1..Len(h)
    BY ONLY Len(h) = 4
  <2>1. \A i \in 1..2 : h[i] \in Content
    BY ONLY <2>0, h \in Seq(Content)
  <2>2. QED
    BY <2>1, SubSeqProperties
<1>3. (IF 1 <= 2 THEN 2 - 1 + 1 ELSE 0) = 2 /\ 2 - 1 + 1 = 2 /\ 1 + 1 - 1 = 1 /\ 1 + 2 - 1 = 2
      /\ 1 \in 1..2 /\ 2 \in 1..2 /\ \A i \in 1..2 : i = 1 \/ i = 2
  OBVIOUS
<1>4. t \in Seq(Content) /\ Len(t) = 2 /\ t[1] = Tag("vc") /\ t[2] = Tag("vc+")
  BY <1>1, <1>2, <1>3
<1>5. \A i \in 1..Len(t) : t[i] = Vc[i]
  BY <1>3, <1>4, VcContents
<1>6. t = Vc
  BY <1>4, <1>5, VcContents, SeqEqual
<1>7. QED
  BY <1>1, <1>6

LEMMA ServerHeaderStep ==
    ASSUME StreamInv, ServerHeader, me' = me
    PROVE  StreamInv'
<1>1. Types /\ NeverRefused /\ Faithful /\ Stages /\ ToServer /\ ToClient /\ Talks /\ Open
  BY DEF StreamInv, ServerHeader, Take
<1>2. UNCHANGED <<mode, offer, lru, chan, part, hash, wrote, read>>
      /\ dec' = [dec EXCEPT !["server"] = @ + 4]
  BY DEF ServerHeader
<1>3. pc["server"] = "client header" /\ Len(buf["server"]) >= 4
  BY DEF ServerHeader, Take, Need
<1>4. pc["client"] = "sync" /\ mode = "pe"
  <2>1. <<pc["client"], "client header">> \in Pairs
    BY <1>1, <1>3 DEF Stages
  <2>2. QED
    BY <1>1, <2>1 DEF Pairs, Types, Answered, Up
<1>5. /\ dec["server"] = 0 /\ hash["server"] = Wanted /\ cipher["client"] = "none" /\ hash["client"] = Wanted
      /\ offer \in 1..3 /\ enc["client"] \in Nat
  BY <1>1, <1>3, <1>4, EndNames DEF Stages, Early, Up, Types
<1>6. /\ wrote["client"] = << >> /\ read["client"] = << >> /\ wrote["server"] = << >> /\ read["server"] = << >>
  BY <1>1, <1>3, <1>4, EndNames, NothingSaid DEF Shaking
<1>7. PICK n \in Lens : /\ Len(Line("server")) = n + 5 /\ HeaderAt(Line("server"), 0, n)
                        /\ enc["client"] = n + 5
  BY <1>1, <1>3 DEF ToServer, HeaderComes
<1>8. n \in Nat /\ n <= MaxPad
  BY LensAreNat
<1>9. PICK b \in Seq(Token) : b = buf["server"]
  BY <1>1, EndNames DEF Types
<1>10. /\ b[1] = <<"A", 1, Tag("vc")>> /\ b[2] = <<"A", 2, Tag("vc+")>>
       /\ b[3] = <<"A", 3, <<"crypto", offer>>>> /\ b[4] = <<"A", 4, <<"len", n>>>>
  <2>1. \A i \in 1..Len(b) : b[i] = Line("server")[i]
    BY <1>1, <1>3, <1>9, EndNames, BufferedFirst
  <2>2. /\ 1 \in 1..Len(b) /\ 2 \in 1..Len(b) /\ 3 \in 1..Len(b) /\ 4 \in 1..Len(b)
        /\ 0 + 1 = 1 /\ 0 + 2 = 2 /\ 0 + 3 = 3 /\ 0 + 4 = 4
    <3>1. PICK lb \in Nat : lb = Len(b)
      OBVIOUS
    <3>2. lb >= 4
      BY <1>3, <1>9, <3>1
    <3>3. QED
      BY ONLY <3>1, <3>2
  <2>3. QED
    BY <1>7, <2>1, <2>2 DEF HeaderAt
<1>11. PICK h : h = Decrypt(IF hash["server"] = Wanted THEN "A" ELSE "other", dec["server"],
                            SubSeq(buf["server"], 1, 4))
  OBVIOUS
<1>12. /\ h \in Seq(Content) /\ Len(h) = 4 /\ h[1] = Tag("vc") /\ h[2] = Tag("vc+")
       /\ h[3] = <<"crypto", offer>> /\ h[4] = <<"len", n>>
  <2>1. PICK p, four : p = 0 /\ four = 4
    OBVIOUS
  <2>2. /\ Decrypt("A", 0, SubSeq(b, 1, 4)) \in Seq(Content) /\ Len(Decrypt("A", 0, SubSeq(b, 1, 4))) = 4
        /\ \A i \in 1..4 : Decrypt("A", 0, SubSeq(b, 1, 4))[i] =
            IF b[i][1] = "A" /\ b[i][2] = 0 + i THEN b[i][3] ELSE Garbage
    <3>1. four <= Len(b) /\ p \in Nat /\ four \in Nat
      BY <1>3, <1>9, <2>1
    <3>2. /\ Decrypt("A", p, SubSeq(b, 1, four)) \in Seq(Content) /\ Len(Decrypt("A", p, SubSeq(b, 1, four))) = four
          /\ \A i \in 1..four : Decrypt("A", p, SubSeq(b, 1, four))[i] =
              IF b[i][1] = "A" /\ b[i][2] = p + i THEN b[i][3] ELSE Garbage
      BY ONLY <3>1, b \in Seq(Token), FirstDecrypted
    <3>3. QED
      BY <2>1, <3>2
  <2>3. /\ h \in Seq(Content) /\ Len(h) = 4
        /\ \A i \in 1..4 : h[i] = IF b[i][1] = "A" /\ b[i][2] = 0 + i THEN b[i][3] ELSE Garbage
    BY <1>5, <1>9, <1>11, <2>2
  <2>4. 1 \in 1..4 /\ 2 \in 1..4 /\ 3 \in 1..4 /\ 4 \in 1..4 /\ 0 + 1 = 1 /\ 0 + 2 = 2 /\ 0 + 3 = 3 /\ 0 + 4 = 4
    OBVIOUS
  <2>5. QED
    BY <1>10, <2>3, <2>4
<1>13. PICK c \in {1, 2} : c = Selected(CipherOf(offer))
  BY <1>5, SelectedIsOffered
<1>14. CipherOf(offer) \in {"plain", "rc4"}
  BY <1>5, SelectedIsOffered
<1>15. /\ Take("server", "client header", 4, "pad, IA")
       /\ cipher' = [cipher EXCEPT !["server"] = CipherOf(offer)] /\ pads' = [pads EXCEPT !["server"] = n]
       /\ \E m \in Lens : /\ out' = [out EXCEPT !["server"] = Encrypt("B", 0, ServerReply(c, m))]
                          /\ enc' = [enc EXCEPT !["server"] = Len(ServerReply(c, m))]
  <2>1. SubSeq(h, 1, 2) = Vc
    BY <1>12, FirstTwo
  <2>2. h[3][1] = "crypto" /\ h[3][2] = offer /\ h[4][2] = n /\ CipherOf(h[3][2]) # "none"
    BY <1>12, <1>14
  <2>3. QED
    BY <1>11, <1>13, <2>1, <2>2 DEF ServerHeader, Put, ServerReply
<1>16. PICK m \in Lens : /\ out' = [out EXCEPT !["server"] = Encrypt("B", 0, ServerReply(c, m))]
                         /\ enc' = [enc EXCEPT !["server"] = Len(ServerReply(c, m))]
  BY <1>15
<1>17. m \in Nat
  BY LensAreNat
<1>18. PICK s : s = Encrypt("B", 0, ServerReply(c, m))
  OBVIOUS
<1>19. /\ Len(ServerReply(c, m)) = m + 4
       /\ s \in Seq(Token) /\ Len(s) = m + 4 /\ s[1] = VcB[1] /\ s[2] = VcB[2]
       /\ s[3] = <<"B", 3, <<"crypto", c>>>> /\ s[4] = <<"B", 4, <<"len", m>>>>
  BY <1>17, <1>18, ServerReplyTokens
<1>20. /\ Drops(Line("server"), 4, Line("server")') /\ Puts(Line("client"), s, Line("client")')
       /\ buf' \in [Ends -> Seq(Token)] /\ out' \in [Ends -> Seq(Token)]
       /\ pc'["server"] = "pad, IA" /\ pc'["client"] = pc["client"] /\ DOMAIN pc' = Ends
  <2>1. 4 \in Nat /\ 4 <= Len(buf["server"]) /\ "client header" # "sync"
    BY <1>3, <1>9
  <2>2. out' = [out EXCEPT !["server"] = s]
    BY <1>16, <1>18
  <2>3. QED
    BY <1>2, <1>15, <1>19, <2>1, <2>2, ServerTakes
<1>21. enc' \in [Ends -> Nat] /\ enc'["server"] = m + 4 /\ enc'["client"] = enc["client"]
  BY <1>1, <1>16, <1>17, <1>19, EndNames DEF Types
<1>22. dec' \in [Ends -> Nat] /\ dec'["server"] = 4 /\ dec'["client"] = dec["client"]
  BY <1>1, <1>2, <1>5, EndNames DEF Types
<1>23. /\ cipher' \in [Ends -> {"none", "plain", "rc4"}] /\ cipher'["server"] = CipherOf(offer)
       /\ cipher'["client"] = cipher["client"]
  BY <1>1, <1>14, <1>15, EndNames DEF Types
<1>24. pads' \in [Ends -> {0} \cup Lens] /\ pads'["server"] = n /\ pads'["client"] = pads["client"]
  BY <1>1, <1>15, EndNames DEF Types
<1>25. Types'
  BY <1>1, <1>2, <1>20, <1>21, <1>22, <1>23, <1>24 DEF Types
<1>26. NeverRefused' /\ Faithful'
  BY <1>1, <1>2, <1>4, <1>20, EndNames, HistoriesKept DEF NeverRefused
<1>27. Stages'
  <2>1. <<"sync", "pad, IA">> \in Pairs'
    BY <1>2, <1>4 DEF Pairs, Answered
  <2>2. \A x \in Ends : /\ pc'[x] \in Shaking \cup {"up"} => wrote'[x] = << >>
                        /\ pc'[x] \in Shaking => read'[Other(x)] = << >>
                        /\ pc'[x] # "sync" => part'[x] = << >>
                        /\ pc'[x] = "up" => out'[x] = << >>
    <3>1. part["server"] = << >>
      BY <1>1, <1>3, EndNames DEF Stages
    <3>2. QED
      BY <1>2, <1>4, <1>6, <1>20, <3>1, EndNames
  <2>3. "pad, IA" \in Answered /\ "pad, IA" \notin Early /\ "sync" \notin {"pad"} \cup Up
    BY DEF Answered, Early, Up
  <2>4. QED
    BY <1>2, <1>4, <1>5, <1>20, <1>23, <2>1, <2>2, <2>3 DEF Stages
<1>28. Start("client")' = n + 5 /\ Start("server")' = m + 4
  <2>1. Len(<< >>) = 0
    OBVIOUS
  <2>2. n + 5 \in Nat /\ m + 4 \in Nat
    BY <1>8, <1>17
  <2>3. n + 5 - 0 = n + 5 /\ m + 4 - 0 = m + 4 /\ 0 - 0 = 0
    BY ONLY <2>2
  <2>4. /\ Len(wrote'["client"]) = 0 /\ Len(read'["client"]) = 0
        /\ Len(wrote'["server"]) = 0 /\ Len(read'["server"]) = 0
    BY <1>2, <1>6, <2>1
  <2>5. /\ Start("client")' = enc'["client"] - (Len(wrote'["client"]) - Len(read'["client"]))
        /\ Start("server")' = enc'["server"] - (Len(wrote'["server"]) - Len(read'["server"]))
    BY DEF Start, Unread
  <2>6. PICK a, d : a = n + 5 /\ d = m + 4
    OBVIOUS
  <2>7. enc'["client"] = a /\ enc'["server"] = d
    BY <1>7, <1>21, <2>6
  <2>8. Start("client")' = a - (0 - 0) /\ Start("server")' = d - (0 - 0)
    BY <2>4, <2>5, <2>7
  <2>9. a - (0 - 0) = a /\ d - (0 - 0) = d
    BY ONLY <2>2, <2>6
  <2>10. QED
    BY <2>6, <2>8, <2>9
<1>29. ToServer'
  <2>1. PICK z, t, j, four : z = Line("server") /\ t = Line("server")' /\ j = n + 1 /\ four = 4
    OBVIOUS
  <2>2. j \in Nat /\ four \in Nat /\ n + 5 = four + j
    BY ONLY <1>8, <2>1
  <2>3. Drops(z, four, t) /\ Len(z) = four + j
    BY <1>7, <1>20, <2>1, <2>2
  <2>4. Len(t) = j
    BY ONLY <2>2, <2>3, DropsAt
  <2>5. wrote'["client"] = << >> /\ read'["client"] = << >> /\ Len(Line("server")') = j
    BY <1>2, <1>6, <2>1, <2>4
  <2>6. Ahead("server", j)'
    BY <2>2, <2>5, EndNames, NothingAheadNext
  <2>7. PadComes'
    BY <1>7, <1>22, <1>24, <1>28, <2>1, <2>6 DEF PadComes, StartIs, Ahead
  <2>8. QED
    BY <1>20, <2>7 DEF ToServer, KeyComes, RestOfKeyComes, MarkComes, HashComes, HeaderComes
<1>30. ToClient'
  <2>1. "client header" \notin Answered /\ "pad, IA" \in Answered
    BY DEF Answered, Up
  <2>2. PICK k \in Pads : Padding(Line("client"), 0, k, VcB) /\ Len(Line("client")) = k
    BY <1>1, <1>3, <1>4, <2>1 DEF ToClient, VcComes
  <2>3. k \in Nat
    BY <2>2, PadsAreNat
  <2>4. PICK z, t, j : z = Line("client") /\ t = Line("client")' /\ j = m + 4
    OBVIOUS
  <2>5. /\ j \in Nat /\ k + j = k + 2 + m + 2 /\ k + 2 + m + 2 \in Nat
        /\ 1 \in 1..j /\ 2 \in 1..j /\ 3 \in 1..j /\ 4 \in 1..j
        /\ k + 2 + 1 = k + 3 /\ k + 2 + 2 = k + 4
    BY ONLY <1>17, <2>3, <2>4
  <2>6. Puts(z, s, t) /\ Len(z) = k /\ Len(s) = j
    BY <1>19, <1>20, <2>2, <2>4
  <2>7. /\ Len(t) = k + j /\ (\A i \in 1..k : t[i] = z[i]) /\ \A i \in 1..j : t[k + i] = s[i]
    BY ONLY <2>3, <2>5, <2>6, PutsAt
  <2>8. t[k + 1] = s[1] /\ t[k + 2] = s[2] /\ t[k + 2 + 1] = s[3] /\ t[k + 2 + 2] = s[4]
    BY <2>5, <2>7
  <2>9. MarkAt(t, k, VcB) /\ ReplyAt(Line("client"), k + 2, m)'
    BY <1>2, <1>13, <1>19, <2>4, <2>8 DEF MarkAt, ReplyAt
  <2>10. Padding(t, 0, k, VcB)
    <3>1. \A i \in 1..k : 0 + i = i
      BY ONLY <2>3
    <3>2. QED
      BY <2>2, <2>4, <2>7, <3>1 DEF Padding
  <2>11. wrote'["server"] = << >> /\ read'["server"] = << >> /\ Len(Line("client")') = k + 2 + m + 2
    BY <1>2, <1>6, <2>4, <2>5, <2>7
  <2>12. Ahead("client", k + 2 + m + 2)'
    <3>1. PICK i \in Nat : i = k + 2 + m + 2
      BY <2>5
    <3>2. Ahead("client", i)'
      BY <2>11, <3>1, EndNames, NothingAheadNext
    <3>3. QED
      BY <3>1, <3>2
  <2>13. Len(part["client"]) <= k + 1
    <3>1. Len(part["client"]) \in Nat /\ Len(part["client"]) <= k
      BY <1>1, <2>2, EndNames, PartInLine
    <3>2. QED
      BY <2>3, <3>1
  <2>14. StartIs("server", m + 4)'
    BY <1>28 DEF StartIs
  <2>15. Padding(Line("client"), 0, k, VcB)' /\ MarkAt(Line("client"), k, VcB)'
    BY <2>4, <2>9, <2>10 DEF Padding, MarkAt
  <2>16. VcComes'
    BY <1>2, <1>20, <2>1, <2>2, <2>9, <2>12, <2>13, <2>14, <2>15 DEF VcComes
  <2>17. QED
    BY <1>4, <1>20, <2>16 DEF ToClient, AnswerComes, ChoiceComes, LastPadComes
<1>31. Talks'
  BY <1>4, <1>20, EndNames DEF Talks, Up
<1>32. QED
  BY <1>25, <1>26, <1>27, <1>29, <1>30, <1>31 DEF StreamInv

LEMMA ServerPadStep ==
    ASSUME StreamInv, ServerPad, me' = me
    PROVE  StreamInv'
<1>1. Types /\ NeverRefused /\ Faithful /\ Stages /\ ToServer /\ ToClient /\ Talks /\ Open
  BY DEF StreamInv, ServerPad, Take
<1>2. UNCHANGED <<mode, offer, lru, out, chan, part, enc, cipher, hash, pads, wrote, read>>
  BY DEF ServerPad
<1>3. pc["server"] = "pad, IA" /\ Len(buf["server"]) >= pads["server"] + 1 /\ out["server"] = << >>
  BY DEF ServerPad, Take, Need, Writing
<1>4. PICK n \in Lens : n = pads["server"]
  BY <1>1, <1>3 DEF ToServer, PadComes
<1>5. n \in Nat /\ n <= MaxPad /\ MaxPad \in Nat
  BY LensAreNat, PeStreamAssumption
<1>6. Ahead("server", n + 1) /\ StartIs("client", n + 5) /\ dec["server"] = 4
  BY <1>1, <1>3, <1>4 DEF ToServer, PadComes
<1>7. PICK m : m = n + 1
  OBVIOUS
<1>8. m \in Nat /\ m \in 0..m /\ m - m = 0 /\ 4 + n + 1 = n + 5 /\ n + 5 \in Nat
  BY ONLY <1>5, <1>7
<1>9. /\ Drops(Line("server"), m, Line("server")') /\ Line("client")' = Line("client")
      /\ buf' \in [Ends -> Seq(Token)]
      /\ pc'["server"] = "up" /\ pc'["client"] = pc["client"] /\ DOMAIN pc' = Ends
  <2>1. Take("server", "pad, IA", m, "up")
    <3>1. ~(n > MaxPad)
      BY ONLY <1>5
    <3>2. QED
      BY <1>4, <1>7, <3>1 DEF ServerPad
  <2>2. m <= Len(buf["server"])
    <3>1. Len(buf["server"]) \in Nat
      BY <1>1, EndNames DEF Types
    <3>2. Len(buf["server"]) >= m
      BY <1>3, <1>4, <1>7
    <3>3. QED
      BY <1>8, <3>1, <3>2
  <2>3. QED
    BY <1>2, <1>8, <2>1, <2>2, ServerTakesOnly
<1>10. dec' \in [Ends -> Nat] /\ dec'["server"] = n + 5 /\ dec'["client"] = dec["client"]
  <2>1. dec' = [dec EXCEPT !["server"] = 4 + n + 1]
    BY <1>1, <1>4, <1>6, EndNames DEF ServerPad, Skipped, Types
  <2>2. QED
    BY <1>1, <1>8, <2>1, EndNames DEF Types
<1>11. Types'
  BY <1>1, <1>2, <1>9, <1>10 DEF Types
<1>12. NeverRefused' /\ Faithful'
  BY <1>1, <1>2, <1>9, EndNames, HistoriesKept DEF NeverRefused
<1>13. <<pc["client"], "pad, IA">> \in Pairs
  BY <1>1, <1>3 DEF Stages
<1>14. mode = "pe" /\ pc["client"] \in {"sync", "header", "pad"} \cup Up
  BY <1>1, <1>13 DEF Pairs, Types, Up
<1>15. Stages'
  <2>1. <<pc["client"], "up">> \in Pairs'
    BY <1>2, <1>14 DEF Pairs, Answered, Up
  <2>2. \A x \in Ends : /\ pc'[x] \in Shaking \cup {"up"} => wrote'[x] = << >>
                        /\ pc'[x] \in Shaking => read'[Other(x)] = << >>
                        /\ pc'[x] # "sync" => part'[x] = << >>
                        /\ pc'[x] = "up" => out'[x] = << >>
    <3>1. part["server"] = << >> /\ wrote["server"] = << >>
      BY <1>1, <1>3, EndNames DEF Stages, Shaking
    <3>2. /\ pc["client"] \in Shaking \cup {"up"} => wrote["client"] = << >>
          /\ pc["client"] \in Shaking => read["server"] = << >>
          /\ pc["client"] # "sync" => part["client"] = << >>
          /\ pc["client"] = "up" => out["client"] = << >>
      BY <1>1, EndNames DEF Stages
    <3>3. "up" \notin Shaking
      BY DEF Shaking
    <3>4. QED
      BY <1>2, <1>3, <1>9, <3>1, <3>2, <3>3, EndNames
  <2>3. "up" \in Answered /\ "up" \notin Early /\ "pad, IA" \in Answered
    BY DEF Answered, Early, Up
  <2>4. QED
    BY <1>1, <1>2, <1>3, <1>9, <2>1, <2>2, <2>3 DEF Stages
<1>16. SentSame("client") /\ SentSame("server")
  BY <1>2 DEF SentSame
<1>17. ToServer'
  BY <1>9 DEF ToServer, KeyComes, RestOfKeyComes, MarkComes, HashComes, HeaderComes, PadComes
<1>18. ToClient'
  <2>1. pc["client"] # "server key" /\ (pc["client"] = "sync" => (pc'["server"] \in Answered <=> pc["server"] \in Answered))
    BY <1>3, <1>9, <1>14 DEF Answered, Up
  <2>2. QED
    BY <1>1, <1>2, <1>9, <1>10, <1>16, <2>1, ToClientKept
<1>19. Talk("server")'
  <2>1. Ahead("server", m)
    BY <1>6, <1>7
  <2>2. Ahead("server", m - m)'
    BY <1>1, <1>8, <1>9, <1>11, <1>16, <2>1, EndNames, AheadDrop
  <2>3. Ahead("server", 0)' /\ StartIs("client", n + 5)'
    BY <1>6, <1>8, <1>16, <2>2, EndNames, StartKept
  <2>4. QED
    BY <1>10, <2>3, EndNames DEF Talk, StartIs
<1>20. Talks'
  <2>1. CASE pc'["client"] \in Up
    <3>1. Talk("client")
      BY <1>1, <1>9, <2>1, EndNames DEF Talks
    <3>2. Talk("client")'
      BY <1>1, <1>2, <1>9, <1>10, <1>16, <3>1, EndNames, TalkKept
    <3>3. QED
      BY <1>19, <3>2, EndNames DEF Talks
  <2>2. QED
    BY <1>19, <2>1, EndNames DEF Talks
<1>21. QED
  BY <1>11, <1>12, <1>15, <1>17, <1>18, <1>20 DEF StreamInv

-----------------------------------------------------------------------------
(* Reading and writing after the handshake *)

\* x writes s, perhaps nothing.
Says(x, s) ==
    /\ wrote' = [wrote EXCEPT ![x] = @ \o s]
    /\ enc' = [enc EXCEPT ![x] = IF cipher[x] = "rc4" THEN @ + Len(s) ELSE @]
    /\ \E e \in Seq(Token) :
            /\ out' = [out EXCEPT ![x] = e]
            /\ Len(e) = Len(s) /\ \A i \in 1..Len(s) : e[i] = Coded(KeyOf(x), enc[x] + i, s[i])

\* x reads n tokens, perhaps none.
Hears(x, n) ==
    /\ n <= Len(buf[x])
    /\ buf' = [buf EXCEPT ![x] = SubSeq(@, n + 1, Len(@))]
    /\ dec' = [dec EXCEPT ![x] = IF cipher[x] = "rc4" THEN @ + n ELSE @]
    /\ read' = [read EXCEPT ![Other(x)] = @ \o Contents(x, n)]

Ended == {"failed", "done", "panicked", "timeout"}

\* x does both and goes to `to`.
Turn(x, n, s, to) ==
    /\ Open /\ pc[x] \in Up /\ out[x] = << >>
    /\ Hears(x, n) /\ Says(x, s)
    /\ pc'[x] = to /\ pc'[Other(x)] = pc[Other(x)] /\ DOMAIN pc' = Ends
    /\ to \in (Up \ {"up"}) \cup Ended
    /\ pc[x] = "up" /\ x = "client" => s # << >> /\ s[1] = HandshakeTag
    /\ UNCHANGED <<mode, offer, lru, chan, part, cipher, hash, pads, me>>

LEMMA SaysNothing ==
    ASSUME Types, NEW x \in Ends, out[x] = << >>, Silent
    PROVE  Says(x, << >>)
<1>1. PICK e : e = << >>
  OBVIOUS
<1>2. e \in Seq(Token) /\ e \in Seq(Content) /\ Len(e) = 0
  BY <1>1, EmptySeq
<1>3. UNCHANGED <<out, enc, wrote>>
  BY DEF Silent
<1>4. wrote' = [wrote EXCEPT ![x] = wrote[x] \o e]
  <2>1. wrote \in [Ends -> Seq(Content)]
    BY DEF Types
  <2>2. PICK w : w = wrote[x]
    OBVIOUS
  <2>3. w \in Seq(Content)
    BY <2>1, <2>2
  <2>4. w \o << >> = w
    BY <2>3, ConcatEmptySeq
  <2>5. wrote = [wrote EXCEPT ![x] = w]
    BY <2>1, <2>2
  <2>6. QED
    BY <1>1, <1>3, <2>2, <2>4, <2>5
<1>5. enc' = [enc EXCEPT ![x] = IF cipher[x] = "rc4" THEN enc[x] + Len(e) ELSE enc[x]]
  <2>1. enc \in [Ends -> Nat]
    BY DEF Types
  <2>2. enc[x] + 0 = enc[x]
    BY <2>1
  <2>3. QED
    BY <1>2, <1>3, <2>1, <2>2
<1>6. out' = [out EXCEPT ![x] = e]
  BY <1>1, <1>3 DEF Types
<1>7. \A i \in 1..Len(e) : e[i] = Coded(KeyOf(x), enc[x] + i, e[i])
  BY <1>2
<1>8. Says(x, e)
  BY <1>2, <1>4, <1>5, <1>6, <1>7 DEF Says
<1>9. QED
  BY <1>1, <1>8

LEMMA SaysWritten ==
    ASSUME Types, NEW x \in Ends, NEW s \in Seq(Content), Write(x, s)
    PROVE  Says(x, s)
<1>1. enc \in [Ends -> Nat] /\ enc[x] \in Nat /\ wrote' = [wrote EXCEPT ![x] = @ \o s]
  BY DEF Types, Write
<1>2. SendKey(x) \in {"A", "B"}
  BY DEF SendKey
<1>3. CASE cipher[x] = "rc4"
  <2>1. PICK e : e = Encrypt(SendKey(x), enc[x], s)
    OBVIOUS
  <2>2. /\ e \in Seq(Token) /\ Len(e) = Len(s)
        /\ \A i \in 1..Len(s) : e[i] = <<SendKey(x), enc[x] + i, s[i]>>
    BY <1>1, <1>2, <2>1, EncryptedTokens
  <2>3. \A i \in 1..Len(s) : e[i] = Coded(KeyOf(x), enc[x] + i, s[i])
    BY <1>2, <1>3, <2>2 DEF Coded, KeyOf
  <2>4. out' = [out EXCEPT ![x] = e] /\ enc' = [enc EXCEPT ![x] = enc[x] + Len(s)]
    BY <1>3, <2>1 DEF Write, Put
  <2>5. QED
    BY <1>1, <1>3, <2>2, <2>3, <2>4 DEF Says
<1>4. CASE cipher[x] # "rc4"
  <2>1. PICK e : e = Plain(s)
    OBVIOUS
  <2>2. /\ e \in Seq(Token) /\ Len(e) = Len(s) /\ \A i \in 1..Len(s) : e[i] = <<"-", 0, s[i]>>
    BY <2>1, PlainTokens
  <2>3. \A i \in 1..Len(s) : e[i] = Coded(KeyOf(x), enc[x] + i, s[i])
    BY <1>4, <2>2 DEF Coded, KeyOf
  <2>4. out' = [out EXCEPT ![x] = e] /\ enc' = [enc EXCEPT ![x] = enc[x]]
    BY <1>1, <1>4, <2>1 DEF Write, Put
  <2>5. QED
    BY <1>1, <1>4, <2>2, <2>3, <2>4 DEF Says
<1>5. QED
  BY <1>3, <1>4

LEMMA HearsConsumed ==
    ASSUME Types, NEW x \in Ends, NEW n \in Nat, n <= Len(buf[x]), Consumed(x, n),
           buf' = [buf EXCEPT ![x] = SubSeq(@, n + 1, Len(@))]
    PROVE  Hears(x, n)
<1>1. dec' = [dec EXCEPT ![x] = IF cipher[x] = "rc4" THEN @ + n ELSE @]
  BY DEF Types, Consumed
<1>2. QED
  BY <1>1 DEF Hears, Consumed

LEMMA NoContents ==
    ASSUME Types, NEW x \in Ends
    PROVE  Contents(x, 0) = << >>
<1>1. PICK b \in Seq(Token), p \in Nat, n \in Nat : b = buf[x] /\ p = dec[x] /\ n = 0
  BY DEF Types
<1>2. n \in Nat /\ n <= Len(b)
  BY <1>1
<1>3. PICK q : q = Contents(x, n)
  OBVIOUS
<1>4. CASE cipher[x] = "rc4"
  <2>1. q = Decrypt(SendKey(Other(x)), p, SubSeq(b, 1, n))
    BY <1>1, <1>3, <1>4 DEF Contents
  <2>2. q \in Seq(Content) /\ Len(q) = n
    BY <1>2, <2>1, FirstDecrypted
  <2>3. QED
    BY <1>1, <1>3, <2>2, EmptySeq
<1>5. CASE cipher[x] # "rc4"
  <2>1. q = [i \in 1..n |-> buf[x][i][3]]
    BY <1>3, <1>5 DEF Contents
  <2>2. 1..n = {}
    BY <1>1
  <2>3. << >> = [i \in 1..n |-> buf[x][i][3]]
    BY <2>2
  <2>4. QED
    BY <1>1, <1>3, <2>1, <2>3
<1>6. QED
  BY <1>4, <1>5

LEMMA HearsNothing ==
    ASSUME Types, NEW x \in Ends, dec' = dec, read' = read,
           \/ buf' = buf
           \/ buf' = [buf EXCEPT ![x] = SubSeq(@, 0 + 1, Len(@))]
    PROVE  Hears(x, 0)
<1>1. /\ buf \in [Ends -> Seq(Token)] /\ dec \in [Ends -> Nat] /\ read \in [Ends -> Seq(Content)]
      /\ Other(x) \in Ends
  BY TwoEnds DEF Types
<1>2. PICK b \in Seq(Token), r \in Seq(Content), y \in Ends : b = buf[x] /\ r = read[y] /\ y = Other(x)
  BY <1>1
<1>3. buf' = [buf EXCEPT ![x] = SubSeq(b, 0 + 1, Len(b))]
  <2>1. SubSeq(b, 1, Len(b)) = b
    <3>1. PICK t : t = SubSeq(b, 1, Len(b))
      OBVIOUS
    <3>2. PICK l \in Nat : l = Len(b)
      OBVIOUS
    <3>3. l <= Len(b)
      BY <3>2
    <3>4. /\ SubSeq(b, 1, l) \in Seq(Token)
          /\ Len(SubSeq(b, 1, l)) = IF 1 <= l THEN l - 1 + 1 ELSE 0
          /\ \A i \in 1..(l - 1 + 1) : SubSeq(b, 1, l)[i] = b[1 + i - 1]
      <4>1. \A i \in 1..l : b[i] \in Token
        BY <3>2
      <4>2. QED
        BY <4>1, SubSeqProperties
    <3>5. (IF 1 <= l THEN l - 1 + 1 ELSE 0) = l /\ l - 1 + 1 = l /\ \A i \in 1..l : 1 + i - 1 = i
      OBVIOUS
    <3>6. t \in Seq(Token) /\ Len(t) = Len(b) /\ \A i \in 1..Len(t) : t[i] = b[i]
      BY <3>1, <3>2, <3>4, <3>5
    <3>7. t = b
      BY <3>6, SeqEqual
    <3>8. QED
      BY <3>1, <3>7
  <2>2. buf = [buf EXCEPT ![x] = b]
    BY <1>1, <1>2
  <2>3. 0 + 1 = 1
    OBVIOUS
  <2>4. QED
    BY <1>2, <2>1, <2>2, <2>3
<1>4. dec' = [dec EXCEPT ![x] = IF cipher[x] = "rc4" THEN dec[x] + 0 ELSE dec[x]]
  <2>1. dec[x] + 0 = dec[x]
    BY <1>1
  <2>2. QED
    BY <1>1, <2>1
<1>5. read' = [read EXCEPT ![y] = r \o Contents(x, 0)]
  <2>1. r \o << >> = r
    BY ConcatEmptySeq
  <2>2. read = [read EXCEPT ![y] = r]
    BY <1>1, <1>2
  <2>3. QED
    BY <2>1, <2>2, NoContents
<1>6. 0 <= Len(b)
  OBVIOUS
<1>7. QED
  BY <1>2, <1>3, <1>4, <1>5, <1>6 DEF Hears

(* Who has something to say has the cipher of the other. *)
LEMMA SameCipher ==
    ASSUME StreamInv, Open, NEW x \in Ends, pc[x] \in Up, wrote[Other(x)] # << >>
    PROVE  cipher[Other(x)] = cipher[x]
<1>1. Types /\ Stages
  BY DEF StreamInv
<1>2. Other(x) \in Ends /\ pc[Other(x)] \notin Shaking \cup {"up"}
  BY <1>1, TwoEnds DEF Stages
<1>3. <<pc["client"], pc["server"]>> \in Pairs
  BY <1>1 DEF Stages
<1>4. pc[Other(x)] \in Up
  <2>1. CASE mode = "plain"
    BY <1>2, <1>3, <2>1, EndNames DEF Pairs, Shaking, Up
  <2>2. CASE mode = "pe"
    BY <1>2, <1>3, <2>2, EndNames DEF Pairs, Shaking, Up, Answered
  <2>3. QED
    BY <1>1, <2>1, <2>2 DEF Types
<1>5. pc["client"] \in Up /\ pc["server"] \in Up
  BY <1>4, EndNames
<1>6. cipher["client"] = cipher["server"]
  BY <1>1, <1>5 DEF Stages, Answered
<1>7. QED
  BY <1>6, EndNames

(* What is read next is what was written next. *)
LEMMA ReadsWritten ==
    ASSUME StreamInv, Open, NEW x \in Ends, pc[x] \in Up, NEW n \in Nat, n <= Len(buf[x])
    PROVE  /\ Contents(x, n) \in Seq(Content) /\ Len(Contents(x, n)) = n
           /\ Len(read[Other(x)]) + n <= Len(wrote[Other(x)])
           /\ \A i \in 1..n : Contents(x, n)[i] = wrote[Other(x)][Len(read[Other(x)]) + i]
<1>1. Types /\ Faithful /\ Stages /\ Talk(x)
  BY DEF StreamInv, Talks
<1>2. PICK y \in Ends : y = Other(x)
  BY TwoEnds
<1>3. PICK b \in Seq(Token), w \in Seq(Content), r \in Seq(Content) : b = buf[x] /\ w = wrote[y] /\ r = read[y]
  BY <1>1 DEF Types
<1>4. PICK s, key, from : s = Line(x) /\ key = KeyOf(y) /\ from = Start(y)
  OBVIOUS
<1>5. Carried(s, 0, w, r, key, from)
  BY <1>1, <1>2, <1>3, <1>4 DEF Talk, Ahead
<1>6. "sync" \notin Up
  BY DEF Up
<1>7. /\ Len(b) <= Len(s) /\ Len(b) \in Nat /\ Len(s) \in Nat
      /\ \A i \in 1..Len(b) : b[i] = s[i]
  BY <1>3, <1>4, <1>6, BufferedFirst
<1>8. PICK lb \in Nat, lw \in Nat, lr \in Nat : lb = Len(b) /\ lw = Len(w) /\ lr = Len(r)
  BY <1>3
<1>9. lr <= lw /\ n <= lb
  BY <1>1, <1>3, <1>8 DEF Faithful
<1>10. PICK u \in Nat : u = lw - lr
  <2>1. lw - lr \in Nat
    BY ONLY <1>8, <1>9
  <2>2. QED
    BY <2>1
<1>11. Len(s) = 0 + u /\ \A i \in 1..u : s[0 + i] = Coded(key, from + i, w[lr + i])
  BY <1>5, <1>8, <1>10 DEF Carried
<1>12. n <= u /\ lr + n <= lw
  <2>1. lb <= u
    BY <1>7, <1>8, <1>11
  <2>2. QED
    BY ONLY <1>8, <1>9, <1>10, <2>1, n \in Nat
<1>13. ASSUME NEW i \in 1..n
       PROVE  b[i] = Coded(key, from + i, w[lr + i])
  <2>1. i \in 1..u /\ i \in 1..lb /\ 0 + i = i
    BY ONLY <1>8, <1>9, <1>10, <1>12, n \in Nat, i \in 1..n
  <2>2. QED
    BY <1>7, <1>8, <1>11, <2>1
<1>14. PICK q : q = Contents(x, n)
  OBVIOUS
<1>15. CASE cipher[x] = "rc4"
  <2>1. PICK p \in Nat : p = dec[x]
    BY <1>1 DEF Types
  <2>2. PICK k : k = SendKey(y)
    OBVIOUS
  <2>3. q = Decrypt(k, p, SubSeq(b, 1, n))
    BY <1>2, <1>3, <1>14, <1>15, <2>1, <2>2 DEF Contents
  <2>4. /\ q \in Seq(Content) /\ Len(q) = n
        /\ \A i \in 1..n : q[i] = IF b[i][1] = k /\ b[i][2] = p + i THEN b[i][3] ELSE Garbage
    <3>1. n <= Len(b)
      BY <1>3
    <3>2. /\ Decrypt(k, p, SubSeq(b, 1, n)) \in Seq(Content)
          /\ Len(Decrypt(k, p, SubSeq(b, 1, n))) = n
          /\ \A i \in 1..n : Decrypt(k, p, SubSeq(b, 1, n))[i] =
                 IF b[i][1] = k /\ b[i][2] = p + i THEN b[i][3] ELSE Garbage
      BY ONLY <3>1, n \in Nat, b \in Seq(Token), p \in Nat, FirstDecrypted
    <3>3. QED
      BY <2>3, <3>2
  <2>5. ASSUME NEW i \in 1..n
        PROVE  q[i] = w[lr + i]
    <3>1. w # << >>
      <4>1. lr + i \in 1..lw
        BY ONLY <1>8, <1>12, n \in Nat, i \in 1..n
      <4>2. QED
        BY <1>8, <4>1
    <3>2. cipher[y] = "rc4"
      BY <1>2, <1>3, <1>15, <3>1, SameCipher
    <3>3. key = k /\ from = p /\ key # "-"
      BY <1>1, <1>2, <1>4, <1>15, <2>1, <2>2, <3>2 DEF KeyOf, Talk, StartIs, SendKey
    <3>4. b[i] = <<k, p + i, w[lr + i]>>
      BY <1>13, <3>3 DEF Coded
    <3>5. q[i] = b[i][3]
      BY ONLY <2>4, <3>4, i \in 1..n
    <3>6. QED
      BY ONLY <3>4, <3>5
  <2>6. QED
    BY <1>2, <1>3, <1>8, <1>12, <1>14, <2>3, <2>4, <2>5
<1>16. CASE cipher[x] # "rc4"
  <2>1. q = [i \in 1..n |-> b[i][3]]
    BY <1>3, <1>14, <1>16 DEF Contents
  <2>2. ASSUME NEW i \in 1..n
        PROVE  q[i] = w[lr + i] /\ q[i] \in Content
    <3>1. q[i] = b[i][3] /\ b[i] = Coded(key, from + i, w[lr + i])
      BY <1>13, <2>1
    <3>2. q[i] = w[lr + i]
      BY <3>1 DEF Coded
    <3>3. lr + i \in 1..lw
      BY ONLY <1>8, <1>12, n \in Nat, i \in 1..n
    <3>4. w[lr + i] \in Content
      BY ONLY <1>3, <1>8, <3>3
    <3>5. QED
      BY <3>2, <3>4
  <2>3. q \in Seq(Content) /\ Len(q) = n
    <3>1. q \in [1..n -> Content]
      BY <2>1, <2>2
    <3>2. QED
      BY <3>1
  <2>4. QED
    BY <1>2, <1>3, <1>8, <1>12, <1>14, <2>2, <2>3
<1>17. QED
  BY <1>15, <1>16

(* The position does not count without a key. *)
LEMMA NoKeyNoPosition ==
    ASSUME NEW s, NEW k, NEW w, NEW r, NEW from, NEW from2, Carried(s, k, w, r, "-", from)
    PROVE  Carried(s, k, w, r, "-", from2)
BY DEF Carried, Coded

(* What goes on after the reading of n. *)
LEMMA HeardOn ==
    ASSUME StreamInv, Open, NEW x \in Ends, pc[x] \in Up, NEW n \in Nat, Hears(x, n), Types',
           Drops(Line(x), n, Line(x)'), cipher' = cipher,
           wrote'[Other(x)] = wrote[Other(x)], enc'[Other(x)] = enc[Other(x)]
    PROVE  /\ Talk(x)' /\ Len(read'[Other(x)]) <= Len(wrote'[Other(x)])
           /\ \A i \in 1..Len(read'[Other(x)]) : read'[Other(x)][i] = wrote'[Other(x)][i]
<1>1. Types /\ Faithful /\ Stages /\ Talk(x)
  BY DEF StreamInv, Talks
<1>2. PICK y \in Ends : y = Other(x)
  BY TwoEnds
<1>3. PICK w, r, q, c : w = wrote[y] /\ r = read[y] /\ q = Contents(x, n) /\ c = r \o q
  OBVIOUS
<1>4. w \in Seq(Content) /\ r \in Seq(Content) /\ enc[y] \in Nat /\ dec[x] \in Nat
  BY <1>1, <1>3 DEF Types
<1>5. n <= Len(buf[x]) /\ read' = [read EXCEPT ![y] = c]
      /\ dec' = [dec EXCEPT ![x] = IF cipher[x] = "rc4" THEN dec[x] + n ELSE dec[x]]
  BY <1>2, <1>3 DEF Hears
<1>6. /\ q \in Seq(Content) /\ Len(q) = n /\ Len(r) + n <= Len(w)
      /\ \A i \in 1..n : q[i] = w[Len(r) + i]
  BY <1>2, <1>3, <1>5, ReadsWritten
<1>7. /\ c \in Seq(Content) /\ Len(c) = Len(r) + n
      /\ \A i \in 1..(Len(r) + n) : c[i] = IF i <= Len(r) THEN r[i] ELSE q[i - Len(r)]
  <2>1. /\ r \o q \in Seq(Content) /\ Len(r \o q) = Len(r) + Len(q)
        /\ \A i \in 1..(Len(r) + Len(q)) : (r \o q)[i] = IF i <= Len(r) THEN r[i] ELSE q[i - Len(r)]
    BY ONLY <1>4, <1>6, ConcatProperties
  <2>2. QED
    BY <1>3, <1>6, <2>1
<1>8. PICK lr \in Nat, lw \in Nat : lr = Len(r) /\ lw = Len(w) /\ lr + n <= lw
  <2>1. PICK lr \in Nat, lw \in Nat : lr = Len(r) /\ lw = Len(w)
    BY <1>4
  <2>2. QED
    BY <1>6, <2>1
<1>9. read'[y] = c /\ wrote'[y] = w /\ enc'[y] = enc[y]
  BY <1>1, <1>2, <1>3, <1>5 DEF Types
<1>10. ASSUME NEW i \in 1..Len(c)
       PROVE  c[i] = w[i]
  <2>1. i \in 1..(lr + n)
    BY <1>7, <1>8
  <2>2. CASE i <= lr
    <3>1. i \in 1..lr
      BY <2>1, <2>2
    <3>2. r[i] = w[i]
      BY <1>1, <1>3, <1>8, <3>1 DEF Faithful
    <3>3. QED
      BY <1>7, <1>8, <2>1, <2>2, <3>2
  <2>3. CASE ~(i <= lr)
    <3>1. i - lr \in 1..n /\ lr + (i - lr) = i
      BY ONLY <1>8, <2>1, <2>3, n \in Nat
    <3>2. c[i] = q[i - lr]
      BY <1>7, <1>8, <2>1, <2>3
    <3>3. q[i - lr] = w[lr + (i - lr)]
      BY <1>6, <1>8, <3>1
    <3>4. QED
      BY <3>1, <3>2, <3>3
  <2>4. QED
    BY <2>2, <2>3
<1>11. PICK s, t, key, from : s = Line(x) /\ t = Line(x)' /\ key = KeyOf(y) /\ from = Start(y)
  OBVIOUS
<1>12. from \in Int /\ from + n \in Int /\ Start(y)' = from + n
  <2>1. PICK e \in Nat, k \in Int : e = enc[y] /\ k = lw - lr
    BY <1>4
  <2>2. from = e - k
    BY <1>3, <1>8, <1>11, <2>1 DEF Start, Unread
  <2>3. Start(y)' = e - (lw - (lr + n))
    BY <1>7, <1>8, <1>9, <2>1 DEF Start, Unread
  <2>4. e - k \in Int /\ e - k + n \in Int /\ e - (lw - (lr + n)) = e - k + n
    BY ONLY <1>8, <2>1, n \in Nat
  <2>5. QED
    BY <2>2, <2>3, <2>4
<1>13. KeyOf(y)' = key
  BY <1>11 DEF KeyOf
<1>14. Carried(t, 0, w, c, key, from + n)
  <2>1. s \in Seq(Token) /\ t \in Seq(Token)
    BY <1>1, <1>11, LinesAreTokens, LinesNextAreTokens
  <2>2. Carried(s, 0, w, r, key, from) /\ Drops(s, n, t)
    BY <1>1, <1>2, <1>3, <1>11 DEF Talk, Ahead
  <2>3. QED
    BY ONLY <1>4, <1>6, <1>7, <1>12, <2>1, <2>2, n \in Nat, CarriedRead
<1>15. Ahead(x, 0)'
  BY <1>2, <1>9, <1>11, <1>12, <1>13, <1>14 DEF Ahead
<1>16. ASSUME cipher[x] = "rc4", cipher[y] # "plain"
       PROVE  Start(y)' = dec'[x]
  <2>1. from = dec[x]
    BY <1>1, <1>2, <1>11, <1>16 DEF Talk, StartIs
  <2>2. dec'[x] = dec[x] + n
    BY <1>1, <1>5, <1>16 DEF Types
  <2>3. QED
    BY <1>12, <2>1, <2>2
<1>17. Talk(x)'
  BY <1>2, <1>15, <1>16 DEF Talk, StartIs
<1>18. QED
  BY <1>2, <1>6, <1>7, <1>9, <1>10, <1>17

\* x has written s, which is e on the line.
Said(x, s, e) ==
    /\ wrote'[x] = wrote[x] \o s /\ read'[x] = read[x] /\ cipher'[x] = cipher[x]
    /\ enc'[x] = IF cipher[x] = "rc4" THEN enc[x] + Len(s) ELSE enc[x]
    /\ Len(e) = Len(s) /\ \A i \in 1..Len(s) : e[i] = Coded(KeyOf(x), enc[x] + i, s[i])

(* How long what is written is then. *)
LEMMA SaidLength ==
    ASSUME Types, Faithful, NEW x \in Ends, NEW s \in Seq(Content), NEW e, Said(x, s, e)
    PROVE  /\ wrote'[x] \in Seq(Content) /\ Len(wrote'[x]) = Len(wrote[x]) + Len(s)
           /\ \A i \in 1..Len(wrote[x]) : wrote'[x][i] = wrote[x][i]
           /\ \A i \in 1..Len(s) : wrote'[x][Len(wrote[x]) + i] = s[i]
           /\ Start(x) \in Int /\ (cipher[x] = "rc4" => Start(x)' = Start(x))
<1>1. PICK w, r, v : w = wrote[x] /\ r = read[x] /\ v = w \o s
  OBVIOUS
<1>2. w \in Seq(Content) /\ r \in Seq(Content) /\ enc[x] \in Nat
  BY <1>1 DEF Types
<1>3. /\ v \in Seq(Content) /\ Len(v) = Len(w) + Len(s)
      /\ \A i \in 1..(Len(w) + Len(s)) : v[i] = IF i <= Len(w) THEN w[i] ELSE s[i - Len(w)]
  <2>1. /\ w \o s \in Seq(Content) /\ Len(w \o s) = Len(w) + Len(s)
        /\ \A i \in 1..(Len(w) + Len(s)) : (w \o s)[i] = IF i <= Len(w) THEN w[i] ELSE s[i - Len(w)]
    BY ONLY <1>2, s \in Seq(Content), ConcatProperties
  <2>2. QED
    BY <1>1, <2>1
<1>4. PICK lw \in Nat, ls \in Nat, lr \in Nat, n \in Nat : lw = Len(w) /\ ls = Len(s) /\ lr = Len(r) /\ n = enc[x]
  BY <1>2
<1>5. wrote'[x] = v /\ read'[x] = r /\ enc'[x] = IF cipher[x] = "rc4" THEN n + ls ELSE n
  BY <1>1, <1>4 DEF Said
<1>6. \A i \in 1..lw : v[i] = w[i]
  <2>1. \A i \in 1..lw : i \in 1..(lw + ls) /\ i <= lw
    BY ONLY <1>4
  <2>2. QED
    BY <1>3, <1>4, <2>1
<1>7. \A i \in 1..ls : v[lw + i] = s[i]
  <2>1. \A i \in 1..ls : lw + i \in 1..(lw + ls) /\ ~(lw + i <= lw) /\ lw + i - lw = i
    BY ONLY <1>4
  <2>2. QED
    BY <1>3, <1>4, <2>1
<1>8. Start(x) = n - (lw - lr)
  BY <1>1, <1>4 DEF Start, Unread
<1>9. n - (lw - lr) \in Int /\ n + ls - (lw + ls - lr) = n - (lw - lr)
  BY ONLY <1>4
<1>10. ASSUME cipher[x] = "rc4"
       PROVE  Start(x)' = Start(x)
  <2>1. Start(x)' = enc'[x] - (Len(wrote'[x]) - Len(read'[x]))
    BY DEF Start, Unread
  <2>2. PICK a \in Nat, b \in Nat : a = n + ls /\ b = lw + ls
    BY <1>4
  <2>3. enc'[x] = a /\ Len(wrote'[x]) = b /\ Len(read'[x]) = lr
    BY <1>3, <1>4, <1>5, <1>10, <2>2
  <2>4. a - (b - lr) = n - (lw - lr)
    BY ONLY <1>9, <2>2
  <2>5. QED
    BY <1>8, <2>1, <2>3, <2>4
<1>11. QED
  BY <1>1, <1>3, <1>4, <1>5, <1>6, <1>7, <1>8, <1>9, <1>10

LEMMA StartSaid ==
    ASSUME Types, Faithful, NEW x \in Ends, NEW s \in Seq(Content), NEW e, Said(x, s, e),
           cipher[x] \in {"plain", "rc4"}, NEW m, StartIs(x, m)
    PROVE  StartIs(x, m)'
<1>1. cipher[x] = "rc4" => Start(x)' = Start(x)
  BY SaidLength
<1>2. QED
  BY <1>1 DEF StartIs, Said

LEMMA AheadSaid ==
    ASSUME Types, Types', Faithful, NEW x \in Ends, NEW s \in Seq(Content), NEW e \in Seq(Token),
           Said(x, s, e), Puts(Line(Other(x)), e, Line(Other(x))'), NEW k \in Nat, Ahead(Other(x), k)
    PROVE  Ahead(Other(x), k)'
<1>1. PICK y \in Ends : y = Other(x) /\ Other(y) = x
  BY TwoEnds
<1>2. PICK w, r, key, from, z, t : /\ w = wrote[x] /\ r = read[x] /\ key = KeyOf(x) /\ from = Start(x)
                                   /\ z = Line(y) /\ t = Line(y)'
  OBVIOUS
<1>3. w \in Seq(Content) /\ r \in Seq(Content) /\ enc[x] \in Nat /\ Len(r) <= Len(w)
  BY <1>2 DEF Types, Faithful
<1>4. z \in Seq(Token) /\ t \in Seq(Token)
  BY <1>1, <1>2, LinesAreTokens, LinesNextAreTokens
<1>5. Carried(z, k, w, r, key, from) /\ Puts(z, e, t)
  BY <1>1, <1>2 DEF Ahead
<1>6. /\ Len(e) = Len(s) /\ \A i \in 1..Len(s) : e[i] = Coded(key, enc[x] + i, s[i])
  BY <1>2 DEF Said
<1>7. from \in Int
  BY <1>2, SaidLength
<1>8. from + (Len(w) - Len(r)) = enc[x]
  <2>1. PICK lw \in Nat, lr \in Nat, n \in Nat : lw = Len(w) /\ lr = Len(r) /\ n = enc[x]
    BY <1>3
  <2>2. from = n - (lw - lr)
    BY <1>2, <2>1 DEF Start, Unread
  <2>3. n - (lw - lr) + (lw - lr) = n
    BY ONLY <2>1
  <2>4. QED
    BY <2>1, <2>2, <2>3
<1>9. Carried(t, k, w \o s, r, key, from)
  BY ONLY <1>3, <1>4, <1>5, <1>6, <1>7, <1>8, s \in Seq(Content), e \in Seq(Token), k \in Nat, CarriedWrite
<1>10. wrote'[x] = w \o s /\ read'[x] = r /\ KeyOf(x)' = key
  BY <1>2 DEF Said, KeyOf
<1>11. CASE cipher[x] = "rc4"
  <2>1. Start(x)' = from
    BY <1>2, <1>11, SaidLength
  <2>2. QED
    BY <1>1, <1>2, <1>9, <1>10, <2>1 DEF Ahead
<1>12. CASE cipher[x] # "rc4"
  <2>1. key = "-"
    BY <1>2, <1>12 DEF KeyOf
  <2>2. PICK from2 : from2 = Start(x)'
    OBVIOUS
  <2>3. Carried(t, k, w \o s, r, "-", from2)
    BY <1>9, <2>1, NoKeyNoPosition
  <2>4. QED
    BY <1>1, <1>2, <1>10, <2>1, <2>2, <2>3 DEF Ahead
<1>13. QED
  BY <1>11, <1>12

(* What is on the line comes before what is put on it. *)
LEMMA MarksStay ==
    ASSUME NEW s \in Seq(Token), NEW e, NEW t, Puts(s, e, t), NEW j \in Nat, j <= Len(s)
    PROVE  \A i \in 1..j : t[i] = s[i]
<1>1. PICK l \in Nat : l = Len(s)
  OBVIOUS
<1>2. \A i \in 1..j : i \in 1..l
  BY <1>1
<1>3. QED
  BY <1>1, <1>2 DEF Puts

(* What a turn does to the lines and to what each end sees. *)
LEMMA TurnLines ==
    ASSUME StreamInv, NEW x \in Ends, NEW n \in Nat, NEW s \in Seq(Content), NEW to, Turn(x, n, s, to)
    PROVE  /\ Types' /\ Drops(Line(x), n, Line(x)')
           /\ \E e \in Seq(Token) : Said(x, s, e) /\ Puts(Line(Other(x)), e, Line(Other(x))')
           /\ pc'[x] = to /\ pc'[Other(x)] = pc[Other(x)] /\ out'[Other(x)] = out[Other(x)]
           /\ wrote'[Other(x)] = wrote[Other(x)] /\ enc'[Other(x)] = enc[Other(x)]
           /\ dec'[Other(x)] = dec[Other(x)]
<1>1. Types /\ Stages
  BY DEF StreamInv, Turn
<1>2. PICK y \in Ends : y = Other(x) /\ y # x
  BY TwoEnds
<1>3. PICK e \in Seq(Token) : /\ out' = [out EXCEPT ![x] = e]
                              /\ Len(e) = Len(s)
                              /\ \A i \in 1..Len(s) : e[i] = Coded(KeyOf(x), enc[x] + i, s[i])
  BY DEF Turn, Says
<1>4. part[x] = << >> /\ part' = part /\ chan' = chan /\ out[x] = << >> /\ n <= Len(buf[x])
      /\ buf' = [buf EXCEPT ![x] = SubSeq(buf[x], n + 1, Len(buf[x]))]
  BY <1>1 DEF Turn, Hears, Stages, Up
<1>5. /\ Drops(Line(x), n, Line(x)') /\ Puts(Line(y), e, Line(y)')
      /\ buf' \in [Ends -> Seq(Token)] /\ out' \in [Ends -> Seq(Token)]
  BY <1>1, <1>2, <1>3, <1>4, StepLines
<1>6. PICK w, r, q : w = wrote[x] /\ r = read[y] /\ q = Contents(x, n)
  OBVIOUS
<1>7. /\ wrote' = [wrote EXCEPT ![x] = w \o s] /\ read' = [read EXCEPT ![y] = r \o q]
      /\ enc' = [enc EXCEPT ![x] = IF cipher[x] = "rc4" THEN enc[x] + Len(s) ELSE enc[x]]
      /\ dec' = [dec EXCEPT ![x] = IF cipher[x] = "rc4" THEN dec[x] + n ELSE dec[x]]
  BY <1>2, <1>6 DEF Turn, Hears, Says
<1>8. w \in Seq(Content) /\ r \in Seq(Content) /\ q \in Seq(Content)
  <2>1. Open /\ pc[x] \in Up
    BY DEF Turn
  <2>2. q \in Seq(Content)
    BY <1>4, <1>6, <2>1, ReadsWritten
  <2>3. QED
    BY <1>1, <1>6, <2>2 DEF Types
<1>9. w \o s \in Seq(Content) /\ r \o q \in Seq(Content)
  BY ONLY <1>8, s \in Seq(Content), ConcatProperties
<1>10. /\ wrote \in [Ends -> Seq(Content)] /\ read \in [Ends -> Seq(Content)] /\ enc \in [Ends -> Nat]
       /\ dec \in [Ends -> Nat] /\ out \in [Ends -> Seq(Token)] /\ DOMAIN pc = Ends
  BY <1>1 DEF Types
<1>11. PICK m \in Nat : m = Len(s)
  OBVIOUS
<1>12. /\ wrote' \in [Ends -> Seq(Content)] /\ wrote'[x] = w \o s /\ wrote'[y] = wrote[y]
       /\ read' \in [Ends -> Seq(Content)] /\ read'[y] = r \o q /\ read'[x] = read[x]
  <2>1. PICK v, c : v = w \o s /\ c = r \o q
    OBVIOUS
  <2>2. v \in Seq(Content) /\ c \in Seq(Content)
    BY <1>9, <2>1
  <2>3. wrote' = [wrote EXCEPT ![x] = v] /\ read' = [read EXCEPT ![y] = c]
    BY <1>7, <2>1
  <2>4. QED
    BY <1>2, <1>10, <2>1, <2>2, <2>3
<1>13. /\ enc' \in [Ends -> Nat] /\ enc'[x] = (IF cipher[x] = "rc4" THEN enc[x] + m ELSE enc[x])
       /\ enc'[y] = enc[y]
       /\ dec' \in [Ends -> Nat] /\ dec'[y] = dec[y]
  <2>1. PICK a \in Nat, b \in Nat : a = enc[x] /\ b = dec[x]
    BY <1>10
  <2>2. a + m \in Nat /\ b + n \in Nat
    OBVIOUS
  <2>3. PICK c \in Nat : c = IF cipher[x] = "rc4" THEN a + m ELSE a
    BY <2>2
  <2>4. PICK d \in Nat : d = IF cipher[x] = "rc4" THEN b + n ELSE b
    BY <2>2
  <2>5. enc' = [enc EXCEPT ![x] = c] /\ dec' = [dec EXCEPT ![x] = d]
    BY <1>7, <1>11, <2>1, <2>3, <2>4
  <2>6. QED
    BY <1>2, <1>10, <2>1, <2>3, <2>5
<1>14. out'[y] = out[y] /\ pc'[x] = to /\ pc'[y] = pc[y] /\ DOMAIN pc' = Ends
  BY <1>2, <1>3, <1>10 DEF Turn
<1>15. UNCHANGED <<mode, offer, lru, chan, part, cipher, hash, pads, me>>
  BY DEF Turn
<1>16. Types'
  <2>1. \A z \in Ends : Len(chan'[z]) <= Capacity /\ Len(part'[z]) <= MaxPad + 1
    BY <1>1, <1>15 DEF Types
  <2>2. /\ me' \in Ends /\ mode' \in {"pe", "plain"} /\ offer' \in 1..3 /\ lru' \subseteq Hashes
        /\ chan' \in [Ends -> Seq(Token)] /\ part' \in [Ends -> Seq(Token)]
        /\ cipher' \in [Ends -> {"none", "plain", "rc4"}] /\ hash' \in [Ends -> Hashes \cup {NoHash}]
        /\ pads' \in [Ends -> {0} \cup Lens]
    BY <1>1, <1>15 DEF Types
  <2>3. QED
    BY ONLY <2>1, <2>2, <1>5, <1>12, <1>13, <1>14 DEF Types
<1>17. Said(x, s, e)
  BY <1>3, <1>6, <1>11, <1>12, <1>13, <1>15 DEF Said
<1>18. QED
  BY <1>2, <1>5, <1>12, <1>13, <1>14, <1>16, <1>17

LEMMA TurnFaithful ==
    ASSUME StreamInv, NEW x \in Ends, NEW n \in Nat, NEW s \in Seq(Content), NEW to, Turn(x, n, s, to)
    PROVE  Faithful' /\ Talk(x)'
<1>1. Types /\ Faithful /\ Open /\ pc[x] \in Up /\ Hears(x, n)
  BY DEF StreamInv, Turn
<1>2. /\ Types' /\ Drops(Line(x), n, Line(x)')
      /\ wrote'[Other(x)] = wrote[Other(x)] /\ enc'[Other(x)] = enc[Other(x)] /\ cipher' = cipher
  BY TurnLines DEF Turn
<1>3. /\ Talk(x)' /\ Len(read'[Other(x)]) <= Len(wrote'[Other(x)])
      /\ \A i \in 1..Len(read'[Other(x)]) : read'[Other(x)][i] = wrote'[Other(x)][i]
  BY <1>1, <1>2, HeardOn
<1>4. PICK e \in Seq(Token) : Said(x, s, e)
  BY TurnLines
<1>5. PICK lw \in Nat, ls \in Nat, lr \in Nat : lw = Len(wrote[x]) /\ ls = Len(s) /\ lr = Len(read[x])
  <2>1. wrote[x] \in Seq(Content) /\ read[x] \in Seq(Content)
    BY <1>1 DEF Types
  <2>2. Len(wrote[x]) \in Nat /\ Len(s) \in Nat /\ Len(read[x]) \in Nat
    BY ONLY <2>1, s \in Seq(Content)
  <2>3. QED
    BY <2>2
<1>6. /\ Len(wrote'[x]) = lw + ls /\ (\A i \in 1..lw : wrote'[x][i] = wrote[x][i]) /\ read'[x] = read[x]
  BY <1>1, <1>4, <1>5, SaidLength DEF Said
<1>7. lr <= lw /\ \A i \in 1..lr : read[x][i] = wrote[x][i]
  BY <1>1, <1>5 DEF Faithful
<1>8. lr <= lw + ls /\ \A i \in 1..lr : i \in 1..lw
  BY ONLY <1>5, <1>7
<1>9. Len(read'[x]) <= Len(wrote'[x]) /\ \A i \in 1..Len(read'[x]) : read'[x][i] = wrote'[x][i]
  BY <1>5, <1>6, <1>7, <1>8
<1>10. QED
  BY <1>3, <1>9, TwoEnds DEF Faithful

LEMMA TurnStages ==
    ASSUME StreamInv, NEW x \in Ends, NEW n \in Nat, NEW s \in Seq(Content), NEW to, Turn(x, n, s, to),
           to \in Up \ {"up"}
    PROVE  Stages'
<1>1. Types /\ Stages /\ pc[x] \in Up
  BY DEF StreamInv, Turn
<1>2. UNCHANGED <<mode, offer, lru, chan, part, cipher, hash, pads, me>>
  BY DEF Turn
<1>3. PICK y \in Ends : y = Other(x) /\ x = Other(y) /\ y # x
  BY TwoEnds
<1>4. /\ pc'[x] = to /\ pc'[y] = pc[y] /\ out'[y] = out[y] /\ wrote'[y] = wrote[y] /\ dec'[y] = dec[y]
  BY <1>3, TurnLines
<1>5. read'[x] = read[x]
  <2>1. PICK e \in Seq(Token) : Said(x, s, e)
    BY TurnLines
  <2>2. QED
    BY <2>1 DEF Said
<1>6. to \notin Shaking \cup {"up"} /\ to \in Up /\ to # "sync" /\ pc[x] # "sync"
  BY <1>1 DEF Up, Shaking
<1>7. \A z \in Ends : /\ pc'[z] \in Shaking \cup {"up"} => wrote'[z] = << >>
                      /\ pc'[z] \in Shaking => read'[Other(z)] = << >>
                      /\ pc'[z] # "sync" => part'[z] = << >>
                      /\ pc'[z] = "up" => out'[z] = << >>
  <2>1. part[x] = << >>
    BY <1>1, <1>6 DEF Stages
  <2>2. /\ pc[y] \in Shaking \cup {"up"} => wrote[y] = << >>
        /\ pc[y] \in Shaking => read[x] = << >>
        /\ pc[y] # "sync" => part[y] = << >>
        /\ pc[y] = "up" => out[y] = << >>
    BY <1>1, <1>3 DEF Stages
  <2>3. \A z \in Ends : z = x \/ z = y
    BY <1>3, TwoEnds
  <2>4. QED
    BY <1>2, <1>3, <1>4, <1>5, <1>6, <2>1, <2>2, <2>3
<1>8. /\ pc["client"] \in Up <=> pc'["client"] \in Up
      /\ pc["server"] \in Up <=> pc'["server"] \in Up
      /\ pc["client"] \notin Up => pc'["client"] = pc["client"]
      /\ pc["server"] \notin Up => pc'["server"] = pc["server"]
  <2>1. \A z \in Ends : (pc[z] \in Up <=> pc'[z] \in Up) /\ (pc[z] \notin Up => pc'[z] = pc[z])
    BY <1>1, <1>3, <1>4, <1>6, TwoEnds
  <2>2. QED
    BY <2>1, EndNames
<1>9. <<pc'["client"], pc'["server"]>> \in Pairs'
  <2>1. <<pc["client"], pc["server"]>> \in Pairs
    BY <1>1 DEF Stages
  <2>2. CASE mode = "plain"
    <3>1. pc["client"] \in Up \/ pc["server"] \in Up
      BY <1>1, EndNames
    <3>2. pc["client"] \in Up /\ pc["server"] \in {"first"} \cup Up
      BY <2>1, <2>2, <3>1 DEF Pairs, Up
    <3>3. pc'["client"] \in Up /\ pc'["server"] \in {"first"} \cup Up
      BY <1>8, <3>2
    <3>4. QED
      BY <1>2, <2>2, <3>3 DEF Pairs
  <2>3. CASE mode = "pe"
    <3>1. pc["client"] \in Up \/ pc["server"] \in Up
      BY <1>1, EndNames
    <3>2. pc["server"] \in Answered
      BY <2>1, <2>3, <3>1 DEF Pairs, Answered, Up
    <3>3. pc'["server"] \in Answered
      BY <1>8, <3>2 DEF Answered
    <3>4. pc["client"] \in {"sync", "header", "pad"} \cup Up
      BY <2>1, <2>3, <3>2 DEF Pairs, Answered, Up
    <3>5. pc'["client"] \in {"sync", "header", "pad"} \cup Up
      BY <1>8, <3>4
    <3>6. QED
      BY <1>2, <2>3, <3>3, <3>5 DEF Pairs
  <2>4. QED
    BY <1>1, <2>2, <2>3 DEF Types
<1>10. /\ pc["client"] \in {"pad"} \cup Up <=> pc'["client"] \in {"pad"} \cup Up
       /\ pc["server"] \in Answered <=> pc'["server"] \in Answered
       /\ pc["client"] = "start" <=> pc'["client"] = "start"
       /\ pc["server"] \in {"client header"} \cup Answered <=> pc'["server"] \in {"client header"} \cup Answered
  <2>1. "start" \notin Up /\ "client header" \notin Up
    BY DEF Up
  <2>2. QED
    BY <1>8, <2>1 DEF Answered
<1>11. pc'["server"] \in Early => dec'["server"] = 0
  <2>1. \A z \in Up : z \notin Early
    BY DEF Up, Early
  <2>2. CASE pc'["server"] \in Early
    <3>1. pc'["server"] \notin Up /\ pc["server"] = pc'["server"]
      BY <1>8, <2>1, <2>2
    <3>2. x # "server" /\ y = "server"
      BY <1>1, <1>3, <1>8, <3>1, EndNames
    <3>3. QED
      BY <1>1, <1>4, <2>2, <3>1, <3>2 DEF Stages
  <2>3. QED
    BY <2>2
<1>12. QED
  BY <1>1, <1>2, <1>7, <1>9, <1>10, <1>11 DEF Stages

(* What is ahead is on the line. *)
LEMMA AheadLong ==
    ASSUME Types, Faithful, NEW x \in Ends, NEW k \in Nat, Ahead(x, k)
    PROVE  k <= Len(Line(x))
<1>1. Other(x) \in Ends
  BY TwoEnds
<1>2. PICK w, r, s : w = wrote[Other(x)] /\ r = read[Other(x)] /\ s = Line(x)
  OBVIOUS
<1>3. w \in Seq(Content) /\ r \in Seq(Content)
  BY <1>1, <1>2 DEF Types
<1>4. PICK lw \in Nat, lr \in Nat : lw = Len(w) /\ lr = Len(r)
  BY ONLY <1>3
<1>5. lr <= lw
  BY <1>1, <1>2, <1>4 DEF Faithful
<1>6. Len(s) = k + (lw - lr)
  BY <1>2, <1>4 DEF Ahead, Carried
<1>7. k <= k + (lw - lr)
  BY ONLY <1>4, <1>5, k \in Nat
<1>8. QED
  BY <1>2, <1>6, <1>7

(* The marks are where they were. *)
LEMMA SamePlaces ==
    ASSUME NEW s, NEW t, NEW k \in Nat, NEW n, offer' = offer,
           \A i \in 1..(k + 2) : t[i] = s[i]
    PROVE  /\ Padding(s, 0, k, VcB) => Padding(t, 0, k, VcB)
           /\ MarkAt(s, k, VcB) => MarkAt(t, k, VcB)
           /\ ReplyAt(s, k, n) => (ReplyAt(t, k, n))'
<1>1. \A i \in 1..k : i \in 1..(k + 2) /\ 0 + i = i
  OBVIOUS
<1>2. k + 1 \in 1..(k + 2) /\ k + 2 \in 1..(k + 2)
  OBVIOUS
<1>3. t[k + 1] = s[k + 1] /\ t[k + 2] = s[k + 2]
  BY <1>2
<1>4. Padding(s, 0, k, VcB) => Padding(t, 0, k, VcB)
  BY <1>1 DEF Padding
<1>5. QED
  BY <1>3, <1>4 DEF MarkAt, ReplyAt

(* A turn of the client: what is on its way to the server. *)
LEMMA TurnToServer ==
    ASSUME StreamInv, NEW x \in Ends, NEW n \in Nat, NEW s \in Seq(Content), NEW to, Turn(x, n, s, to),
           to \in Up \ {"up"}
    PROVE  ToServer'
<1>1. Types /\ Faithful /\ Stages /\ ToServer /\ Open /\ pc[x] \in Up
  BY DEF StreamInv, Turn
<1>2. UNCHANGED <<mode, offer, lru, chan, part, cipher, hash, pads>>
  BY DEF Turn
<1>3. PICK y \in Ends : y = Other(x) /\ x = Other(y) /\ y # x
  BY TwoEnds
<1>4. /\ Types' /\ pc'[x] = to /\ pc'[y] = pc[y] /\ dec'[y] = dec[y]
  BY <1>3, TurnLines
<1>5. CASE pc["server"] \in Up
  <2>1. pc'["server"] \in Up
    BY <1>3, <1>4, <1>5, EndNames
  <2>2. QED
    BY <2>1 DEF Up, ToServer, KeyComes, RestOfKeyComes, MarkComes, HashComes, HeaderComes, PadComes
<1>6. CASE pc["server"] \notin Up
  <2>1. x = "client" /\ y = "server"
    BY <1>1, <1>3, <1>6, EndNames
  <2>2. <<pc["client"], pc["server"]>> \in Pairs
    BY <1>1 DEF Stages
  <2>3. pc["server"] \in {"first", "pad, IA"} /\ (pc["server"] = "pad, IA" => mode = "pe")
    BY <1>1, <1>6, <2>1, <2>2 DEF Pairs, Up, Answered, Types
  <2>4. PICK e \in Seq(Token) : Said("client", s, e) /\ Puts(Line("server"), e, Line("server")')
    BY <1>3, <2>1, TurnLines
  <2>5. \A k \in Nat : Ahead("server", k) => Ahead("server", k)'
    BY <1>1, <1>4, <2>4, EndNames, AheadSaid
  <2>6. pc'["client"] = to /\ pc'["server"] = pc["server"] /\ dec'["server"] = dec["server"]
    BY <1>4, <2>1
  <2>7. CASE pc["server"] = "first"
    <3>1. pc["client"] \notin {"start", "server key"}
      BY <1>1, <2>1 DEF Up
    <3>2. /\ Ahead("server", 0) /\ (wrote["client"] # << >> => wrote["client"][1] = HandshakeTag)
          /\ (pc["client"] # "up" => wrote["client"] # << >>)
      BY <1>1, <2>7, <3>1 DEF ToServer, KeyComes
    <3>3. PICK j \in Nat : j = 0
      OBVIOUS
    <3>4. Ahead("server", 0)'
      BY <2>5, <3>2, <3>3
    <3>5. wrote'["client"] # << >> /\ wrote'["client"][1] = HandshakeTag
      <4>1. PICK w, v : w = wrote["client"] /\ v = wrote'["client"]
        OBVIOUS
      <4>2. /\ v \in Seq(Content) /\ Len(v) = Len(w) + Len(s)
            /\ (\A i \in 1..Len(w) : v[i] = w[i]) /\ \A i \in 1..Len(s) : v[Len(w) + i] = s[i]
        BY <1>1, <2>4, <4>1, EndNames, SaidLength
      <4>3. w \in Seq(Content)
        BY <1>1, <4>1, EndNames DEF Types
      <4>4. PICK lw \in Nat, ls \in Nat : lw = Len(w) /\ ls = Len(s)
        BY ONLY <4>3, s \in Seq(Content)
      <4>5. CASE w # << >>
        <5>1. lw # 0
          BY ONLY <4>3, <4>4, <4>5, EmptySeq
        <5>2. 1 \in 1..lw /\ lw + ls # 0
          BY ONLY <4>4, <5>1
        <5>3. v[1] = HandshakeTag
          BY <3>2, <4>1, <4>2, <4>4, <4>5, <5>2
        <5>4. v # << >>
          BY ONLY <4>2, <4>4, <5>2, EmptySeq
        <5>5. QED
          BY <4>1, <5>3, <5>4
      <4>6. CASE w = << >>
        <5>1. pc["client"] = "up"
          BY <3>2, <4>1, <4>6
        <5>2. s # << >> /\ s[1] = HandshakeTag
          BY <2>1, <5>1 DEF Turn
        <5>3. ls # 0
          BY ONLY <4>4, <5>2, s \in Seq(Content), EmptySeq
        <5>4. lw = 0
          BY ONLY <4>4, <4>6, EmptySeq
        <5>5. 1 \in 1..ls /\ lw + ls # 0 /\ lw + 1 = 1
          BY ONLY <4>4, <5>3, <5>4
        <5>6. v[1] = s[1]
          BY ONLY <4>2, <4>4, <5>5
        <5>7. v # << >>
          BY ONLY <4>2, <4>4, <5>5, EmptySeq
        <5>8. QED
          BY <4>1, <5>2, <5>6, <5>7
      <4>7. QED
        BY <4>5, <4>6
    <3>6. to \notin {"start", "server key"}
      BY DEF Up
    <3>7. pc'["server"] = "first"
      BY <2>6, <2>7
    <3>8. KeyComes'
      BY <2>6, <3>4, <3>5, <3>6 DEF KeyComes
    <3>9. QED
      BY <3>7, <3>8 DEF ToServer, RestOfKeyComes, MarkComes, HashComes, HeaderComes, PadComes
  <2>8. CASE pc["server"] = "pad, IA"
    <3>1. /\ Ahead("server", pads["server"] + 1) /\ pads["server"] \in Lens /\ dec["server"] = 4
          /\ StartIs("client", pads["server"] + 5)
      BY <1>1, <2>8 DEF ToServer, PadComes
    <3>2. PICK k \in Nat, p \in Lens : p = pads["server"] /\ k = p + 1 /\ pads'["server"] = p
      <4>1. pads["server"] \in Nat /\ pads["server"] + 1 \in Nat
        BY <3>1, LensAreNat
      <4>2. QED
        BY <1>2, <3>1, <4>1
    <3>3. Ahead("server", k)'
      BY <2>5, <3>1, <3>2
    <3>4. cipher["client"] \in {"plain", "rc4"}
      <4>1. cipher["client"] = CipherOf(offer) /\ offer \in 1..3
        BY <1>1, <2>1, <2>3, <2>8 DEF Stages, Types
      <4>2. QED
        BY <4>1, SelectedIsOffered
    <3>5. StartIs("client", p + 5)'
      BY <1>1, <2>4, <3>1, <3>2, <3>4, EndNames, StartSaid
    <3>6. PadComes'
      <4>1. Ahead("server", pads["server"] + 1)'
        BY <3>2, <3>3 DEF Ahead
      <4>2. StartIs("client", pads["server"] + 5)'
        BY <3>2, <3>5 DEF StartIs
      <4>3. QED
        BY <2>6, <3>1, <3>2, <4>1, <4>2 DEF PadComes
    <3>7. pc'["server"] = "pad, IA"
      BY <2>6, <2>8
    <3>8. QED
      BY <3>6, <3>7 DEF ToServer, KeyComes, RestOfKeyComes, MarkComes, HashComes, HeaderComes
  <2>9. QED
    BY <2>3, <2>7, <2>8
<1>7. QED
  BY <1>5, <1>6

(* A turn of the server: what is on its way to the client. *)
LEMMA TurnToClient ==
    ASSUME StreamInv, NEW x \in Ends, NEW n \in Nat, NEW s \in Seq(Content), NEW to, Turn(x, n, s, to),
           to \in Up \ {"up"}
    PROVE  ToClient'
<1>1. Types /\ Faithful /\ Stages /\ ToClient /\ Open /\ pc[x] \in Up
  BY DEF StreamInv, Turn
<1>2. UNCHANGED <<mode, offer, lru, chan, part, cipher, hash, pads>>
  BY DEF Turn
<1>3. PICK y \in Ends : y = Other(x) /\ x = Other(y) /\ y # x
  BY TwoEnds
<1>4. /\ Types' /\ pc'[x] = to /\ pc'[y] = pc[y] /\ dec'[y] = dec[y]
  BY <1>3, TurnLines
<1>5. CASE pc["client"] \in Up
  <2>1. pc'["client"] \in Up
    BY <1>3, <1>4, <1>5, EndNames
  <2>2. QED
    BY <2>1 DEF Up, ToClient, AnswerComes, VcComes, ChoiceComes, LastPadComes
<1>6. CASE pc["client"] \notin Up
  <2>1. x = "server" /\ y = "client"
    BY <1>1, <1>3, <1>6, EndNames
  <2>2. <<pc["client"], pc["server"]>> \in Pairs
    BY <1>1 DEF Stages
  <2>3. pc["client"] \in {"sync", "header", "pad"} /\ mode = "pe" /\ pc["server"] \in Up
    BY <1>1, <1>6, <2>1, <2>2 DEF Pairs, Up, Answered, Types
  <2>4. PICK e \in Seq(Token) : Said("server", s, e) /\ Puts(Line("client"), e, Line("client")')
    BY <1>3, <2>1, TurnLines
  <2>5. \A k \in Nat : Ahead("client", k) => Ahead("client", k)'
    BY <1>1, <1>4, <2>4, EndNames, AheadSaid
  <2>6. pc'["server"] = to /\ pc'["client"] = pc["client"] /\ dec'["client"] = dec["client"]
    BY <1>4, <2>1
  <2>7. cipher["server"] \in {"plain", "rc4"}
    <3>1. cipher["server"] = CipherOf(offer) /\ offer \in 1..3
      BY <1>1, <2>3 DEF Stages, Types, Answered
    <3>2. QED
      BY <3>1, SelectedIsOffered
  <2>8. \A m : StartIs("server", m) => StartIs("server", m)'
    BY <1>1, <2>4, <2>7, EndNames, StartSaid
  <2>9. \A j \in Nat : j <= Len(Line("client")) =>
            \A i \in 1..j : Line("client")'[i] = Line("client")[i]
    <3>1. PICK l, m : l = Line("client") /\ m = Line("client")'
      OBVIOUS
    <3>2. l \in Seq(Token) /\ Puts(l, e, m)
      BY <1>1, <2>4, <3>1, EndNames, LinesAreTokens
    <3>3. \A j \in Nat : j <= Len(l) => \A i \in 1..j : m[i] = l[i]
      BY ONLY <3>2, MarksStay
    <3>4. QED
      BY <3>1, <3>3
  <2>10. \A j \in Nat : Ahead("client", j) => \A i \in 1..j : Line("client")'[i] = Line("client")[i]
    BY <1>1, <2>9, EndNames, AheadLong
  <2>11. to \in Answered /\ to # "sync"
    BY DEF Up, Answered
  <2>12. CASE pc["client"] = "sync"
    <3>1. pc["server"] \in Answered
      BY <2>3 DEF Answered
    <3>2. PICK k \in Pads, p \in Lens :
              /\ Padding(Line("client"), 0, k, VcB) /\ Ahead("client", k + 2 + p + 2)
              /\ MarkAt(Line("client"), k, VcB) /\ ReplyAt(Line("client"), k + 2, p)
              /\ StartIs("server", p + 4) /\ Len(part["client"]) <= k + 1
      BY <1>1, <2>12, <3>1 DEF ToClient, VcComes
    <3>3. k \in Nat /\ p \in Nat
      BY PadsAreNat, LensAreNat
    <3>4. PICK j \in Nat, h \in Nat : h = k + 2 /\ j = k + 2 + p + 2
      BY ONLY <3>3
    <3>5. (\A i \in 1..(k + 2) : i \in 1..j) /\ \A i \in 1..(h + 2) : i \in 1..j
      BY ONLY <3>3, <3>4
    <3>6. \A i \in 1..j : Line("client")'[i] = Line("client")[i]
      BY <2>10, <3>2, <3>4
    <3>7. PICK l, m : l = Line("client") /\ m = Line("client")'
      OBVIOUS
    <3>8. offer' = offer
      BY <1>2
    <3>9. Padding(m, 0, k, VcB) /\ MarkAt(m, k, VcB)
      <4>1. \A i \in 1..(k + 2) : m[i] = l[i]
        BY <3>5, <3>6, <3>7
      <4>2. Padding(l, 0, k, VcB) /\ MarkAt(l, k, VcB)
        BY <3>2, <3>7
      <4>3. QED
        BY ONLY <3>3, <3>8, <4>1, <4>2, SamePlaces
    <3>10. (ReplyAt(m, h, p))'
      <4>1. \A i \in 1..(h + 2) : m[i] = l[i]
        BY <3>5, <3>6, <3>7
      <4>2. ReplyAt(l, h, p)
        BY <3>2, <3>4, <3>7
      <4>3. h + 1 \in 1..(h + 2) /\ h + 2 \in 1..(h + 2)
        BY ONLY <3>4
      <4>4. m[h + 1] = l[h + 1] /\ m[h + 2] = l[h + 2]
        BY ONLY <4>1, <4>3
      <4>5. QED
        BY <3>8, <4>2, <4>4 DEF ReplyAt
    <3>11. Ahead("client", k + 2 + p + 2)' /\ StartIs("server", p + 4)'
      BY <2>5, <2>8, <3>2, <3>4
    <3>12. Padding(Line("client"), 0, k, VcB)' /\ MarkAt(Line("client"), k, VcB)'
      BY <3>7, <3>9 DEF Padding, MarkAt, VcB, Encrypt, Vc, Tag
    <3>13. ReplyAt(Line("client"), k + 2, p)'
      BY <3>4, <3>7, <3>10 DEF ReplyAt
    <3>14. Len(part'["client"]) <= k + 1
      BY <1>2, <3>2
    <3>15. VcComes'
      BY <2>6, <2>11, <3>11, <3>12, <3>13, <3>14 DEF VcComes
    <3>16. pc'["client"] = "sync"
      BY <2>6, <2>12
    <3>17. QED
      BY <3>15, <3>16 DEF ToClient, AnswerComes, ChoiceComes, LastPadComes
  <2>13. CASE pc["client"] = "header"
    <3>1. PICK p \in Lens : /\ Ahead("client", p + 2) /\ ReplyAt(Line("client"), 0, p)
                            /\ StartIs("server", p + 4) /\ dec["client"] = 2
      BY <1>1, <2>13 DEF ToClient, ChoiceComes
    <3>2. p \in Nat
      BY LensAreNat
    <3>3. PICK j \in Nat : j = p + 2
      BY ONLY <3>2
    <3>4. 1 \in 1..j /\ 2 \in 1..j
      BY ONLY <3>2, <3>3
    <3>5. Line("client")'[1] = Line("client")[1] /\ Line("client")'[2] = Line("client")[2]
      BY <2>10, <3>1, <3>3, <3>4
    <3>6. 0 + 1 = 1 /\ 0 + 2 = 2
      OBVIOUS
    <3>7. ReplyAt(Line("client"), 0, p)'
      BY <1>2, <3>1, <3>5, <3>6 DEF ReplyAt
    <3>8. Ahead("client", p + 2)' /\ StartIs("server", p + 4)'
      BY <2>5, <2>8, <3>1, <3>3
    <3>9. ChoiceComes'
      BY <2>6, <3>1, <3>7, <3>8 DEF ChoiceComes
    <3>10. pc'["client"] = "header"
      BY <2>6, <2>13
    <3>11. QED
      BY <3>9, <3>10 DEF ToClient, AnswerComes, VcComes, LastPadComes
  <2>14. CASE pc["client"] = "pad"
    <3>1. /\ Ahead("client", pads["client"]) /\ pads["client"] \in Lens /\ dec["client"] = 4
          /\ StartIs("server", pads["client"] + 4)
      BY <1>1, <2>14 DEF ToClient, LastPadComes
    <3>2. PICK p \in Lens : p = pads["client"] /\ pads'["client"] = p /\ p \in Nat
      BY <1>2, <3>1, LensAreNat
    <3>3. Ahead("client", p)' /\ StartIs("server", p + 4)'
      BY <2>5, <2>8, <3>1, <3>2
    <3>4. Ahead("client", pads["client"])'
      BY <3>2, <3>3 DEF Ahead
    <3>5. StartIs("server", pads["client"] + 4)'
      BY <3>2, <3>3 DEF StartIs
    <3>6. LastPadComes'
      BY <2>6, <3>1, <3>2, <3>4, <3>5 DEF LastPadComes
    <3>7. pc'["client"] = "pad"
      BY <2>6, <2>14
    <3>8. QED
      BY <3>6, <3>7 DEF ToClient, AnswerComes, VcComes, ChoiceComes
  <2>15. QED
    BY <2>3, <2>12, <2>13, <2>14
<1>7. QED
  BY <1>5, <1>6

(* A turn of either end. *)
LEMMA TurnStep ==
    ASSUME StreamInv, NEW x \in Ends, NEW n \in Nat, NEW s \in Seq(Content), NEW to, Turn(x, n, s, to)
    PROVE  StreamInv'
<1>1. Types /\ NeverRefused /\ Stages /\ Talks /\ Open /\ pc[x] \in Up /\ lru' = lru
  BY DEF StreamInv, Turn
<1>2. Faithful' /\ Talk(x)'
  BY TurnFaithful
<1>3. PICK y \in Ends : y = Other(x) /\ x = Other(y) /\ y # x
  BY TwoEnds
<1>4. /\ Types' /\ pc'[x] = to /\ pc'[y] = pc[y] /\ dec'[y] = dec[y] /\ cipher' = cipher
  <2>1. cipher' = cipher
    BY DEF Turn
  <2>2. QED
    BY <1>3, <2>1, TurnLines
<1>5. \A z \in Ends : z = x \/ z = y
  BY <1>3, TwoEnds
<1>6. to # "refused" /\ to \in (Up \ {"up"}) \cup Ended
  BY DEF Turn, Up, Ended
<1>7. NeverRefused'
  BY <1>1, <1>4, <1>5, <1>6 DEF NeverRefused
<1>8. CASE to \in Ended
  <2>1. Gone(x)'
    BY <1>4, <1>8 DEF Gone, Ended
  <2>2. ~Open'
    BY <2>1, NobodyOpen
  <2>3. QED
    BY <1>2, <1>4, <1>7, <2>2 DEF StreamInv
<1>9. CASE to \in Up \ {"up"}
  <2>1. Stages' /\ ToServer' /\ ToClient'
    BY <1>9, TurnStages, TurnToServer, TurnToClient
  <2>2. ASSUME pc'[y] \in Up
        PROVE  Talk(y)'
    <3>1. PICK e \in Seq(Token) : Said(x, s, e) /\ Puts(Line(y), e, Line(y)')
      BY <1>3, TurnLines
    <3>2. Talk(y) /\ pc[y] \in Up
      BY <1>1, <1>4, <2>2 DEF Talks
    <3>3. PICK k \in Nat : k = 0
      OBVIOUS
    <3>4. Ahead(y, k)
      BY <3>2, <3>3 DEF Talk
    <3>5. Types /\ Faithful
      BY DEF StreamInv
    <3>6. Ahead(Other(x), k)'
      BY <1>3, <1>4, <3>1, <3>4, <3>5, AheadSaid
    <3>7. Ahead(y, 0)'
      BY <1>3, <3>3, <3>6 DEF Ahead
    <3>8. cipher[x] = cipher[y]
      <4>1. pc["client"] \in Up /\ pc["server"] \in Up
        BY <1>1, <1>5, <3>2, EndNames
      <4>2. cipher["client"] = cipher["server"]
        BY <1>1, <4>1 DEF Stages, Answered
      <4>3. QED
        BY <4>2, EndNames
    <3>9. ASSUME cipher'[y] = "rc4"
          PROVE  StartIs(x, dec[y])'
      <4>1. cipher[x] = "rc4" /\ StartIs(x, dec[y])
        BY <1>3, <1>4, <3>2, <3>8, <3>9 DEF Talk
      <4>2. PICK m : m = dec[y]
        OBVIOUS
      <4>3. StartIs(x, m)'
        BY <3>1, <3>5, <4>1, <4>2, StartSaid
      <4>4. QED
        BY <1>4, <4>2, <4>3 DEF StartIs
    <3>10. QED
      BY <1>3, <1>4, <3>7, <3>9 DEF Talk, StartIs
  <2>3. Talks'
    BY <1>2, <1>5, <2>2 DEF Talks
  <2>4. QED
    BY <1>2, <1>4, <1>7, <2>1, <2>3 DEF StreamInv
<1>10. QED
  BY <1>6, <1>8, <1>9

-----------------------------------------------------------------------------
(* The downloader *)

\* What the peer has said: a handshake, then messages.
PeerSpoke ==
    /\ wrote[peer] # << >> => /\ Len(wrote[peer]) >= 2
                              /\ wrote[peer][1] = HandshakeTag /\ wrote[peer][2] \in Hashes \X BOOLEAN
                              /\ \A i \in 3..Len(wrote[peer]) : wrote[peer][i] \in Messages
    /\ pc[peer] = "peer" => wrote[peer] # << >>

\* How far this end has come: what it has read and written.
Hello == IF me = "client" THEN HandshakeOf(Wanted, TRUE) ELSE << >>
Progress ==
    /\ pc[me] \in Shaking \cup {"up"} => wrote[me] = << >>
    /\ pc[me] \in Shaking \cup {"up", "shake"} => read[peer] = << >> /\ phase = "ext"
    /\ pc[me] = "shake" => wrote[me] = Hello
    /\ pc[me] = "message" =>
        /\ Len(read[peer]) >= 2
        /\ phase = "ext" => wrote[me] = Greeting
        /\ phase = "pieces" => wrote[me] = Greeting \o Requests(Len(torrent) + 1) /\ Len(torrent) < total
    /\ phase \in {"ext", "pieces"}
    /\ phase = "ext" => total = 0 /\ torrent = << >>

\* The pieces came from the peer, in order.
Collected ==
    /\ torrent \in Seq(Hashes \X Nat)
    /\ \A i \in 1..Len(torrent) :
           /\ torrent[i][2] = i - 1
           /\ \E j \in 1..Len(read[peer]) : read[peer][j] = Data(i - 1, torrent[i][1])

Bounds == total \in 0..Pieces /\ Len(torrent) <= total /\ target \in Hashes /\ sent \in 0..MaxSent

AppInv == PeerSpoke /\ Progress /\ Collected /\ Bounds /\ Downloaded

WireIInv == StreamInv /\ AppInv

LEMMA Greetings ==
    /\ Hello \in Seq(Content) /\ \A n \in Nat : <<ExtHandshake(n)>> \in Seq(Content) /\ <<Request(n)>> \in Seq(Content)
    /\ me = "client" => Hello # << >> /\ Hello[1] = HandshakeTag
    /\ me # "client" => Hello = << >>
    /\ Messages \subseteq Content
<1>1. HandshakeTag \in Content /\ <<Wanted, TRUE>> \in Content
  BY PeStreamAssumption DEF HandshakeTag, Tag, Name, Content
<1>2. HandshakeOf(Wanted, TRUE) \in Seq(Content) /\ HandshakeOf(Wanted, TRUE)[1] = HandshakeTag
      /\ HandshakeOf(Wanted, TRUE) # << >>
  BY <1>1 DEF HandshakeOf
<1>3. << >> \in Seq(Content)
  BY EmptySeq
<1>4. ASSUME NEW n \in Nat
      PROVE  <<ExtHandshake(n)>> \in Seq(Content) /\ <<Request(n)>> \in Seq(Content)
  <2>1. ExtHandshake(n) \in Content /\ Request(n) \in Content
    BY DEF ExtHandshake, Request, Name, Content
  <2>2. QED
    BY <2>1
<1>5. Messages \subseteq Content
  <2>1. ASSUME NEW m \in Messages
        PROVE  m \in Content
    <3>1. CASE \E i \in 0..Pieces - 1, h \in Hashes : m = Data(i, h)
      <4>1. PICK i \in 0..Pieces - 1, h \in Hashes : m = Data(i, h)
        BY <3>1
      <4>2. i \in Nat
        BY PeerWireAssumption
      <4>3. QED
        BY <4>1, <4>2 DEF Data, Content, Name
    <3>2. CASE \E n \in 0..Pieces : m = ExtHandshake(n)
      <4>1. PICK n \in 0..Pieces : m = ExtHandshake(n)
        BY <3>2
      <4>2. n \in Nat
        BY PeerWireAssumption
      <4>3. QED
        BY <4>1, <4>2, NumberIsContent DEF ExtHandshake, Name
    <3>3. CASE m \in {<<"keep-alive", 0>>, <<"other", 0>>, <<"todo", 0>>, <<"invalid", 0>>}
      <4>1. 0 \in Nat /\ {"keep-alive", "other", "todo", "invalid"} \subseteq Name
        BY DEF Name
      <4>2. QED
        BY <3>3, <4>1, NumberIsContent
    <3>4. QED
      BY <2>1, <3>1, <3>2, <3>3 DEF Messages
  <2>2. QED
    BY <2>1
<1>6. QED
  BY <1>2, <1>3, <1>4, <1>5 DEF Hello

(* Who takes from the buffer and writes has a turn. *)
LEMMA TakesTurn ==
    ASSUME Types, NEW x \in Ends, NEW n \in Nat, NEW s \in Seq(Content), NEW from \in Up, NEW to,
           Take(x, from, n, to), n <= Len(buf[x]), Hears(x, n), Says(x, s),
           to \in (Up \ {"up"}) \cup Ended,
           from = "up" /\ x = "client" => s # << >> /\ s[1] = HandshakeTag,
           UNCHANGED <<mode, offer, lru, chan, part, cipher, hash, pads, me>>
    PROVE  Turn(x, n, s, to)
<1>1. pc' = [pc EXCEPT ![x] = to] /\ DOMAIN pc = Ends /\ Other(x) \in Ends /\ Other(x) # x
  BY TwoEnds DEF Take, Types
<1>2. pc'[x] = to /\ pc'[Other(x)] = pc[Other(x)] /\ DOMAIN pc' = Ends
  BY <1>1
<1>3. Open /\ pc[x] = from /\ out[x] = << >>
  BY DEF Take, Writing
<1>4. QED
  BY <1>2, <1>3 DEF Turn

\* What a turn adds to what has been written and read.
Told(x, n, s, to) ==
    /\ wrote'[x] = wrote[x] \o s /\ wrote'[Other(x)] = wrote[Other(x)] /\ read'[x] = read[x]
    /\ read'[Other(x)] = read[Other(x)] \o Contents(x, n)
    /\ pc'[x] = to /\ pc'[Other(x)] = pc[Other(x)] /\ me' = me

LEMMA TurnTold ==
    ASSUME StreamInv, NEW x \in Ends, NEW n \in Nat, NEW s \in Seq(Content), NEW to, Turn(x, n, s, to)
    PROVE  Told(x, n, s, to)
<1>1. PICK y \in Ends : y = Other(x) /\ y # x
  BY TwoEnds
<1>2. /\ wrote' = [wrote EXCEPT ![x] = wrote[x] \o s] /\ read' = [read EXCEPT ![y] = read[y] \o Contents(x, n)]
      /\ pc'[x] = to /\ pc'[y] = pc[y] /\ me' = me
  BY <1>1 DEF Turn, Hears, Says
<1>3. DOMAIN wrote = Ends /\ DOMAIN read = Ends
  BY DEF StreamInv, Types
<1>4. QED
  BY <1>1, <1>2, <1>3 DEF Told

LEMMA PeerIsOther ==
    ASSUME Types
    PROVE  me \in Ends /\ peer \in Ends /\ peer = Other(me) /\ Other(peer) = me /\ peer # me
BY TwoEnds DEF Types, peer

(* Whoever needs no more than n tokens has them. *)
LEMMA HandshakeTurn ==
    ASSUME StreamInv, Handshake
    PROVE  \E s \in Seq(Content) : s = Hello /\ Turn(me, 0, s, "shake")
<1>1. Types /\ me \in Ends
  BY DEF StreamInv, Types
<1>2. PICK s \in Seq(Content) : s = Hello
  BY Greetings
<1>3. UNCHANGED <<mode, offer, lru, chan, part, cipher, hash, pads, me>> /\ dec' = dec /\ read' = read
  BY DEF Handshake, Untouched
<1>4. Take(me, "up", 0, "shake")
  BY DEF Handshake
<1>5. Says(me, s)
  <2>1. CASE me = "client"
    <3>1. Write(me, s)
      BY <1>2, <2>1 DEF Handshake, Hello
    <3>2. QED
      BY <1>1, <3>1, SaysWritten
  <2>2. CASE me # "client"
    <3>1. Silent /\ s = << >>
      BY <1>2, <2>2 DEF Handshake, Hello
    <3>2. out[me] = << >>
      BY <1>4 DEF Take, Writing
    <3>3. Says(me, << >>)
      BY <1>1, <3>1, <3>2, SaysNothing
    <3>4. QED
      BY <3>1, <3>3
  <2>3. QED
    BY <2>1, <2>2
<1>6. buf' = [buf EXCEPT ![me] = SubSeq(@, 0 + 1, Len(@))]
  BY <1>4 DEF Take
<1>7. Hears(me, 0)
  BY <1>1, <1>3, <1>6, HearsNothing
<1>8. me = "client" => s # << >> /\ s[1] = HandshakeTag
  BY <1>2, Greetings
<1>9. 0 <= Len(buf[me])
  BY <1>7 DEF Hears
<1>10. "up" \in Up /\ "shake" \in Up \ {"up"}
  BY DEF Up
<1>11. PICK n \in Nat : n = 0
  OBVIOUS
<1>12. Turn(me, n, s, "shake")
  <2>1. Take(me, "up", n, "shake") /\ Hears(me, n) /\ n <= Len(buf[me])
    BY <1>4, <1>7, <1>9, <1>11
  <2>2. PICK from \in Up, to \in Up : from = "up" /\ to = "shake" /\ to \in (Up \ {"up"}) \cup Ended
    BY <1>10
  <2>3. Turn(me, n, s, to)
    BY <1>1, <1>3, <1>5, <1>8, <2>1, <2>2, TakesTurn
  <2>4. QED
    BY <2>2, <2>3
<1>13. QED
  BY <1>2, <1>11, <1>12

(* Reading n tokens where there are as many. *)
LEMMA ReadingTurn ==
    ASSUME Types, NEW n \in Nat, NEW s \in Seq(Content), NEW from \in {"shake", "message"}, NEW to,
           Take(me, from, n, to), n = (IF from = "shake" THEN 2 ELSE 1), Consumed(me, n), Says(me, s),
           to \in {"message"} \cup Ended,
           UNCHANGED <<mode, offer, lru, chan, part, cipher, hash, pads, me>>
    PROVE  Turn(me, n, s, to)
<1>1. me \in Ends
  BY DEF Types
<1>2. n <= Len(buf[me])
  BY DEF Take, Need
<1>3. buf' = [buf EXCEPT ![me] = SubSeq(@, n + 1, Len(@))]
  BY DEF Take
<1>4. Hears(me, n)
  BY <1>1, <1>2, <1>3, HearsConsumed
<1>5. from \in Up /\ from # "up" /\ to \in (Up \ {"up"}) \cup Ended
  BY DEF Up
<1>6. QED
  BY <1>1, <1>2, <1>4, <1>5, TakesTurn

LEMMA ReadHandshakeTurn ==
    ASSUME StreamInv, ReadHandshake
    PROVE  \E s \in Seq(Content), to \in {"message", "failed"} :
               /\ Turn(me, 2, s, to)
               /\ LET h == Contents(me, 2)
                  IN  /\ to = "message" => s = <<ExtHandshake(0)>> /\ target' = h[2][1]
                      /\ to = "failed" => s = << >> /\ target' = target
<1>1. Types /\ me \in Ends
  BY DEF StreamInv, Types
<1>2. UNCHANGED <<mode, offer, lru, chan, part, cipher, hash, pads, me>> /\ Consumed(me, 2)
  BY DEF ReadHandshake, Untouched
<1>3. PICK on \in BOOLEAN :
          /\ Take(me, "shake", 2, IF on THEN "message" ELSE "failed")
          /\ IF on THEN WriteMessage(me, ExtHandshake(0)) ELSE Silent
          /\ target' = IF on THEN Contents(me, 2)[2][1] ELSE target
  <2> DEFINE On(stored) == IsHandshake(Contents(me, 2)) /\ (me = "client" => Contents(me, 2)[2][1] = Wanted)
                           /\ ~stored /\ Contents(me, 2)[2][2]
  <2>1. PICK stored \in MayBeStored :
            /\ Take(me, "shake", 2, IF On(stored) THEN "message" ELSE "failed")
            /\ IF On(stored) THEN WriteMessage(me, ExtHandshake(0)) ELSE Silent
            /\ target' = IF On(stored) THEN Contents(me, 2)[2][1] ELSE target
    BY DEF ReadHandshake
  <2> HIDE DEF On
  <2>2. PICK b \in BOOLEAN : b <=> On(stored)
    OBVIOUS
  <2>3. QED
    BY <2>1, <2>2
<1>4. PICK s, to : s = (IF on THEN <<ExtHandshake(0)>> ELSE << >>)
                   /\ to = (IF on THEN "message" ELSE "failed")
  OBVIOUS
<1>5. s \in Seq(Content)
  BY <1>4, Greetings, EmptySeq
<1>6. out[me] = << >>
  BY <1>3 DEF Take, Writing
<1>7. Says(me, s)
  <2>1. CASE on
    <3>1. Write(me, s)
      BY <1>3, <1>4, <2>1 DEF WriteMessage, EncodeTo
    <3>2. QED
      BY <1>1, <1>5, <3>1, SaysWritten
  <2>2. CASE ~on
    <3>1. Silent /\ s = << >>
      BY <1>3, <1>4, <2>2
    <3>2. Says(me, << >>)
      BY <1>1, <1>6, <3>1, SaysNothing
    <3>3. QED
      BY <3>1, <3>2
  <2>3. QED
    BY <2>1, <2>2
<1>8. PICK n \in Nat : n = 2
  OBVIOUS
<1>9. Take(me, "shake", n, to)
  BY <1>3, <1>4, <1>8
<1>10. Turn(me, n, s, to)
  BY <1>1, <1>2, <1>4, <1>5, <1>7, <1>8, <1>9, ReadingTurn DEF Ended
<1>11. QED
  BY <1>3, <1>4, <1>5, <1>8, <1>10

LEMMA MessageTurn ==
    ASSUME StreamInv, NEW s \in Seq(Content), NEW to, ReadMessage(to), Says(me, s),
           to \in {"message"} \cup Ended
    PROVE  Turn(me, 1, s, to)
<1>1. Types
  BY DEF StreamInv
<1>2. PICK n \in Nat : n = 1
  OBVIOUS
<1>3. Take(me, "message", n, to) /\ Consumed(me, n)
      /\ UNCHANGED <<mode, offer, lru, chan, part, cipher, hash, pads, me>>
  BY <1>2 DEF ReadMessage, Untouched
<1>4. PICK from \in {"shake", "message"} : from = "message"
  OBVIOUS
<1>5. Turn(me, n, s, to)
  BY <1>1, <1>2, <1>3, <1>4, ReadingTurn
<1>6. QED
  BY <1>2, <1>5

LEMMA PeerStartTurn ==
    ASSUME StreamInv, PeerStart
    PROVE  \E h \in Hashes, extensions \in BOOLEAN, s \in Seq(Content) :
               s = HandshakeOf(h, extensions) /\ Turn(peer, 0, s, "peer")
<1>1. Types /\ Stages
  BY DEF StreamInv, PeerStart
<1>2. PICK h \in Hashes, extensions \in BOOLEAN : Write(peer, HandshakeOf(h, extensions))
  BY DEF PeerStart
<1>3. PICK s : s = HandshakeOf(h, extensions)
  OBVIOUS
<1>4. s \in Seq(Content) /\ s # << >> /\ s[1] = HandshakeTag
  <2>1. HandshakeTag \in Content /\ <<h, extensions>> \in Content
    BY DEF HandshakeTag, Tag, Name, Content
  <2>2. QED
    BY <1>3, <2>1 DEF HandshakeOf
<1>5. peer \in Ends /\ Open /\ pc[peer] = "up" /\ pc' = [pc EXCEPT ![peer] = "peer"]
      /\ UNCHANGED <<mode, offer, lru, chan, part, cipher, hash, pads, me>>
      /\ buf' = buf /\ dec' = dec /\ read' = read
  BY <1>1, PeerIsOther DEF PeerStart, Untouched
<1>6. out[peer] = << >> /\ pc'[peer] = "peer" /\ pc'[Other(peer)] = pc[Other(peer)] /\ DOMAIN pc' = Ends
  BY <1>1, <1>5, TwoEnds DEF Stages, Types
<1>7. Says(peer, s)
  BY <1>1, <1>2, <1>3, <1>4, <1>5, SaysWritten
<1>8. Hears(peer, 0)
  BY <1>1, <1>5, HearsNothing
<1>9. "up" \in Up /\ "peer" \in Up \ {"up"}
  BY DEF Up
<1>10. Turn(peer, 0, s, "peer")
  BY <1>4, <1>5, <1>6, <1>7, <1>8, <1>9 DEF Turn
<1>11. QED
  BY <1>3, <1>4, <1>10

LEMMA PeerSendsTurn ==
    ASSUME StreamInv, PeerSends
    PROVE  \E m \in Messages, s \in Seq(Content) : s = <<m>> /\ Turn(peer, 0, s, "peer")
<1>1. Types
  BY DEF StreamInv
<1>2. PICK m \in Messages : Write(peer, <<m>>)
  BY DEF PeerSends, WriteMessage, EncodeTo
<1>3. PICK s : s = <<m>>
  OBVIOUS
<1>4. s \in Seq(Content)
  <2>1. m \in Content
    BY Greetings
  <2>2. QED
    BY <1>3, <2>1
<1>5. peer \in Ends /\ Open /\ pc[peer] = "peer" /\ pc' = pc /\ out[peer] = << >>
      /\ UNCHANGED <<mode, offer, lru, chan, part, cipher, hash, pads, me>>
      /\ buf' = buf /\ dec' = dec /\ read' = read
  BY <1>1, PeerIsOther DEF PeerSends, Writing
<1>6. pc'[peer] = "peer" /\ pc'[Other(peer)] = pc[Other(peer)] /\ DOMAIN pc' = Ends
  BY <1>1, <1>5 DEF Types
<1>7. Says(peer, s)
  BY <1>1, <1>2, <1>3, <1>4, <1>5, SaysWritten
<1>8. Hears(peer, 0)
  BY <1>1, <1>5, HearsNothing
<1>9. "peer" \in Up \ {"up"} /\ "peer" # "up"
  BY DEF Up
<1>10. Turn(peer, 0, s, "peer")
  BY <1>5, <1>6, <1>7, <1>8, <1>9 DEF Turn
<1>11. QED
  BY <1>3, <1>4, <1>10

LEMMA PeerReadsTurn ==
    ASSUME StreamInv, PeerReads
    PROVE  \E n \in Nat, s \in Seq(Content) : s = << >> /\ Turn(peer, n, s, "peer")
<1>1. Types /\ peer \in Ends
  BY PeerIsOther DEF StreamInv
<1>2. PICK s : s = << >>
  OBVIOUS
<1>3. s \in Seq(Content)
  BY <1>2, EmptySeq
<1>4. PICK n \in Nat : n = Len(buf[peer])
  <2>1. buf[peer] \in Seq(Token)
    BY <1>1 DEF Types
  <2>2. QED
    BY ONLY <2>1
<1>5. Take(peer, "peer", n, "peer") /\ Consumed(peer, n) /\ Silent
      /\ UNCHANGED <<mode, offer, lru, chan, part, cipher, hash, pads, me>>
  BY <1>4 DEF PeerReads, Untouched
<1>6. n <= Len(buf[peer])
  BY ONLY <1>4
<1>7. Hears(peer, n)
  <2>1. buf' = [buf EXCEPT ![peer] = SubSeq(@, n + 1, Len(@))]
    BY <1>5 DEF Take
  <2>2. QED
    BY <1>1, <1>5, <1>6, <2>1, HearsConsumed
<1>8. out[peer] = << >>
  BY <1>5 DEF Take, Writing
<1>9. Says(peer, s)
  BY <1>1, <1>2, <1>5, <1>8, SaysNothing
<1>10. PICK from \in Up : from = "peer"
  BY DEF Up
<1>11. from \in (Up \ {"up"}) \cup Ended /\ from # "up"
  BY <1>10
<1>12. Take(peer, from, n, from)
  BY <1>5, <1>10
<1>13. Turn(peer, n, s, from)
  BY <1>1, <1>3, <1>5, <1>6, <1>7, <1>9, <1>11, <1>12, TakesTurn
<1>14. QED
  BY <1>2, <1>3, <1>10, <1>13

-----------------------------------------------------------------------------
(* The pipe *)

LEMMA StartOfSeq ==
    ASSUME NEW S, NEW a \in Seq(S), NEW b \in Seq(S), Len(a) <= Len(b),
           \A i \in 1..Len(a) : a[i] = b[i]
    PROVE  IsPrefix(a, b)
<1>1. PICK n \in Nat, l \in Nat : n = Len(a) /\ l = Len(b) /\ n <= l
  OBVIOUS
<1>2. \A i \in 1..n : i \in 1..l /\ 1 + i - 1 = i
  BY ONLY <1>1
<1>3. (\A i \in 1..n : a[i] \in S) /\ \A i \in 1..n : b[i] \in S
  BY <1>1, <1>2
<1>4. (IF 1 <= n THEN n - 1 + 1 ELSE 0) = n /\ n - 1 + 1 = n
  BY ONLY <1>1
<1>5. PICK c, d : c = SubSeq(a, 1, n) /\ d = SubSeq(b, 1, n)
  OBVIOUS
<1>6. /\ SubSeq(a, 1, n) \in Seq(S) /\ Len(SubSeq(a, 1, n)) = (IF 1 <= n THEN n - 1 + 1 ELSE 0)
      /\ \A i \in 1..(n - 1 + 1) : SubSeq(a, 1, n)[i] = a[1 + i - 1]
  BY ONLY <1>1, <1>3, SubSeqProperties
<1>7. /\ SubSeq(b, 1, n) \in Seq(S) /\ Len(SubSeq(b, 1, n)) = (IF 1 <= n THEN n - 1 + 1 ELSE 0)
      /\ \A i \in 1..(n - 1 + 1) : SubSeq(b, 1, n)[i] = b[1 + i - 1]
  BY ONLY <1>1, <1>3, SubSeqProperties
<1>8. c \in Seq(S) /\ d \in Seq(S) /\ Len(c) = n /\ Len(d) = n
  BY <1>4, <1>5, <1>6, <1>7
<1>9. \A i \in 1..n : c[i] = d[i]
  BY <1>1, <1>2, <1>4, <1>5, <1>6, <1>7
<1>10. c = d
  BY ONLY <1>8, <1>9, SeqEqual
<1>11. QED
  BY <1>1, <1>5, <1>10 DEF IsPrefix

(* What is added to makes a longer one. *)
LEMMA Longer ==
    ASSUME NEW S, NEW a \in Seq(S), NEW b \in Seq(S), b # << >>
    PROVE  IsStrictPrefix(a, a \o b)
<1>1. PICK c : c = a \o b
  OBVIOUS
<1>2. /\ c \in Seq(S) /\ Len(c) = Len(a) + Len(b)
      /\ \A i \in 1..(Len(a) + Len(b)) : c[i] = IF i <= Len(a) THEN a[i] ELSE b[i - Len(a)]
  <2>1. /\ a \o b \in Seq(S) /\ Len(a \o b) = Len(a) + Len(b)
        /\ \A i \in 1..(Len(a) + Len(b)) : (a \o b)[i] = IF i <= Len(a) THEN a[i] ELSE b[i - Len(a)]
    BY ConcatProperties
  <2>2. QED
    BY <1>1, <2>1
<1>3. PICK n \in Nat, m \in Nat : n = Len(a) /\ m = Len(b)
  OBVIOUS
<1>4. m # 0
  BY <1>3, EmptySeq
<1>5. n <= n + m /\ n # n + m /\ \A i \in 1..n : i \in 1..(n + m) /\ i <= n
  BY ONLY <1>3, <1>4
<1>6. \A i \in 1..Len(a) : a[i] = c[i]
  BY <1>2, <1>3, <1>5
<1>7. Len(a) <= Len(c) /\ a # c
  BY <1>2, <1>3, <1>5
<1>8. IsPrefix(a, c)
  BY ONLY <1>2, <1>6, <1>7, a \in Seq(S), StartOfSeq
<1>9. QED
  BY <1>1, <1>7, <1>8 DEF IsStrictPrefix

LEMMA SamePrefixes ==
    \A a, b : /\ ReadsWhatWasWritten!IsPrefix(a, b) <=> IsPrefix(a, b)
              /\ ReadsWhatWasWritten!IsStrictPrefix(a, b) <=> IsStrictPrefix(a, b)
BY DEF IsPrefix, IsStrictPrefix, ReadsWhatWasWritten!IsPrefix, ReadsWhatWasWritten!IsStrictPrefix

(* A turn is a step of the pipe. *)
LEMMA TurnIsPipe ==
    ASSUME StreamInv, NEW x \in Ends, NEW n \in Nat, NEW s \in Seq(Content), NEW to, Turn(x, n, s, to)
    PROVE  ReadsWhatWasWritten!Next \/ UNCHANGED <<wrote, read>>
<1>1. Types /\ Open /\ pc[x] \in Up /\ n <= Len(buf[x])
  BY DEF StreamInv, Turn, Hears
<1>2. PICK y \in Ends : y = Other(x) /\ y # x
  BY TwoEnds
<1>3. PICK w, r, q, v, c : /\ w = wrote[x] /\ r = read[y] /\ q = Contents(x, n)
                           /\ v = w \o s /\ c = r \o q
  OBVIOUS
<1>4. w \in Seq(Content) /\ r \in Seq(Content) /\ wrote \in [Ends -> Seq(Content)] /\ read \in [Ends -> Seq(Content)]
  BY <1>1, <1>2, <1>3 DEF Types
<1>5. /\ wrote' = [wrote EXCEPT ![x] = v] /\ read' = [read EXCEPT ![y] = c]
      /\ wrote'[x] = v /\ read'[y] = c
  BY <1>2, <1>3, <1>4 DEF Turn, Hears, Says
<1>6. s # << >> => IsStrictPrefix(w, v)
  BY ONLY <1>3, <1>4, s \in Seq(Content), Longer
<1>7. s = << >> => wrote' = wrote
  <2>1. w \o << >> = w
    BY ONLY <1>4, ConcatEmptySeq
  <2>2. s = << >> => v = w
    BY <1>3, <2>1
  <2>3. wrote = [wrote EXCEPT ![x] = w]
    BY <1>3, <1>4
  <2>4. QED
    BY <1>5, <2>2, <2>3
<1>8. /\ q \in Seq(Content) /\ Len(q) = n
      /\ Len(r) + n <= Len(wrote[y])
      /\ \A i \in 1..n : q[i] = wrote[y][Len(r) + i]
  BY <1>1, <1>2, <1>3, ReadsWritten
<1>9. q # << >> => IsStrictPrefix(r, c) /\ IsPrefix(c, wrote[y])
  <2>1. q # << >> => IsStrictPrefix(r, c)
    BY ONLY <1>3, <1>4, <1>8, Longer
  <2>2. PICK u \in Seq(Content) : u = wrote[y]
    BY <1>4
  <2>3. /\ c \in Seq(Content) /\ Len(c) = Len(r) + Len(q)
        /\ \A i \in 1..(Len(r) + Len(q)) : c[i] = IF i <= Len(r) THEN r[i] ELSE q[i - Len(r)]
    <3>1. /\ r \o q \in Seq(Content) /\ Len(r \o q) = Len(r) + Len(q)
          /\ \A i \in 1..(Len(r) + Len(q)) : (r \o q)[i] = IF i <= Len(r) THEN r[i] ELSE q[i - Len(r)]
      BY ONLY <1>4, <1>8, ConcatProperties
    <3>2. QED
      BY <1>3, <3>1
  <2>4. PICK lr \in Nat : lr = Len(r)
    BY ONLY <1>4
  <2>5. \A i \in 1..lr : r[i] = u[i]
    BY <1>2, <1>3, <2>2, <2>4 DEF StreamInv, Faithful
  <2>6. ASSUME NEW i \in 1..(lr + n)
        PROVE  c[i] = u[i]
    <3>1. CASE i <= lr
      <4>1. i \in 1..lr
        BY <3>1
      <4>2. QED
        BY <1>8, <2>3, <2>4, <2>5, <3>1, <4>1
    <3>2. CASE ~(i <= lr)
      <4>1. i - lr \in 1..n /\ lr + (i - lr) = i
        BY ONLY <3>2, lr \in Nat, n \in Nat, i \in 1..(lr + n)
      <4>2. c[i] = q[i - lr]
        BY <1>8, <2>3, <2>4, <3>2
      <4>3. q[i - lr] = u[lr + (i - lr)]
        BY <1>8, <2>2, <2>4, <4>1
      <4>4. QED
        BY <4>1, <4>2, <4>3
    <3>3. QED
      BY <3>1, <3>2
  <2>7. Len(c) = lr + n /\ Len(c) <= Len(u)
    BY <1>8, <2>2, <2>3, <2>4
  <2>8. \A i \in 1..Len(c) : c[i] = u[i]
    BY <2>6, <2>7
  <2>9. IsPrefix(c, u)
    BY ONLY <2>2, <2>3, <2>7, <2>8, StartOfSeq
  <2>10. QED
    BY <2>1, <2>2, <2>9
<1>10. q = << >> => read' = read
  <2>1. r \o << >> = r
    BY ONLY <1>4, ConcatEmptySeq
  <2>2. q = << >> => c = r
    BY <1>3, <2>1
  <2>3. read = [read EXCEPT ![y] = r]
    BY <1>3, <1>4
  <2>4. QED
    BY <1>5, <2>2, <2>3
<1>11. wrote' = [wrote EXCEPT ![x] = wrote'[x]] /\ read' = [read EXCEPT ![y] = read'[y]]
  BY <1>5
<1>12. (s # << >> => IsStrictPrefix(wrote[x], wrote'[x]))
       /\ (q # << >> => IsStrictPrefix(read[y], read'[y]) /\ IsPrefix(read'[y], wrote[y]))
  BY <1>3, <1>5, <1>6, <1>9
<1>13. CASE s = << >> /\ q = << >>
  BY <1>7, <1>10, <1>13
<1>14. CASE s # << >> /\ q = << >>
  <2>1. ReadsWhatWasWritten!Write(x)
    BY ONLY <1>10, <1>11, <1>14, <1>12, SamePrefixes DEF ReadsWhatWasWritten!Write
  <2>2. QED
    BY <2>1 DEF ReadsWhatWasWritten!Next
<1>15. CASE s = << >> /\ q # << >>
  <2>1. ReadsWhatWasWritten!Read(y)
    BY ONLY <1>7, <1>11, <1>15, <1>12, SamePrefixes DEF ReadsWhatWasWritten!Read
  <2>2. QED
    BY <2>1 DEF ReadsWhatWasWritten!Next
<1>16. CASE s # << >> /\ q # << >>
  <2>1. ReadsWhatWasWritten!ReadAndWrite(y, x)
    BY ONLY <1>11, <1>16, <1>12, SamePrefixes DEF ReadsWhatWasWritten!ReadAndWrite
  <2>2. QED
    BY <1>2, <2>1 DEF ReadsWhatWasWritten!Next
<1>17. QED
  BY <1>13, <1>14, <1>15, <1>16

-----------------------------------------------------------------------------
(* Messages *)

LEMMA MessageKinds ==
    ASSUME NEW m \in Messages
    PROVE  /\ m[1] = "ext handshake" => m[2] \in 0..Pieces
           /\ m[1] = "ut data" => m = Data(m[2], m[3]) /\ m[2] \in 0..Pieces - 1 /\ m[3] \in Hashes
<1>1. CASE \E i \in 0..Pieces - 1, h \in Hashes : m = Data(i, h)
  <2>1. PICK i \in 0..Pieces - 1, h \in Hashes : m = Data(i, h)
    BY <1>1
  <2>2. m[1] = "ut data" /\ m[2] = i /\ m[3] = h
    BY <2>1 DEF Data
  <2>3. QED
    BY <2>1, <2>2
<1>2. CASE \E n \in 0..Pieces : m = ExtHandshake(n)
  <2>1. PICK n \in 0..Pieces : m = ExtHandshake(n)
    BY <1>2
  <2>2. m[1] = "ext handshake" /\ m[2] = n
    BY <2>1 DEF ExtHandshake
  <2>3. QED
    BY <2>2
<1>3. CASE m \in {<<"keep-alive", 0>>, <<"other", 0>>, <<"todo", 0>>, <<"invalid", 0>>}
  <2>1. m[1] \in {"keep-alive", "other", "todo", "invalid"}
    BY <1>3
  <2>2. QED
    BY <2>1
<1>4. \/ \E i \in 0..Pieces - 1, h \in Hashes : m = Data(i, h)
      \/ \E n \in 0..Pieces : m = ExtHandshake(n)
      \/ m \in {<<"keep-alive", 0>>, <<"other", 0>>, <<"todo", 0>>, <<"invalid", 0>>}
  BY DEF Messages
<1>5. QED
  BY <1>1, <1>2, <1>3, <1>4

LEMMA RequestsAre ==
    ASSUME NEW n \in Nat
    PROVE  /\ Requests(n) \in Seq(Content) /\ Len(Requests(n)) = n
           /\ \A i \in 1..n : Requests(n)[i] = Request(i - 1)
<1>1. ASSUME NEW i \in 1..n
      PROVE  Request(i - 1) \in Content
  <2>1. i - 1 \in Nat
    OBVIOUS
  <2>2. QED
    BY <2>1, NumberIsContent DEF Request, Name
<1>2. PICK q : q = Requests(n)
  OBVIOUS
<1>3. q = [i \in 1..n |-> Request(i - 1)]
  BY <1>2 DEF Requests
<1>4. q \in [1..n -> Content]
  BY <1>1, <1>3
<1>5. q \in Seq(Content) /\ Len(q) = n
  BY <1>4
<1>6. QED
  BY <1>2, <1>3, <1>5

LEMMA RequestsGrow ==
    ASSUME NEW n \in Nat
    PROVE  Requests(n) \o <<Request(n)>> = Requests(n + 1)
<1>1. PICK q, p, s, c : q = Requests(n) /\ p = Requests(n + 1) /\ s = <<Request(n)>> /\ c = q \o s
  OBVIOUS
<1>2. n + 1 \in Nat
  OBVIOUS
<1>3. /\ q \in Seq(Content) /\ Len(q) = n /\ p \in Seq(Content) /\ Len(p) = n + 1
      /\ (\A i \in 1..n : q[i] = Request(i - 1)) /\ \A i \in 1..(n + 1) : p[i] = Request(i - 1)
  BY <1>1, <1>2, RequestsAre
<1>4. s \in Seq(Content) /\ Len(s) = 1 /\ s[1] = Request(n)
  <2>1. Request(n) \in Content
    BY NumberIsContent DEF Request, Name
  <2>2. QED
    BY <1>1, <2>1
<1>5. /\ c \in Seq(Content) /\ Len(c) = Len(q) + Len(s)
      /\ \A i \in 1..(Len(q) + Len(s)) : c[i] = IF i <= Len(q) THEN q[i] ELSE s[i - Len(q)]
  <2>1. /\ q \o s \in Seq(Content) /\ Len(q \o s) = Len(q) + Len(s)
        /\ \A i \in 1..(Len(q) + Len(s)) : (q \o s)[i] = IF i <= Len(q) THEN q[i] ELSE s[i - Len(q)]
    BY ONLY <1>3, <1>4, ConcatProperties
  <2>2. QED
    BY <1>1, <2>1
<1>6. ASSUME NEW i \in 1..(n + 1)
      PROVE  c[i] = p[i]
  <2>1. CASE i <= n
    <3>1. i \in 1..n
      BY <2>1
    <3>2. QED
      BY <1>3, <1>4, <1>5, <2>1, <3>1
  <2>2. CASE ~(i <= n)
    <3>1. i = n + 1 /\ i - n = 1 /\ i - 1 = n
      BY <2>2
    <3>2. c[i] = s[i - n]
      BY <1>3, <1>4, <1>5, <2>2
    <3>3. p[i] = Request(i - 1)
      BY <1>3
    <3>4. s[i - n] = Request(i - 1)
      BY ONLY <1>4, <3>1
    <3>5. QED
      BY <3>2, <3>3, <3>4
  <2>3. QED
    BY <2>1, <2>2
<1>7. Len(c) = n + 1
  BY ONLY <1>3, <1>4, <1>5
<1>8. \A i \in 1..Len(c) : c[i] = p[i]
  BY <1>6, <1>7
<1>9. c = p
  BY ONLY <1>3, <1>5, <1>7, <1>8, SeqEqual
<1>10. QED
  BY <1>1, <1>9

(* One more request. *)
LEMMA AsksOn ==
    ASSUME NEW n \in Nat, NEW w, w = Greeting \o Requests(n)
    PROVE  w \o <<Request(n)>> = Greeting \o Requests(n + 1)
<1>1. PICK g, q, s : g = Greeting /\ q = Requests(n) /\ s = <<Request(n)>>
  OBVIOUS
<1>2. g \in Seq(Content)
  <2>1. Hello \in Seq(Content) /\ <<ExtHandshake(0)>> \in Seq(Content)
    BY Greetings
  <2>2. Greeting = Hello \o <<ExtHandshake(0)>>
    BY DEF Greeting, Hello
  <2>3. QED
    BY ONLY <1>1, <2>1, <2>2, ConcatProperties
<1>3. q \in Seq(Content)
  BY <1>1, RequestsAre
<1>4. s \in Seq(Content)
  BY <1>1, Greetings
<1>5. (g \o q) \o s = g \o (q \o s)
  BY ONLY <1>2, <1>3, <1>4, ConcatAssociative
<1>6. q \o s = Requests(n + 1)
  BY <1>1, RequestsGrow
<1>7. QED
  BY <1>1, <1>5, <1>6

LEMMA FirstAsked == Greeting \o <<Request(0)>> = Greeting \o Requests(1)
<1>1. PICK n \in Nat : n = 0
  OBVIOUS
<1>2. Requests(n) \o <<Request(n)>> = Requests(n + 1) /\ n + 1 = 1
  BY <1>1, RequestsGrow
<1>3. Requests(n) \in Seq(Content) /\ Len(Requests(n)) = 0
  BY <1>1, RequestsAre
<1>4. Requests(n) = << >>
  BY <1>3, EmptySeq
<1>5. PICK s \in Seq(Content) : s = <<Request(0)>>
  BY Greetings
<1>6. << >> \o s = s
  BY ONLY <1>5, ConcatEmptySeq
<1>7. <<Request(0)>> = Requests(1)
  BY <1>1, <1>2, <1>4, <1>5, <1>6
<1>8. QED
  BY <1>7

\* The next message has been read, and s written.
Reads(s, to) ==
    /\ message \in Messages /\ me' = me /\ pc'[me] = to /\ wrote'[me] = wrote[me] \o s
    /\ Len(read[peer]) \in Nat /\ Len(read'[peer]) = Len(read[peer]) + 1
    /\ \A i \in 1..Len(read[peer]) : read'[peer][i] = read[peer][i]
    /\ read'[peer][Len(read[peer]) + 1] = message

(* The next thing the peer has said is a message. *)
LEMMA NextIsMessage ==
    ASSUME WireIInv, Open, pc[me] = "message", Len(buf[me]) >= 1
    PROVE  message \in Messages
<1>1. Types /\ "message" \in Up /\ PeerSpoke /\ Progress /\ StreamInv
  BY DEF WireIInv, AppInv, StreamInv, Up
<1>2. me \in Ends /\ peer \in Ends /\ peer = Other(me)
  BY <1>1, PeerIsOther
<1>3. PICK n \in Nat : n = 1
  OBVIOUS
<1>4. n <= Len(buf[me])
  BY <1>3
<1>5. PICK r, w, q : r = read[peer] /\ w = wrote[peer] /\ q = Contents(me, n)
  OBVIOUS
<1>6. /\ q \in Seq(Content) /\ Len(q) = n /\ Len(r) + n <= Len(w)
      /\ \A i \in 1..n : q[i] = w[Len(r) + i]
  BY <1>1, <1>2, <1>4, <1>5, ReadsWritten
<1>7. r \in Seq(Content) /\ w \in Seq(Content)
  BY <1>1, <1>2, <1>5 DEF Types
<1>8. PICK lr \in Nat, lw \in Nat : lr = Len(r) /\ lw = Len(w)
  BY ONLY <1>7
<1>9. 2 <= lr
  BY <1>1, <1>5, <1>8 DEF Progress
<1>10. lr + 1 \in 3..lw /\ lw # 0 /\ 1 \in 1..n
  BY ONLY <1>3, <1>6, <1>8, <1>9
<1>11. q[1] = w[lr + 1]
  BY <1>6, <1>8, <1>10
<1>12. w # << >>
  BY <1>8, <1>10, EmptySeq
<1>13. \A i \in 3..Len(w) : w[i] \in Messages
  BY <1>1, <1>5, <1>12 DEF PeerSpoke
<1>14. message = q[1]
  BY <1>3, <1>5 DEF message
<1>15. QED
  BY <1>8, <1>10, <1>11, <1>13, <1>14

LEMMA MessageRead ==
    ASSUME WireIInv, NEW s \in Seq(Content), NEW to, pc[me] = "message", Turn(me, 1, s, to)
    PROVE  Reads(s, to) /\ PeerSpoke'
<1>1. Types /\ Open /\ "message" \in Up /\ PeerSpoke /\ Progress /\ StreamInv
  BY DEF WireIInv, AppInv, StreamInv, Turn, Up
<1>2. me \in Ends /\ peer \in Ends /\ peer = Other(me)
  BY <1>1, PeerIsOther
<1>3. PICK n \in Nat : n = 1
  OBVIOUS
<1>4. n <= Len(buf[me])
  BY <1>3 DEF Turn, Hears
<1>5. PICK r, w, q, c : r = read[peer] /\ w = wrote[peer] /\ q = Contents(me, n) /\ c = r \o q
  OBVIOUS
<1>6. /\ q \in Seq(Content) /\ Len(q) = n /\ Len(r) + n <= Len(w)
      /\ \A i \in 1..n : q[i] = w[Len(r) + i]
  BY <1>1, <1>2, <1>4, <1>5, ReadsWritten
<1>7. r \in Seq(Content) /\ w \in Seq(Content)
  BY <1>1, <1>2, <1>5 DEF Types
<1>8. PICK lr \in Nat : lr = Len(r)
  BY ONLY <1>7
<1>9. message = q[1]
  BY <1>3, <1>5 DEF message
<1>10. q[1] \in Messages
  <2>1. Len(buf[me]) >= 1
    BY <1>3, <1>4
  <2>2. QED
    BY <1>1, <1>9, <2>1, NextIsMessage
<1>11. /\ wrote'[me] = wrote[me] \o s /\ wrote'[peer] = w
       /\ read'[peer] = r \o Contents(me, 1) /\ pc'[me] = to /\ pc'[peer] = pc[peer] /\ me' = me
  <2>1. PICK x \in Ends : x = me
    BY <1>2
  <2>2. Turn(x, n, s, to)
    BY <1>3, <2>1
  <2>3. /\ wrote'[x] = wrote[x] \o s /\ wrote'[Other(x)] = wrote[Other(x)]
        /\ read'[Other(x)] = read[Other(x)] \o Contents(x, n)
        /\ pc'[x] = to /\ pc'[Other(x)] = pc[Other(x)] /\ me' = me
    <3>1. StreamInv
      BY <1>1
    <3>2. Told(x, n, s, to)
      BY ONLY <2>2, <3>1, x \in Ends, n \in Nat, s \in Seq(Content), TurnTold
    <3>3. QED
      BY ONLY <3>2 DEF Told
  <2>4. QED
    BY <1>2, <1>3, <1>5, <2>1, <2>3
<1>12. /\ c \in Seq(Content) /\ Len(c) = Len(r) + Len(q)
       /\ \A i \in 1..(Len(r) + Len(q)) : c[i] = IF i <= Len(r) THEN r[i] ELSE q[i - Len(r)]
  <2>1. /\ r \o q \in Seq(Content) /\ Len(r \o q) = Len(r) + Len(q)
        /\ \A i \in 1..(Len(r) + Len(q)) : (r \o q)[i] = IF i <= Len(r) THEN r[i] ELSE q[i - Len(r)]
    BY ONLY <1>6, <1>7, ConcatProperties
  <2>2. QED
    BY <1>5, <2>1
<1>13. read'[peer] = c
  BY <1>3, <1>5, <1>11
<1>14. Len(c) = lr + 1
  BY ONLY <1>3, <1>6, <1>8, <1>12
<1>15. \A i \in 1..lr : c[i] = r[i]
  <2>1. \A i \in 1..lr : i \in 1..(lr + n) /\ i <= lr
    BY ONLY <1>3, <1>8
  <2>2. QED
    BY <1>6, <1>8, <1>12, <2>1
<1>16. c[lr + 1] = q[1]
  <2>1. lr + 1 \in 1..(lr + n) /\ ~(lr + 1 <= lr) /\ lr + 1 - lr = 1
    BY ONLY <1>3, <1>8
  <2>2. lr + 1 \in 1..(Len(r) + Len(q)) /\ ~(lr + 1 <= Len(r)) /\ lr + 1 - Len(r) = 1
    BY <1>6, <1>8, <2>1
  <2>3. c[lr + 1] = IF lr + 1 <= Len(r) THEN r[lr + 1] ELSE q[lr + 1 - Len(r)]
    BY ONLY <1>12, <2>2
  <2>4. QED
    BY ONLY <2>2, <2>3
<1>17. Reads(s, to)
  BY <1>5, <1>8, <1>9, <1>10, <1>11, <1>13, <1>14, <1>15, <1>16 DEF Reads
<1>18. peer' = peer
  BY <1>11 DEF peer
<1>19. PeerSpoke'
  <2>1. Messages' = Messages
    BY DEF Messages, ExtHandshake, Data
  <2>2. QED
    BY <1>1, <1>5, <1>11, <1>18, <2>1 DEF PeerSpoke
<1>20. QED
  BY <1>17, <1>19

(* What has been collected stays. *)
LEMMA CollectedStays ==
    ASSUME Collected, NEW s, NEW to, Reads(s, to), torrent' = torrent
    PROVE  Collected'
<1>1. peer' = peer
  BY DEF Reads, peer
<1>2. PICK lr \in Nat : lr = Len(read[peer])
  BY DEF Reads
<1>3. \A i \in 1..lr : i \in 1..(lr + 1)
  BY ONLY lr \in Nat
<1>4. ASSUME NEW i \in 1..Len(torrent')
      PROVE  torrent'[i][2] = i - 1 /\ \E j \in 1..Len(read'[peer]) : read'[peer][j] = Data(i - 1, torrent'[i][1])
  <2>1. PICK j \in 1..lr : read[peer][j] = Data(i - 1, torrent[i][1])
    BY <1>2, <1>4 DEF Collected
  <2>2. j \in 1..Len(read'[peer]) /\ read'[peer][j] = read[peer][j]
    BY <1>2, <1>3 DEF Reads
  <2>3. QED
    BY <2>1, <2>2 DEF Collected
<1>5. torrent' \in Seq(Hashes \X Nat)
  BY DEF Collected
<1>6. QED
  BY <1>1, <1>4, <1>5 DEF Collected, Data

PipeStep == ReadsWhatWasWritten!Next \/ UNCHANGED <<wrote, read>>

LEMMA MessageHandled ==
    ASSUME WireIInv, NEW s \in Seq(Content), NEW to, ReadMessage(to), Says(me, s),
           to \in {"message"} \cup Ended
    PROVE  StreamInv' /\ PipeStep /\ Reads(s, to) /\ PeerSpoke' /\ target' = target /\ sent' = sent
<1>1. StreamInv /\ Types /\ pc[me] = "message" /\ target' = target /\ sent' = sent
  BY DEF WireIInv, StreamInv, ReadMessage, Take, Untouched
<1>2. Turn(me, 1, s, to)
  BY <1>1, MessageTurn
<1>3. Reads(s, to) /\ PeerSpoke'
  BY <1>1, <1>2, MessageRead
<1>4. PICK n \in Nat, x \in Ends : n = 1 /\ x = me
  BY <1>1, PeerIsOther
<1>5. Turn(x, n, s, to)
  BY <1>2, <1>4
<1>6. StreamInv'
  BY <1>1, <1>5, TurnStep
<1>7. PipeStep
  BY <1>1, <1>5, TurnIsPipe DEF PipeStep
<1>8. QED
  BY <1>1, <1>3, <1>6, <1>7

LEMMA SilentMessage ==
    ASSUME WireIInv, NEW to, ReadMessage(to), Silent, to \in {"message"} \cup Ended
    PROVE  /\ StreamInv' /\ PipeStep /\ Reads(<< >>, to) /\ PeerSpoke' /\ target' = target /\ sent' = sent
           /\ wrote' = wrote
<1>1. Types /\ me \in Ends /\ out[me] = << >> /\ wrote' = wrote
  BY DEF WireIInv, StreamInv, Types, ReadMessage, Take, Writing, Silent
<1>2. PICK s \in Seq(Content) : s = << >>
  BY EmptySeq
<1>3. Says(me, << >>)
  BY <1>1, SaysNothing
<1>4. Says(me, s)
  BY <1>2, <1>3
<1>5. StreamInv' /\ PipeStep /\ Reads(s, to) /\ PeerSpoke' /\ target' = target /\ sent' = sent
  BY <1>4, MessageHandled
<1>6. QED
  BY <1>1, <1>2, <1>5

LEMMA WrittenMessage ==
    ASSUME WireIInv, NEW to, NEW m, ReadMessage(to), WriteMessage(me, m), <<m>> \in Seq(Content),
           to \in {"message"} \cup Ended
    PROVE  /\ StreamInv' /\ PipeStep /\ Reads(<<m>>, to) /\ PeerSpoke' /\ target' = target /\ sent' = sent
<1>1. Types /\ me \in Ends
  BY DEF WireIInv, StreamInv, Types
<1>2. PICK s \in Seq(Content) : s = <<m>>
  OBVIOUS
<1>3. Write(me, s)
  BY <1>2 DEF WriteMessage, EncodeTo
<1>4. Says(me, s)
  BY <1>1, <1>3, SaysWritten
<1>5. StreamInv' /\ PipeStep /\ Reads(s, to) /\ PeerSpoke' /\ target' = target /\ sent' = sent
  BY <1>4, MessageHandled
<1>6. QED
  BY <1>2, <1>5

(* Where the stream is given up, and where a message is skipped. *)
LEMMA NothingChanged ==
    ASSUME WireIInv, NEW to, ReadMessage(to), Silent, to \in {"message", "failed", "panicked"},
           UNCHANGED <<phase, total, torrent>>
    PROVE  WireIInv' /\ PipeStep
<1>1. /\ StreamInv' /\ PipeStep /\ Reads(<< >>, to) /\ PeerSpoke' /\ target' = target /\ sent' = sent
      /\ wrote' = wrote
  BY SilentMessage DEF Ended
<1>2. me' = me /\ pc'[me] = to /\ peer' = peer /\ wrote'[me] = wrote[me]
  BY <1>1 DEF Reads, peer
<1>3. Progress /\ Collected /\ Bounds /\ pc[me] = "message"
  BY DEF WireIInv, AppInv, ReadMessage, Take
<1>4. Collected'
  BY <1>1, <1>3, CollectedStays
<1>5. Bounds'
  BY <1>1, <1>3 DEF Bounds
<1>6. Progress'
  <2>1. to \notin Shaking \cup {"up", "shake"}
    BY DEF Shaking
  <2>2. to = "message" => Len(read'[peer]) >= 2
    <3>1. PICK l \in Nat : l = Len(read[peer])
      BY <1>1 DEF Reads
    <3>2. Len(read'[peer]) = l + 1 /\ 2 <= l
      BY <1>1, <1>3, <3>1 DEF Reads, Progress
    <3>3. QED
      BY <3>2
  <2>3. Greeting' = Greeting /\ \A n : Requests(n)' = Requests(n)
    BY <1>2 DEF Greeting, Requests, HandshakeOf, ExtHandshake, Request
  <2>4. Requests(Len(torrent) + 1)' = Requests(Len(torrent) + 1)
    BY DEF Requests, Request
  <2>5. QED
    BY <1>2, <1>3, <2>1, <2>2, <2>3, <2>4 DEF Progress
<1>7. Downloaded'
  BY <1>2 DEF Downloaded
<1>8. QED
  BY <1>1, <1>4, <1>5, <1>6, <1>7 DEF WireIInv, AppInv

LEMMA SkipStep ==
    ASSUME WireIInv, Skip
    PROVE  WireIInv' /\ PipeStep
BY NothingChanged DEF Skip

LEMMA PanicStep ==
    ASSUME WireIInv, Panic
    PROVE  WireIInv' /\ PipeStep
BY NothingChanged DEF Panic

LEMMA RefuseStep ==
    ASSUME WireIInv, Refuse
    PROVE  WireIInv' /\ PipeStep
BY NothingChanged DEF Refuse

(* At least the handshake has been read. *)
LEMMA HandshakeRead ==
    ASSUME Progress, pc[me] = "message", NEW s, NEW to, Reads(s, to)
    PROVE  Len(read'[peer]) >= 2
<1>1. PICK l \in Nat : l = Len(read[peer])
  BY DEF Reads
<1>2. Len(read'[peer]) = l + 1 /\ 2 <= l
  BY <1>1 DEF Reads, Progress
<1>3. QED
  BY <1>2

LEMMA SameGreeting ==
    ASSUME me' = me
    PROVE  Greeting' = Greeting /\ peer' = peer
BY DEF Greeting, HandshakeOf, ExtHandshake, peer

LEMMA ExtensionsKnownStep ==
    ASSUME WireIInv, ExtensionsKnown
    PROVE  WireIInv' /\ PipeStep
<1>1. Progress /\ Collected /\ Bounds
  BY DEF WireIInv, AppInv
<1>2. /\ pc[me] = "message" /\ phase = "ext" /\ message[1] = "ext handshake"
      /\ phase' = "pieces" /\ total' = message[2] /\ torrent' = torrent
      /\ wrote[me] = Greeting /\ torrent = << >>
  BY <1>1 DEF ExtensionsKnown, CanRead, Progress
<1>3. Len(torrent) = 0 /\ Len(torrent') = 0
  BY <1>2
<1>4. CASE message[2] > 0
  <2>1. ReadMessage("message") /\ WriteMessage(me, Request(0))
    BY <1>4 DEF ExtensionsKnown
  <2>2. <<Request(0)>> \in Seq(Content)
    BY Greetings
  <2>3. /\ StreamInv' /\ PipeStep /\ Reads(<<Request(0)>>, "message") /\ PeerSpoke'
        /\ target' = target /\ sent' = sent
    BY <2>1, <2>2, WrittenMessage
  <2>4. me' = me /\ pc'[me] = "message" /\ wrote'[me] = wrote[me] \o <<Request(0)>> /\ message \in Messages
    BY <2>3 DEF Reads
  <2>5. Collected'
    BY <1>1, <1>2, <2>3, CollectedStays
  <2>6. message[2] \in 0..Pieces
    BY <1>2, <2>4, MessageKinds
  <2>7. Bounds'
    <3>1. 0 <= message[2]
      BY <2>6, PeerWireAssumption
    <3>2. total' \in 0..Pieces /\ Len(torrent') <= total'
      BY ONLY <1>2, <1>3, <2>6, <3>1
    <3>3. QED
      BY <1>1, <2>3, <3>2 DEF Bounds
  <2>8. Len(read'[peer]) >= 2
    BY <1>1, <1>2, <2>3, HandshakeRead
  <2>9. wrote'[me] = Greeting \o Requests(1)
    BY <1>2, <2>4, FirstAsked
  <2>10. Len(torrent') < total'
    BY <1>2, <1>3, <1>4, <2>6
  <2>11. Requests(1) = Requests(Len(torrent) + 1)'
    <3>1. Len(torrent') + 1 = 1
      BY ONLY <1>3
    <3>2. QED
      BY <3>1 DEF Requests, Request
  <2>12. Progress'
    BY <1>2, <2>4, <2>8, <2>9, <2>10, <2>11, SameGreeting DEF Progress, Shaking
  <2>13. Downloaded'
    BY <2>4 DEF Downloaded
  <2>14. QED
    BY <2>3, <2>5, <2>7, <2>12, <2>13 DEF WireIInv, AppInv
<1>5. CASE ~(message[2] > 0)
  <2>1. ReadMessage("failed") /\ Silent
    BY <1>5 DEF ExtensionsKnown
  <2>2. /\ StreamInv' /\ PipeStep /\ Reads(<< >>, "failed") /\ PeerSpoke' /\ target' = target /\ sent' = sent
    BY <2>1, SilentMessage DEF Ended
  <2>3. me' = me /\ pc'[me] = "failed" /\ message \in Messages
    BY <2>2 DEF Reads
  <2>4. Collected'
    BY <1>1, <1>2, <2>2, CollectedStays
  <2>5. message[2] \in 0..Pieces
    BY <1>2, <2>3, MessageKinds
  <2>6. Bounds'
    <3>1. 0 <= message[2]
      BY <2>5, PeerWireAssumption
    <3>2. total' \in 0..Pieces /\ Len(torrent') <= total'
      BY ONLY <1>2, <1>3, <2>5, <3>1
    <3>3. QED
      BY <1>1, <2>2, <3>2 DEF Bounds
  <2>7. Progress'
    BY <1>2, <2>3, SameGreeting DEF Progress, Shaking
  <2>8. Downloaded'
    BY <2>3 DEF Downloaded
  <2>9. QED
    BY <2>2, <2>4, <2>6, <2>7, <2>8 DEF WireIInv, AppInv
<1>6. QED
  BY <1>4, <1>5

LEMMA IndicesAreNat == \A i \in 0..Pieces - 1 : i \in Nat
<1>1. PICK n \in Nat : n = Pieces
  BY PeerWireAssumption
<1>2. \A i \in 0..n - 1 : i \in Nat
  OBVIOUS
<1>3. QED
  BY <1>1, <1>2

(* A piece more. *)
LEMMA PieceTaken ==
    ASSUME Collected, NEW s, NEW to, Reads(s, to), message[1] = "ut data",
           message[2] = Len(torrent), torrent' = Append(torrent, <<message[3], message[2]>>)
    PROVE  Collected' /\ Len(torrent') = Len(torrent) + 1 /\ Len(torrent) \in Nat
<1>1. message \in Messages /\ peer' = peer
  BY DEF Reads, peer
<1>2. PICK h \in Hashes, k \in Nat : message[3] = h /\ message[2] = k /\ message = Data(k, h)
  <2>1. message = Data(message[2], message[3]) /\ message[2] \in 0..Pieces - 1 /\ message[3] \in Hashes
    BY <1>1, MessageKinds
  <2>2. message[2] \in Nat
    BY ONLY <2>1, IndicesAreNat
  <2>3. QED
    BY <2>1, <2>2
<1>3. PICK t, e : t = torrent /\ e = <<h, k>>
  OBVIOUS
<1>4. t \in Seq(Hashes \X Nat) /\ e \in Hashes \X Nat /\ Len(t) = k
  BY <1>2, <1>3 DEF Collected
<1>5. /\ Append(t, e) \in Seq(Hashes \X Nat) /\ Len(Append(t, e)) = k + 1
      /\ (\A i \in 1..k : Append(t, e)[i] = t[i]) /\ Append(t, e)[k + 1] = e
  BY ONLY <1>4, k \in Nat
<1>6. torrent' = Append(t, e)
  BY <1>2, <1>3
<1>7. PICK lr \in Nat : lr = Len(read[peer])
  BY DEF Reads
<1>8. /\ Len(read'[peer]) = lr + 1 /\ (\A j \in 1..lr : read'[peer][j] = read[peer][j])
      /\ read'[peer][lr + 1] = message
  BY <1>7 DEF Reads
<1>9. lr + 1 \in 1..(lr + 1) /\ \A j \in 1..lr : j \in 1..(lr + 1)
  BY ONLY lr \in Nat
<1>10. ASSUME NEW i \in 1..(k + 1)
       PROVE  torrent'[i][2] = i - 1 /\ \E j \in 1..Len(read'[peer]) : read'[peer][j] = Data(i - 1, torrent'[i][1])
  <2>1. CASE i \in 1..k
    <3>1. t[i][2] = i - 1
      BY <1>3, <1>4, <2>1 DEF Collected
    <3>2. PICK j \in 1..lr : read[peer][j] = Data(i - 1, t[i][1])
      BY <1>3, <1>4, <1>7, <2>1 DEF Collected
    <3>3. torrent'[i] = t[i]
      BY <1>5, <1>6, <2>1
    <3>4. QED
      BY <1>8, <1>9, <3>1, <3>2, <3>3
  <2>2. CASE i \notin 1..k
    <3>1. i = k + 1 /\ i - 1 = k
      BY ONLY <2>2, k \in Nat, i \in 1..(k + 1)
    <3>2. torrent'[i] = e
      BY <1>5, <1>6, <3>1
    <3>3. e[1] = h /\ e[2] = k
      BY <1>3
    <3>4. read'[peer][lr + 1] = Data(i - 1, torrent'[i][1])
      BY <1>2, <1>8, <3>1, <3>2, <3>3
    <3>5. QED
      BY <1>8, <1>9, <3>1, <3>2, <3>3, <3>4
  <2>3. QED
    BY <2>1, <2>2
<1>11. Len(torrent') = k + 1
  BY <1>5, <1>6
<1>12. Collected'
  BY <1>1, <1>5, <1>6, <1>10, <1>11 DEF Collected, Data
<1>13. QED
  BY <1>3, <1>4, <1>11, <1>12

Metadata(h) == [i \in 1..Pieces |-> <<h, i - 1>>]
ComeFrom(t, r) == \A i \in 1..Len(t) : \E j \in 1..Len(r) : r[j] = Data(i - 1, t[i][1])
AllCome(r, h) == \A i \in 1..Pieces : \E j \in DOMAIN r : r[j] = Data(i - 1, h)

(* The metadata that is complete was read piece by piece. *)
LEMMA MetadataRead ==
    ASSUME NEW t \in Seq(Hashes \X Nat), NEW r \in Seq(Content), NEW h,
           ComeFrom(t, r), t = Metadata(h)
    PROVE  Len(t) = Pieces /\ AllCome(r, h)
<1>1. PICK p \in Nat : p = Pieces
  BY PeerWireAssumption
<1>2. t = [i \in 1..p |-> <<h, i - 1>>]
  BY <1>1 DEF Metadata
<1>3. DOMAIN t = 1..p
  BY <1>2
<1>4. Len(t) = p
  BY ONLY t \in Seq(Hashes \X Nat), p \in Nat, <1>3
<1>5. DOMAIN r = 1..Len(r)
  OBVIOUS
<1>6. ASSUME NEW i \in 1..p
      PROVE  \E j \in DOMAIN r : r[j] = Data(i - 1, h)
  <2>1. PICK j \in 1..Len(r) : r[j] = Data(i - 1, t[i][1])
    BY <1>4 DEF ComeFrom
  <2>2. t[i][1] = h
    BY ONLY <1>2, i \in 1..p
  <2>3. QED
    BY <1>5, <2>1, <2>2
<1>7. QED
  BY <1>1, <1>4, <1>6 DEF AllCome

LEMMA PieceStep ==
    ASSUME WireIInv, Piece
    PROVE  WireIInv' /\ PipeStep
<1>1. Progress /\ Collected /\ Bounds
  BY DEF WireIInv, AppInv
<1>2. PICK t : t = Append(torrent, <<message[3], message[2]>>)
  OBVIOUS
<1>3. /\ pc[me] = "message" /\ phase = "pieces" /\ message[1] = "ut data" /\ message[2] = Len(torrent)
      /\ torrent' = t /\ phase' = phase /\ total' = total
      /\ wrote[me] = Greeting \o Requests(Len(torrent) + 1) /\ Len(torrent) < total
  BY <1>1, <1>2 DEF Piece, CanRead, IsNextPiece, Progress
<1>4. PICK k \in Nat : k = Len(torrent)
  <2>1. PICK q \in Seq(Hashes \X Nat) : q = torrent
    BY <1>1 DEF Collected
  <2>2. QED
    BY <2>1
<1>5. message \in Messages
  <2>1. Open /\ Len(buf[me]) >= 1
    BY <1>3 DEF Piece, ReadMessage, Take, Need
  <2>2. QED
    BY <1>3, <2>1, NextIsMessage
<1>6. Len(t) = k + 1
  <2>1. PICK h \in Hashes, i \in Nat : message[3] = h /\ message[2] = i
    BY <1>3, <1>4, <1>5, MessageKinds
  <2>2. PICK q \in Seq(Hashes \X Nat), e \in Hashes \X Nat : q = torrent /\ e = <<h, i>>
    BY <1>1 DEF Collected
  <2>3. Len(Append(q, e)) = Len(q) + 1
    OBVIOUS
  <2>4. QED
    BY <1>2, <1>4, <2>1, <2>2, <2>3
<1>7. PICK n \in Nat : n = total /\ n \in 0..Pieces
  BY <1>1, PeerWireAssumption DEF Bounds
<1>8. k + 1 \in Nat /\ k + 1 <= n
  <2>1. k < n
    BY <1>3, <1>4, <1>7
  <2>2. QED
    BY ONLY <2>1, k \in Nat, n \in Nat
<1>9. ASSUME NEW s, NEW to, Reads(s, to), target' = target, sent' = sent
      PROVE  Collected' /\ Bounds' /\ Len(read'[peer]) >= 2 /\ me' = me /\ peer' = peer
             /\ pc'[me] = to /\ wrote'[me] = wrote[me] \o s /\ Greeting' = Greeting
  <2>1. Collected'
    BY <1>1, <1>2, <1>3, <1>9, PieceTaken
  <2>2. Bounds'
    BY <1>1, <1>3, <1>6, <1>7, <1>8, <1>9 DEF Bounds
  <2>3. Len(read'[peer]) >= 2
    BY <1>1, <1>3, <1>9, HandshakeRead
  <2>4. me' = me /\ pc'[me] = to /\ wrote'[me] = wrote[me] \o s
    BY <1>9 DEF Reads
  <2>5. QED
    BY <2>1, <2>2, <2>3, <2>4, SameGreeting
<1>10. Requests(Len(torrent) + 1)' = Requests(k + 1 + 1)
  BY <1>3, <1>6 DEF Requests, Request
<1>11. CASE ~Complete(t)
  <2>1. ReadMessage("message") /\ WriteMessage(me, Request(k + 1))
    BY <1>2, <1>6, <1>11 DEF Piece
  <2>2. <<Request(k + 1)>> \in Seq(Content)
    BY <1>8, Greetings
  <2>3. /\ StreamInv' /\ PipeStep /\ Reads(<<Request(k + 1)>>, "message") /\ PeerSpoke'
        /\ target' = target /\ sent' = sent
    BY <2>1, <2>2, WrittenMessage
  <2>4. /\ Collected' /\ Bounds' /\ Len(read'[peer]) >= 2 /\ me' = me /\ peer' = peer /\ pc'[me] = "message"
        /\ wrote'[me] = wrote[me] \o <<Request(k + 1)>> /\ Greeting' = Greeting
    BY <1>9, <2>3
  <2>5. wrote[me] \o <<Request(k + 1)>> = Greeting \o Requests(k + 1 + 1)
    BY <1>3, <1>4, <1>8, AsksOn
  <2>6. Len(torrent') < total'
    <3>1. k + 1 # n
      BY <1>6, <1>7, <1>11 DEF Complete
    <3>2. k + 1 < n
      BY ONLY <1>8, <3>1, n \in Nat, k \in Nat
    <3>3. QED
      BY <1>3, <1>6, <1>7, <3>2
  <2>7. Progress'
    BY <1>3, <1>10, <2>4, <2>5, <2>6 DEF Progress, Shaking
  <2>8. Downloaded'
    BY <2>4 DEF Downloaded
  <2>9. QED
    BY <2>3, <2>4, <2>7, <2>8 DEF WireIInv, AppInv
<1>12. CASE Complete(t)
  <2>1. PICK to : /\ to = (IF Matches(t) THEN "done" ELSE "failed")
                  /\ ReadMessage(to) /\ Silent
    BY <1>2, <1>12 DEF Piece
  <2>2. /\ StreamInv' /\ PipeStep /\ Reads(<< >>, to) /\ PeerSpoke' /\ target' = target /\ sent' = sent
        /\ wrote' = wrote
    BY <2>1, SilentMessage DEF Ended
  <2>3. /\ Collected' /\ Bounds' /\ Len(read'[peer]) >= 2 /\ me' = me /\ peer' = peer /\ pc'[me] = to
        /\ Greeting' = Greeting
    BY <1>9, <2>2
  <2>4. Progress'
    BY <1>3, <2>1, <2>3 DEF Progress, Shaking
  <2>5. CASE ~Matches(t)
    <3>1. Downloaded'
      BY <2>1, <2>3, <2>5 DEF Downloaded
    <3>2. QED
      BY <2>2, <2>3, <2>4, <3>1 DEF WireIInv, AppInv
  <2>6. CASE Matches(t)
    <3>1. torrent' = [i \in 1..Pieces |-> <<target', i - 1>>]
      BY <1>3, <2>2, <2>6 DEF Matches
    <3>2. Types'
      BY <2>2 DEF StreamInv
    <3>3. /\ Len(torrent') = Pieces
          /\ \A i \in 1..Pieces : \E j \in DOMAIN read'[peer'] : read'[peer'][j] = (Data(i - 1, target))'
      <4>1. PICK r, q, h : r = read'[peer'] /\ q = torrent' /\ h = target'
        OBVIOUS
      <4>2. r \in Seq(Content)
        BY <1>1, <2>3, <3>2, <4>1, PeerIsOther DEF Types, WireIInv, StreamInv
      <4>3. q \in Seq(Hashes \X Nat) /\ ComeFrom(q, r)
        BY <2>3, <4>1 DEF Collected, ComeFrom, Data
      <4>4. q = Metadata(h)
        BY <3>1, <4>1 DEF Metadata
      <4>5. Len(q) = Pieces /\ AllCome(r, h)
        BY ONLY <4>2, <4>3, <4>4, MetadataRead
      <4>6. QED
        BY <4>1, <4>5 DEF AllCome, Data
    <3>4. Pieces = k + 1
      BY <1>3, <1>6, <3>3
    <3>5. wrote'[me'] = Greeting \o Requests(Pieces)
      BY <1>3, <1>4, <2>2, <2>3, <3>4
    <3>6. Requests(Pieces)' = Requests(Pieces)
      BY DEF Requests, Request
    <3>7. Downloaded'
      BY <2>3, <3>1, <3>3, <3>5, <3>6 DEF Downloaded
    <3>8. QED
      BY <2>2, <2>3, <2>4, <3>7 DEF WireIInv, AppInv
  <2>7. QED
    BY <2>5, <2>6
<1>13. QED
  BY <1>11, <1>12

-----------------------------------------------------------------------------
(* The other steps *)

LEMMA PeerSilent ==
    ASSUME PeerSpoke, me' = me, wrote'[peer] = wrote[peer], pc'[peer] = pc[peer]
    PROVE  PeerSpoke'
<1>1. peer' = peer /\ Messages' = Messages
  BY DEF peer, Messages, ExtHandshake, Data
<1>2. QED
  BY <1>1 DEF PeerSpoke

\* Nothing that this end has done is touched.
MineKept ==
    /\ me' = me /\ pc'[me] = pc[me] /\ wrote'[me] = wrote[me] /\ read'[peer] = read[peer]
    /\ UNCHANGED <<phase, target, total, torrent>>

LEMMA MineStays ==
    ASSUME Progress, Collected, Downloaded, MineKept
    PROVE  Progress' /\ Collected' /\ Downloaded'
<1>1. peer' = peer /\ Greeting' = Greeting /\ Hello' = Hello
  BY SameGreeting DEF MineKept, Hello, HandshakeOf
<1>2. Requests(Pieces)' = Requests(Pieces) /\ Requests(Len(torrent) + 1)' = Requests(Len(torrent) + 1)
  BY DEF Requests, Request, MineKept
<1>3. Progress'
  BY <1>1, <1>2 DEF Progress, MineKept
<1>4. Collected'
  BY <1>1 DEF Collected, MineKept, Data
<1>5. Downloaded'
  BY <1>1, <1>2 DEF Downloaded, MineKept, Data
<1>6. QED
  BY <1>3, <1>4, <1>5

LEMMA TurnMoves ==
    ASSUME WireIInv, NEW x \in Ends, NEW n \in Nat, NEW s \in Seq(Content), NEW to, Turn(x, n, s, to)
    PROVE  StreamInv' /\ PipeStep /\ Told(x, n, s, to)
<1>1. StreamInv
  BY DEF WireIInv
<1>2. StreamInv'
  BY <1>1, TurnStep
<1>3. PipeStep
  BY <1>1, TurnIsPipe DEF PipeStep
<1>4. Told(x, n, s, to)
  BY <1>1, TurnTold
<1>5. QED
  BY <1>2, <1>3, <1>4

LEMMA HandshakeStep ==
    ASSUME WireIInv, Handshake
    PROVE  WireIInv' /\ PipeStep
<1>1. Types /\ Progress /\ Collected /\ Bounds /\ PeerSpoke /\ StreamInv /\ me \in Ends
  BY DEF WireIInv, AppInv, StreamInv, Types
<1>2. PICK s \in Seq(Content) : s = Hello /\ Turn(me, 0, s, "shake")
  BY <1>1, HandshakeTurn
<1>3. PICK x \in Ends, n \in Nat : x = me /\ n = 0
  BY <1>1
<1>4. StreamInv' /\ PipeStep /\ Told(x, n, s, "shake")
  <2>1. Turn(x, n, s, "shake")
    BY <1>2, <1>3
  <2>2. PICK to : to = "shake"
    OBVIOUS
  <2>3. QED
    BY <2>1, <2>2, TurnMoves
<1>5. pc[me] = "up" /\ read' = read /\ sent' = sent /\ UNCHANGED <<phase, target, total, torrent>>
  BY DEF Handshake, Take, Untouched
<1>6. wrote'[me] = wrote[me] \o s /\ wrote'[peer] = wrote[peer] /\ pc'[me] = "shake" /\ pc'[peer] = pc[peer] /\ me' = me
  BY <1>1, <1>3, <1>4, PeerIsOther DEF Told
<1>7. wrote'[me] = Hello
  <2>1. wrote[me] = << >>
    BY <1>1, <1>5 DEF Progress
  <2>2. << >> \o s = s
    BY ONLY s \in Seq(Content), ConcatEmptySeq
  <2>3. QED
    BY <1>2, <1>6, <2>1, <2>2
<1>8. peer' = peer /\ Hello' = Hello
  BY <1>6 DEF peer, Hello, HandshakeOf
<1>9. Progress'
  BY <1>1, <1>5, <1>6, <1>7, <1>8 DEF Progress, Shaking
<1>10. Collected' /\ Bounds'
  BY <1>1, <1>5, <1>8 DEF Collected, Bounds, Data
<1>11. Downloaded'
  BY <1>6 DEF Downloaded
<1>12. PeerSpoke'
  BY <1>1, <1>6, PeerSilent
<1>13. QED
  BY <1>4, <1>9, <1>10, <1>11, <1>12 DEF WireIInv, AppInv

LEMMA TimeOutStep ==
    ASSUME WireIInv, TimeOut
    PROVE  WireIInv' /\ PipeStep
<1>1. Types /\ NeverRefused /\ Faithful /\ Progress /\ Collected /\ Bounds /\ PeerSpoke /\ me \in Ends
      /\ peer \in Ends /\ peer # me
  BY PeerIsOther DEF WireIInv, AppInv, StreamInv
<1>2. /\ UNCHANGED <<mode, offer, lru, chan, part, cipher, hash, pads, me, sent>>
      /\ UNCHANGED <<buf, out, enc, dec, wrote, read, phase, target, total, torrent>>
      /\ pc' = [pc EXCEPT ![me] = "timeout"]
  BY DEF TimeOut, Untouched
<1>3. DOMAIN pc' = Ends /\ pc'[me] = "timeout" /\ pc'[peer] = pc[peer] /\ \A z \in Ends : z = me \/ pc'[z] = pc[z]
  BY <1>1, <1>2 DEF Types
<1>4. Types' /\ Faithful' /\ NeverRefused'
  <2>1. Types'
    BY <1>1, <1>2, <1>3 DEF Types
  <2>2. Faithful'
    BY <1>1, <1>2 DEF Faithful
  <2>3. NeverRefused'
    BY <1>1, <1>2, <1>3 DEF NeverRefused
  <2>4. QED
    BY <2>1, <2>2, <2>3
<1>5. ~Open'
  BY <1>1, <1>3, NobodyOpen DEF Gone
<1>6. peer' = peer
  BY <1>2 DEF peer
<1>7. Progress'
  BY <1>1, <1>2, <1>3, <1>6 DEF Progress, Shaking
<1>8. Collected' /\ Bounds'
  BY <1>1, <1>2, <1>6 DEF Collected, Bounds, Data
<1>9. Downloaded'
  BY <1>2, <1>3 DEF Downloaded
<1>10. PeerSpoke'
  BY <1>1, <1>2, <1>3, PeerSilent
<1>11. QED
  BY <1>2, <1>4, <1>5, <1>7, <1>8, <1>9, <1>10 DEF WireIInv, AppInv, StreamInv, PipeStep

LEMMA SameMessages == Messages' = Messages
BY DEF Messages, ExtHandshake, Data

(* The first two things the peer says are a handshake. *)
LEMMA HandshakeIsFirst ==
    ASSUME WireIInv, Open, pc[me] = "shake", Len(buf[me]) >= 2
    PROVE  LET h == Contents(me, 2)
           IN  /\ h \in Seq(Content) /\ Len(h) = 2 /\ h[2] \in Hashes \X BOOLEAN
<1>1. Types /\ "shake" \in Up /\ PeerSpoke /\ Progress /\ StreamInv
  BY DEF WireIInv, AppInv, StreamInv, Up
<1>2. me \in Ends /\ peer \in Ends /\ peer = Other(me)
  BY <1>1, PeerIsOther
<1>3. PICK n \in Nat : n = 2
  OBVIOUS
<1>4. n <= Len(buf[me])
  BY <1>3
<1>5. PICK r, w, q : r = read[peer] /\ w = wrote[peer] /\ q = Contents(me, n)
  OBVIOUS
<1>6. /\ q \in Seq(Content) /\ Len(q) = n /\ Len(r) + n <= Len(w)
      /\ \A i \in 1..n : q[i] = w[Len(r) + i]
  BY <1>1, <1>2, <1>4, <1>5, ReadsWritten
<1>7. r = << >> /\ w \in Seq(Content)
  BY <1>1, <1>2, <1>5 DEF Types, Progress
<1>8. PICK lw \in Nat : lw = Len(w)
  BY ONLY <1>7
<1>9. Len(r) = 0
  BY ONLY <1>7
<1>10. 2 <= lw /\ lw # 0 /\ 2 \in 1..n /\ Len(r) + 2 = 2
  BY ONLY <1>3, <1>6, <1>8, <1>9
<1>11. q[2] = w[2]
  BY ONLY <1>6, <1>10
<1>12. w # << >>
  BY <1>8, <1>10, EmptySeq
<1>13. w[2] \in Hashes \X BOOLEAN
  BY <1>1, <1>5, <1>12 DEF PeerSpoke
<1>14. QED
  BY <1>3, <1>5, <1>6, <1>11, <1>13

LEMMA ReadHandshakeStep ==
    ASSUME WireIInv, ReadHandshake
    PROVE  WireIInv' /\ PipeStep
<1>1. Types /\ Progress /\ Collected /\ Bounds /\ PeerSpoke /\ StreamInv /\ me \in Ends
  BY DEF WireIInv, AppInv, StreamInv, Types
<1>2. PICK h : h = Contents(me, 2)
  OBVIOUS
<1>3. PICK s \in Seq(Content), to \in {"message", "failed"} :
          /\ Turn(me, 2, s, to)
          /\ to = "message" => s = <<ExtHandshake(0)>> /\ target' = h[2][1]
          /\ to = "failed" => s = << >> /\ target' = target
  BY <1>1, <1>2, ReadHandshakeTurn
<1>4. PICK x \in Ends, n \in Nat : x = me /\ n = 2
  BY <1>1
<1>5. StreamInv' /\ PipeStep /\ Told(x, n, s, to)
  <2>1. Turn(x, n, s, to)
    BY <1>3, <1>4
  <2>2. QED
    BY <2>1, TurnMoves
<1>6. pc[me] = "shake" /\ sent' = sent /\ UNCHANGED <<phase, total, torrent>>
  BY DEF ReadHandshake, Take, Untouched
<1>7. h \in Seq(Content) /\ Len(h) = 2 /\ h[2] \in Hashes \X BOOLEAN
  <2>1. Open /\ Len(buf[me]) >= 2
    BY <1>6 DEF ReadHandshake, Take, Need
  <2>2. QED
    BY <1>2, <1>6, <2>1, HandshakeIsFirst
<1>8. /\ wrote'[me] = wrote[me] \o s /\ wrote'[peer] = wrote[peer] /\ pc'[me] = to /\ pc'[peer] = pc[peer]
      /\ me' = me /\ read'[peer] = read[peer] \o h
  BY <1>1, <1>2, <1>4, <1>5, PeerIsOther DEF Told
<1>9. read[peer] = << >> /\ wrote[me] = Hello /\ phase = "ext" /\ total = 0 /\ torrent = << >>
  BY <1>1, <1>6 DEF Progress
<1>10. Len(read'[peer]) >= 2
  <2>1. << >> \o h = h
    BY ONLY <1>7, ConcatEmptySeq
  <2>2. read'[peer] = h
    BY <1>8, <1>9, <2>1
  <2>3. Len(h) = 2
    BY <1>7
  <2>4. Len(read'[peer]) = 2
    BY ONLY <2>2, <2>3
  <2>5. QED
    BY ONLY <2>4
<1>11. to = "message" => wrote'[me] = Greeting
  BY <1>3, <1>8, <1>9 DEF Greeting, Hello
<1>12. peer' = peer /\ Greeting' = Greeting
  BY <1>8, SameGreeting
<1>13. Progress'
  BY <1>6, <1>8, <1>9, <1>10, <1>11, <1>12 DEF Progress, Shaking
<1>14. Collected'
  <2>1. torrent' = << >> /\ 1..Len(torrent') = {}
    BY <1>6, <1>9
  <2>2. << >> \in Seq(Hashes \X Nat)
    BY EmptySeq
  <2>3. QED
    BY <2>1, <2>2 DEF Collected
<1>15. Bounds'
  <2>1. target' \in Hashes
    BY <1>1, <1>3, <1>7 DEF Bounds
  <2>2. QED
    BY <1>1, <1>6, <2>1 DEF Bounds
<1>16. Downloaded'
  BY <1>8 DEF Downloaded
<1>17. PeerSpoke'
  BY <1>1, <1>8, PeerSilent
<1>18. QED
  BY <1>5, <1>13, <1>14, <1>15, <1>16, <1>17 DEF WireIInv, AppInv

LEMMA PeerStartStep ==
    ASSUME WireIInv, PeerStart
    PROVE  WireIInv' /\ PipeStep
<1>1. /\ Types /\ Stages /\ Progress /\ Collected /\ Bounds /\ Downloaded /\ StreamInv
      /\ peer \in Ends /\ Other(peer) = me
  BY PeerIsOther DEF WireIInv, AppInv, StreamInv, PeerStart
<1>2. PICK h \in Hashes, extensions \in BOOLEAN, s \in Seq(Content) :
          s = HandshakeOf(h, extensions) /\ Turn(peer, 0, s, "peer")
  BY <1>1, PeerStartTurn
<1>3. PICK x \in Ends, n \in Nat, to \in {"peer"} : x = peer /\ n = 0 /\ to = "peer"
  BY <1>1
<1>4. StreamInv' /\ PipeStep /\ Told(x, n, s, to)
  <2>1. Turn(x, n, s, to)
    BY <1>2, <1>3
  <2>2. QED
    BY <2>1, TurnMoves
<1>5. pc[peer] = "up" /\ read' = read /\ sent' = sent /\ UNCHANGED <<phase, target, total, torrent>>
  BY DEF PeerStart, Untouched
<1>6. /\ wrote'[peer] = wrote[peer] \o s /\ wrote'[me] = wrote[me] /\ pc'[peer] = "peer" /\ pc'[me] = pc[me]
      /\ me' = me
  BY <1>1, <1>3, <1>4 DEF Told
<1>7. Progress' /\ Collected' /\ Downloaded'
  BY <1>1, <1>5, <1>6, MineStays DEF MineKept
<1>8. wrote'[peer] = s
  <2>1. wrote[peer] = << >>
    BY <1>1, <1>5 DEF Stages
  <2>2. << >> \o s = s
    BY ONLY s \in Seq(Content), ConcatEmptySeq
  <2>3. QED
    BY <1>6, <2>1, <2>2
<1>9. Len(s) = 2 /\ s[1] = HandshakeTag /\ s[2] \in Hashes \X BOOLEAN /\ s # << >>
  BY <1>2 DEF HandshakeOf
<1>10. peer' = peer
  BY <1>6 DEF peer
<1>11. PeerSpoke'
  <2>1. 3..Len(s) = {} /\ Len(s) >= 2
    BY ONLY <1>9
  <2>2. QED
    BY <1>8, <1>9, <1>10, <2>1 DEF PeerSpoke
<1>12. Bounds'
  BY <1>1, <1>5 DEF Bounds
<1>13. QED
  BY <1>4, <1>7, <1>11, <1>12 DEF WireIInv, AppInv

LEMMA PeerSendsStep ==
    ASSUME WireIInv, PeerSends
    PROVE  WireIInv' /\ PipeStep
<1>1. /\ Types /\ PeerSpoke /\ Progress /\ Collected /\ Bounds /\ Downloaded /\ StreamInv
      /\ peer \in Ends /\ Other(peer) = me
  BY PeerIsOther DEF WireIInv, AppInv, StreamInv
<1>2. PICK m \in Messages, s \in Seq(Content) : s = <<m>> /\ Turn(peer, 0, s, "peer")
  BY <1>1, PeerSendsTurn
<1>3. PICK x \in Ends, n \in Nat, to \in {"peer"} : x = peer /\ n = 0 /\ to = "peer"
  BY <1>1
<1>4. StreamInv' /\ PipeStep /\ Told(x, n, s, to)
  <2>1. Turn(x, n, s, to)
    BY <1>2, <1>3
  <2>2. QED
    BY <2>1, TurnMoves
<1>5. pc[peer] = "peer" /\ pc' = pc /\ read' = read /\ UNCHANGED <<phase, target, total, torrent>>
      /\ sent' = sent + 1 /\ (sent < MaxSentPe \/ sent < MaxSent)
  BY DEF PeerSends
<1>6. wrote'[peer] = wrote[peer] \o s /\ wrote'[me] = wrote[me] /\ pc'[peer] = "peer" /\ me' = me
  BY <1>1, <1>3, <1>4 DEF Told
<1>7. Progress' /\ Collected' /\ Downloaded'
  BY <1>1, <1>5, <1>6, MineStays DEF MineKept
<1>8. Bounds'
  <2>1. PICK a \in Nat, b \in Nat, c \in Nat : a = MaxSent /\ b = MaxSentPe /\ c = sent /\ b <= a
    BY <1>1, PeerWireAssumption DEF Bounds
  <2>2. c + 1 \in 0..a
    BY <1>5, <2>1
  <2>3. sent' \in 0..MaxSent
    BY <1>5, <2>1, <2>2
  <2>4. QED
    BY <1>1, <1>5, <2>3 DEF Bounds
<1>9. peer' = peer /\ Messages' = Messages
  <2>1. peer' = peer
    BY <1>6 DEF peer
  <2>2. Messages' = Messages
    BY SameMessages
  <2>3. QED
    BY <2>1, <2>2
<1>10. PICK w, v : w = wrote[peer] /\ v = w \o s
  OBVIOUS
<1>11. /\ w \in Seq(Content) /\ w # << >> /\ Len(w) >= 2 /\ w[1] = HandshakeTag
       /\ w[2] \in Hashes \X BOOLEAN /\ \A i \in 3..Len(w) : w[i] \in Messages
  BY <1>1, <1>5, <1>10 DEF PeerSpoke, Types
<1>12. /\ v \in Seq(Content) /\ Len(v) = Len(w) + Len(s)
       /\ \A i \in 1..(Len(w) + Len(s)) : v[i] = IF i <= Len(w) THEN w[i] ELSE s[i - Len(w)]
  <2>1. /\ w \o s \in Seq(Content) /\ Len(w \o s) = Len(w) + Len(s)
        /\ \A i \in 1..(Len(w) + Len(s)) : (w \o s)[i] = IF i <= Len(w) THEN w[i] ELSE s[i - Len(w)]
    BY ONLY <1>11, s \in Seq(Content), ConcatProperties
  <2>2. QED
    BY <1>10, <2>1
<1>13. PICK l \in Nat : l = Len(w) /\ l >= 2
  BY ONLY <1>11
<1>14. Len(s) = 1 /\ s[1] = m
  BY <1>2
<1>15. Len(v) = l + 1 /\ \A i \in 1..(l + 1) : v[i] = IF i <= l THEN w[i] ELSE s[i - l]
  BY <1>12, <1>13, <1>14
<1>16. /\ 1 \in 1..(l + 1) /\ 2 \in 1..(l + 1) /\ 1 <= l /\ 2 <= l /\ l + 1 >= 2
  BY ONLY <1>13
<1>17. v[1] = w[1] /\ v[2] = w[2]
  BY ONLY <1>15, <1>16
<1>18. ASSUME NEW i \in 3..(l + 1)
       PROVE  v[i] \in Messages
  <2>1. i \in 1..(l + 1)
    BY ONLY l \in Nat, i \in 3..(l + 1)
  <2>2. CASE i <= l
    <3>1. i \in 3..l
      BY ONLY l \in Nat, i \in 3..(l + 1), <2>2
    <3>2. QED
      BY <1>11, <1>13, <1>15, <2>1, <2>2, <3>1
  <2>3. CASE ~(i <= l)
    <3>1. i - l = 1
      BY ONLY l \in Nat, i \in 3..(l + 1), <2>3
    <3>2. v[i] = s[i - l]
      BY <1>15, <2>1, <2>3
    <3>3. QED
      BY <1>14, <3>1, <3>2
  <2>4. QED
    BY <2>2, <2>3
<1>19. wrote'[peer'] = v /\ pc'[peer'] = "peer" /\ v # << >>
  <2>1. v # << >>
    BY <1>15, <1>16, EmptySeq
  <2>2. QED
    BY <1>6, <1>9, <1>10, <2>1
<1>20. PeerSpoke'
  BY <1>9, <1>11, <1>15, <1>16, <1>17, <1>18, <1>19 DEF PeerSpoke
<1>21. QED
  BY <1>4, <1>7, <1>8, <1>20 DEF WireIInv, AppInv

LEMMA PeerReadsStep ==
    ASSUME WireIInv, PeerReads
    PROVE  WireIInv' /\ PipeStep
<1>1. /\ Types /\ PeerSpoke /\ Progress /\ Collected /\ Bounds /\ Downloaded /\ StreamInv
      /\ peer \in Ends /\ Other(peer) = me
  BY PeerIsOther DEF WireIInv, AppInv, StreamInv
<1>2. PICK n \in Nat, s \in Seq(Content) : s = << >> /\ Turn(peer, n, s, "peer")
  BY <1>1, PeerReadsTurn
<1>3. PICK x \in Ends, to \in {"peer"} : x = peer /\ to = "peer"
  BY <1>1
<1>4. StreamInv' /\ PipeStep /\ Told(x, n, s, to)
  <2>1. Turn(x, n, s, to)
    BY <1>2, <1>3
  <2>2. QED
    BY <2>1, TurnMoves
<1>5. pc[peer] = "peer" /\ wrote' = wrote /\ sent' = sent /\ UNCHANGED <<phase, target, total, torrent>>
  BY DEF PeerReads, Take, Untouched, Silent
<1>6. read'[peer] = read[peer] /\ pc'[peer] = "peer" /\ pc'[me] = pc[me] /\ me' = me
  BY <1>1, <1>3, <1>4 DEF Told
<1>7. Progress' /\ Collected' /\ Downloaded'
  BY <1>1, <1>5, <1>6, MineStays DEF MineKept
<1>8. PeerSpoke' /\ Bounds'
  BY <1>1, <1>5, <1>6, PeerSilent DEF Bounds
<1>9. QED
  BY <1>4, <1>7, <1>8 DEF WireIInv, AppInv

-----------------------------------------------------------------------------
(* Protocol encryption *)

\* A handshake goes on or ends, or the other end has gone.
ShakesOn(x) ==
    \/ pc'[x] = pc[x] \/ pc'[x] = "closed"
    \/ pc[x] \in Shaking /\ pc'[x] \in Shaking \cup {"up", "refused"}

LEMMA TakeShakesOn ==
    ASSUME Types, NEW x \in Ends, NEW to \in Shaking \cup {"up", "refused"},
           pc[x] \in Shaking, pc' = [pc EXCEPT ![x] = to]
    PROVE  \A y \in Ends : ShakesOn(y)
BY DEF Types, ShakesOn

LEMMA HandshakesGoOn ==
    ASSUME Types, PeNext
    PROVE  (\A x \in Ends : ShakesOn(x)) /\ wrote' = wrote /\ read' = read
<1>1. CASE \E x \in Ends : Send(x) \/ Fill(x)
  BY <1>1 DEF Send, Fill, ShakesOn
<1>2. CASE \E x \in Ends : Broken(x)
  BY <1>2 DEF Broken, ShakesOn, Types
<1>3. CASE ClientStart
  BY <1>3, EndNames, TakeShakesOn DEF ClientStart, Take, Shaking
<1>4. CASE ClientKey
  BY <1>4, EndNames, TakeShakesOn DEF ClientKey, Take, Shaking
<1>5. CASE ClientSync
  BY <1>5, EndNames, TakeShakesOn DEF ClientSync, SyncFor, Shaking
<1>6. CASE ClientHeader
  BY <1>6, EndNames, TakeShakesOn DEF ClientHeader, Take, Shaking
<1>7. CASE ClientPad
  BY <1>7, EndNames, TakeShakesOn DEF ClientPad, Take, Shaking
<1>8. CASE ServerFirst
  BY <1>8, EndNames, TakeShakesOn DEF ServerFirst, Take, Shaking
<1>9. CASE ServerKey
  BY <1>9, EndNames, TakeShakesOn DEF ServerKey, Take, Shaking
<1>10. CASE ServerSync
  BY <1>10, EndNames, TakeShakesOn DEF ServerSync, SyncFor, Shaking
<1>11. CASE ServerHash
  BY <1>11, EndNames, TakeShakesOn DEF ServerHash, Take, Shaking
<1>12. CASE ServerHeader
  BY <1>12, EndNames, TakeShakesOn DEF ServerHeader, Take, Shaking
<1>13. CASE ServerPad
  BY <1>13, EndNames, TakeShakesOn DEF ServerPad, Take, Shaking
<1>14. QED
  BY <1>1, <1>2, <1>3, <1>4, <1>5, <1>6, <1>7, <1>8, <1>9, <1>10, <1>11, <1>12, <1>13 DEF PeNext

LEMMA ProtectStep ==
    ASSUME WireIInv, Protect
    PROVE  WireIInv' /\ PipeStep
<1>1. /\ Types /\ PeerSpoke /\ Progress /\ Collected /\ Bounds /\ Downloaded /\ StreamInv
      /\ me \in Ends /\ peer \in Ends
  BY PeerIsOther DEF WireIInv, AppInv, StreamInv
<1>2. PeNext /\ me' = me /\ UNCHANGED <<phase, target, total, torrent, sent>>
  BY DEF Protect, wvars
<1>3. ShakesOn(me) /\ ShakesOn(peer) /\ wrote' = wrote /\ read' = read
  BY <1>1, <1>2, HandshakesGoOn
<1>4. StreamInv'
  <2>1. CASE \E x \in Ends : Send(x) \/ Fill(x) \/ Broken(x)
    BY <1>1, <1>2, <2>1, SendStep, FillStep, BrokenStep
  <2>2. CASE ClientStart \/ ClientKey \/ ClientSync \/ ClientHeader \/ ClientPad
    BY <1>1, <1>2, <2>2, ClientStartStep, ClientKeyStep, ClientSyncStep, ClientHeaderStep, ClientPadStep
  <2>3. CASE ServerFirst \/ ServerKey \/ ServerSync \/ ServerHash \/ ServerHeader \/ ServerPad
    BY <1>1, <1>2, <2>3, ServerFirstStep, ServerKeyStep, ServerSyncStep, ServerHashStep,
       ServerHeaderStep, ServerPadStep
  <2>4. QED
    BY <1>2, <2>1, <2>2, <2>3 DEF PeNext
<1>5. peer' = peer /\ Greeting' = Greeting /\ Hello' = Hello /\ Messages' = Messages
  BY <1>2, SameGreeting, SameMessages DEF peer, Hello, HandshakeOf
<1>6. Requests(Len(torrent) + 1)' = Requests(Len(torrent) + 1)
  BY <1>2 DEF Requests, Request
<1>7. Progress'
  <2>1. CASE pc'[me] = pc[me]
    BY <1>1, <1>2, <1>3, <1>5, <1>6, <2>1 DEF Progress
  <2>2. CASE pc'[me] = "closed"
    BY <1>1, <1>2, <1>5, <2>2 DEF Progress, Shaking
  <2>3. CASE pc[me] \in Shaking /\ pc'[me] \in Shaking \cup {"up", "refused"}
    BY <1>1, <1>2, <1>3, <1>5, <2>3 DEF Progress, Shaking
  <2>4. QED
    BY <1>3, <2>1, <2>2, <2>3 DEF ShakesOn
<1>8. Collected' /\ Bounds'
  BY <1>1, <1>2, <1>3, <1>5 DEF Collected, Bounds, Data
<1>9. Downloaded'
  <2>1. CASE pc'[me] = pc[me]
    <3>1. MineKept
      BY <1>2, <1>3, <2>1 DEF MineKept
    <3>2. QED
      BY <1>1, <3>1, MineStays
  <2>2. CASE pc'[me] # pc[me]
    BY <1>2, <1>3, <2>2 DEF ShakesOn, Shaking, Downloaded
  <2>3. QED
    BY <2>1, <2>2
<1>10. PeerSpoke'
  <2>1. pc'[peer] = "peer" => pc[peer] = "peer"
    BY <1>3 DEF ShakesOn, Shaking
  <2>2. QED
    BY <1>1, <1>3, <1>5, <2>1 DEF PeerSpoke
<1>11. QED
  BY <1>3, <1>4, <1>7, <1>8, <1>9, <1>10 DEF WireIInv, AppInv, PipeStep

-----------------------------------------------------------------------------
(* The theorems *)

LEMMA Stutters ==
    ASSUME WireIInv, UNCHANGED vars
    PROVE  WireIInv' /\ PipeStep
<1>1. /\ Types /\ NeverRefused /\ Faithful /\ StreamInv
      /\ PeerSpoke /\ Progress /\ Collected /\ Bounds /\ Downloaded
  BY DEF WireIInv, AppInv, StreamInv
<1>2. /\ UNCHANGED <<mode, offer, lru, pc, out, chan, buf, part, enc, dec, cipher, hash, pads, wrote, read>>
      /\ UNCHANGED <<me, phase, target, total, torrent, sent>>
  BY DEF vars, pevars, pvars, wvars
<1>3. Types'
  BY <1>1, <1>2 DEF Types
<1>4. NeverRefused' /\ Faithful'
  BY <1>1, <1>2 DEF NeverRefused, Faithful
<1>5. ASSUME Open'
      PROVE  Stages' /\ ToServer' /\ ToClient' /\ Talks'
  <2>1. Open
    BY <1>2, <1>5 DEF Open, Gone
  <2>2. Stages /\ ToServer /\ ToClient /\ Talks
    BY <1>1, <2>1 DEF StreamInv
  <2>3. \A y \in Ends : SentSame(y) /\ Line(y)' = Line(y)
    BY <1>2 DEF SentSame, Line
  <2>4. ToServer'
    BY <1>1, <1>2, <2>2, <2>3, EndNames, ToServerKept
  <2>5. ToClient'
    BY <1>1, <1>2, <2>2, <2>3, EndNames, ToClientKept
  <2>6. Talks'
    <3>1. ASSUME NEW y \in Ends, pc'[y] \in Up
          PROVE  Talk(y)'
      <4>1. Talk(y)
        BY <1>2, <2>2, <3>1 DEF Talks
      <4>2. Other(y) \in Ends
        BY TwoEnds
      <4>3. QED
        BY <1>1, <1>2, <2>3, <4>1, <4>2, TalkKept
    <3>2. QED
      BY <3>1 DEF Talks
  <2>7. Stages'
    BY <1>2, <2>2 DEF Stages, Pairs
  <2>8. QED
    BY <2>4, <2>5, <2>6, <2>7
<1>6. StreamInv'
  BY <1>3, <1>4, <1>5 DEF StreamInv
<1>7. PeerSpoke'
  BY <1>1, <1>2, PeerSilent
<1>8. Progress' /\ Collected' /\ Downloaded'
  <2>1. MineKept
    BY <1>2 DEF MineKept
  <2>2. QED
    BY <1>1, <2>1, MineStays
<1>9. Bounds'
  BY <1>1, <1>2 DEF Bounds
<1>10. QED
  BY <1>2, <1>6, <1>7, <1>8, <1>9 DEF WireIInv, AppInv, PipeStep

LEMMA Starts ==
    ASSUME Init
    PROVE  WireIInv /\ ReadsWhatWasWritten!Init
<1>1. PeInit /\ me \in Ends /\ phase = "ext" /\ target = Wanted /\ total = 0 /\ torrent = << >> /\ sent = 0
  BY DEF Init
<1>2. PICK empty : empty = << >> /\ empty \in Seq(Token) /\ empty \in Seq(Content) /\ Len(empty) = 0
                   /\ empty \in Seq(Hashes \X Nat)
  BY EmptySeq
<1>3. /\ mode \in {"pe", "plain"} /\ offer \in 1..3 /\ lru \subseteq Hashes
      /\ pc = [x \in Ends |-> IF x = "client" THEN "start" ELSE "first"]
      /\ out = [x \in Ends |-> empty] /\ chan = [x \in Ends |-> empty]
      /\ buf = [x \in Ends |-> empty] /\ part = [x \in Ends |-> empty]
      /\ enc = [x \in Ends |-> 0] /\ dec = [x \in Ends |-> 0]
      /\ cipher = [x \in Ends |-> "none"] /\ hash = [x \in Ends |-> NoHash] /\ pads = [x \in Ends |-> 0]
      /\ wrote = [x \in Ends |-> empty] /\ read = [x \in Ends |-> empty]
  BY <1>1, <1>2 DEF PeInit
<1>4. 0 <= Capacity /\ 0 <= MaxPad + 1
  BY PeStreamAssumption
<1>5. Types
  BY <1>1, <1>2, <1>3, <1>4 DEF Types
<1>6. pc["client"] = "start" /\ pc["server"] = "first"
  BY <1>3, EndNames
<1>7. NeverRefused
  BY <1>3 DEF NeverRefused
<1>8. Faithful
  BY <1>2, <1>3 DEF Faithful
<1>9. \A x \in Ends : Len(Line(x)) = 0
  <2>1. ASSUME NEW x \in Ends
        PROVE  Len(Line(x)) = 0
    <3>1. Len(Line(x)) = Len(part[x]) + Len(buf[x]) + Len(chan[x]) + Len(out[Other(x)])
      BY <1>5, LinesAreTokens
    <3>2. Len(part[x]) = 0 /\ Len(buf[x]) = 0 /\ Len(chan[x]) = 0 /\ Len(out[Other(x)]) = 0
      BY <1>2, <1>3, TwoEnds
    <3>3. QED
      BY <3>1, <3>2
  <2>2. QED
    BY <2>1
<1>10. Stages
  <2>1. <<pc["client"], pc["server"]>> \in Pairs
    BY <1>6 DEF Pairs
  <2>2. \A x \in Ends : /\ wrote[x] = << >> /\ read[Other(x)] = << >>
                        /\ part[x] = << >> /\ out[x] = << >> /\ dec[x] = 0 /\ cipher[x] = "none"
    BY <1>2, <1>3, TwoEnds
  <2>3. QED
    BY <1>6, <2>1, <2>2, EndNames DEF Stages, Up, Answered
<1>11. ToServer
  BY <1>6, <1>9, EndNames DEF ToServer, KeyComes, RestOfKeyComes, MarkComes, HashComes, HeaderComes, PadComes
<1>12. ToClient
  BY <1>6, <1>9, EndNames DEF ToClient, AnswerComes, VcComes, ChoiceComes, LastPadComes
<1>13. Talks
  BY <1>6, EndNames DEF Talks, Up
<1>14. StreamInv
  BY <1>5, <1>7, <1>8, <1>10, <1>11, <1>12, <1>13 DEF StreamInv
<1>15. \A x \in Ends : pc[x] \in {"start", "first"} /\ wrote[x] = << >> /\ read[x] = << >>
  BY <1>2, <1>3
<1>16. peer \in Ends
  BY <1>1, TwoEnds DEF peer
<1>17. PeerSpoke
  BY <1>15, <1>16 DEF PeerSpoke
<1>18. Progress
  BY <1>1, <1>15, <1>16 DEF Progress, Shaking
<1>19. Collected
  <2>1. 1..Len(torrent) = {}
    BY <1>1
  <2>2. QED
    BY <1>1, <1>2, <2>1 DEF Collected
<1>20. Bounds
  <2>1. 0 \in 0..Pieces /\ 0 \in 0..MaxSent
    BY PeerWireAssumption
  <2>2. QED
    BY <1>1, <1>2, <2>1, PeStreamAssumption DEF Bounds
<1>21. Downloaded
  BY <1>1, <1>15 DEF Downloaded
<1>22. ReadsWhatWasWritten!Init
  BY <1>2, <1>3 DEF ReadsWhatWasWritten!Init
<1>23. QED
  BY <1>14, <1>17, <1>18, <1>19, <1>20, <1>21, <1>22 DEF WireIInv, AppInv

LEMMA Steps ==
    ASSUME WireIInv, [Next]_vars
    PROVE  WireIInv' /\ PipeStep
<1>1. CASE Protect
  BY <1>1, ProtectStep
<1>2. CASE Handshake
  BY <1>2, HandshakeStep
<1>3. CASE ReadHandshake
  BY <1>3, ReadHandshakeStep
<1>4. CASE Skip
  BY <1>4, SkipStep
<1>5. CASE ExtensionsKnown
  BY <1>5, ExtensionsKnownStep
<1>6. CASE Piece
  BY <1>6, PieceStep
<1>7. CASE Panic
  BY <1>7, PanicStep
<1>8. CASE Refuse
  BY <1>8, RefuseStep
<1>9. CASE TimeOut
  BY <1>9, TimeOutStep
<1>10. CASE PeerStart
  BY <1>10, PeerStartStep
<1>11. CASE PeerSends
  BY <1>11, PeerSendsStep
<1>12. CASE PeerReads
  BY <1>12, PeerReadsStep
<1>13. CASE UNCHANGED vars
  BY <1>13, Stutters
<1>14. QED
  BY <1>1, <1>2, <1>3, <1>4, <1>5, <1>6, <1>7, <1>8, <1>9, <1>10, <1>11, <1>12, <1>13 DEF Next

\* Who is on either end after the handshake has the same cipher.
LEMMA CiphersAgree ==
    ASSUME StreamInv
    PROVE  Agreed
<1>1. SUFFICES ASSUME \A x \in Ends : pc[x] \notin Shaking /\ ~Gone(x)
               PROVE  /\ cipher["client"] = cipher["server"]
                      /\ mode = "pe" => hash["server"] = hash["client"] /\ cipher["client"] # "none"
  BY DEF Agreed
<1>2. Types /\ Stages
  BY <1>1 DEF StreamInv, Open
<1>3. pc["client"] \notin Shaking /\ pc["server"] \notin Shaking
  BY <1>1, EndNames
<1>4. pc["client"] \in Up /\ pc["server"] \in Up /\ pc["client"] # "start"
  <2>1. <<pc["client"], pc["server"]>> \in Pairs
    BY <1>2 DEF Stages
  <2>2. CASE mode = "plain"
    BY <1>3, <2>1, <2>2 DEF Pairs, Shaking, Up
  <2>3. CASE mode = "pe"
    BY <1>3, <2>1, <2>3 DEF Pairs, Shaking, Up, Answered
  <2>4. QED
    BY <1>2, <2>2, <2>3 DEF Types
<1>5. offer \in 1..3
  BY <1>2 DEF Types
<1>6. CipherOf(offer) # "none"
  BY <1>5, SelectedIsOffered
<1>7. QED
  BY <1>2, <1>4, <1>6 DEF Stages, Answered

\* The model's type invariant and what the ends agree on follow from the invariant.
LEMMA WireInvFollows ==
    ASSUME WireIInv
    PROVE  WireInv
<1>1. Types /\ NeverRefused /\ Agreed /\ Bounds
  BY CiphersAgree DEF WireIInv, AppInv, StreamInv
<1>2. TypeOK
  BY <1>1 DEF TypeOK, Types, Bounds
<1>3. QED
  BY <1>1, <1>2 DEF WireInv

(* What is on its way, what has been said, read and collected are in step in *)
(* every reachable state, for any padding, capacity and number of messages.  *)
THEOREM WireIInvHolds == Spec => []WireIInv
<1>1. Init => WireIInv
  BY Starts
<1>2. WireIInv /\ [Next]_vars => WireIInv'
  BY Steps
<1>3. QED
  BY <1>1, <1>2, PTL DEF Spec

(* Two ends of this code agree on cipher and hash, and only who asks for a   *)
(* hash that the server does not know is refused, however reads split the    *)
(* marks and whatever the padding looks like.                                *)
THEOREM WireInvHolds == Spec => []WireInv
<1>1. WireIInv => WireInv
  BY WireInvFollows
<1>2. QED
  BY <1>1, WireIInvHolds, PTL

(* A download that ends well has the metadata of its hash, every piece asked *)
(* for once and in order and come from the peer, whatever the peer sends.    *)
THEOREM DownloadedHolds == Spec => []Downloaded
<1>1. WireIInv => Downloaded
  BY DEF WireIInv, AppInv
<1>2. QED
  BY <1>1, WireIInvHolds, PTL

(* Through encryption, padding and reading ahead, the connection is a pipe    *)
(* each way.                                                                  *)
THEOREM ImplementsPipe == Spec => IsPipe
<1>1. Init => ReadsWhatWasWritten!Init
  BY Starts
<1>2. WireIInv /\ [Next]_vars => [ReadsWhatWasWritten!Next]_<<wrote, read>>
  BY Steps DEF PipeStep
<1>3. QED
  BY <1>1, <1>2, WireIInvHolds, PTL DEF Spec, IsPipe, ReadsWhatWasWritten!Spec
=============================================================================
