---------------------------- MODULE CryptProofs ----------------------------
(***************************************************************************)
(* Proofs about the hexadecimal text, for byte strings of any length, and  *)
(* about the calls of crypt.cpp, for any number of threads and calls, any  *)
(* keys and texts, and whichever library call fails.                       *)
(***************************************************************************)
EXTENDS CryptCalls, VectorLemmas

(* A digit is read back from its character.                                *)
LEMMA DigitsReadBack ==
  ASSUME NEW d \in 0 .. 15
  PROVE  CharToByte(HexChar(d)) = d
<1>1. CASE d < 10
  BY <1>1 DEF CharToByte, HexChar
<1>2. CASE d >= 10
  BY <1>2 DEF CharToByte, HexChar
<1> QED BY <1>1, <1>2

(* A byte is its two digits.                                               *)
LEMMA TwoDigits ==
  ASSUME NEW b \in Bytes
  PROVE  /\ b \div 16 \in 0 .. 15
         /\ b % 16 \in 0 .. 15
         /\ (16 * (b \div 16) + (b % 16)) % 256 = b
<1> DEFINE q == b \div 16
           r == b % 16
<1>1. b \in 0 .. 255
  BY DEF Bytes
<1>2. q \in 0 .. 15 /\ r \in 0 .. 15 /\ 16 * q + r = b
  BY <1>1
<1>3. b % 256 = b
  BY <1>1
<1> QED BY <1>2, <1>3

(* The text of n bytes has 2n characters, two for each byte.               *)
LEMMA TextShape ==
  ASSUME NEW bin \in Seq(Bytes)
  PROVE  LET text == BinaryToHexstring(bin)
         IN  /\ IsSeq(text) /\ Len(text) = 2 * Len(bin)
             /\ \A i \in 1 .. Len(bin) :
                  /\ CharToByte(text[2 * i - 1]) = bin[i] \div 16
                  /\ CharToByte(text[2 * i]) = bin[i] % 16
<1> DEFINE n == Len(bin)
           text == BinaryToHexstring(bin)
<1>1. n \in Nat /\ \A i \in 1 .. n : bin[i] \in Bytes
  BY LenProperties, ElementOfSeq
<1>2. text = [i \in 1 .. 2 * n |->
         HexChar(IF i % 2 = 1 THEN bin[(i + 1) \div 2] \div 16 ELSE bin[i \div 2] % 16)]
  BY DEF BinaryToHexstring
<1>3. IsSeq(text) /\ Len(text) = 2 * n
  <2>1. DOMAIN text = 1 .. 2 * n /\ text = [i \in 1 .. 2 * n |-> text[i]]
    BY <1>2
  <2>2. 2 * n \in Nat
    BY <1>1
  <2> HIDE DEF text
  <2> QED BY <2>1, <2>2, SeqOfFunction
<1> HIDE DEF text, n
<1>4. ASSUME NEW i \in 1 .. n
      PROVE  /\ CharToByte(text[2 * i - 1]) = bin[i] \div 16
             /\ CharToByte(text[2 * i]) = bin[i] % 16
  <2>1. /\ 2 * i - 1 \in 1 .. 2 * n /\ (2 * i - 1) % 2 = 1
        /\ ((2 * i - 1) + 1) \div 2 = i
        /\ 2 * i \in 1 .. 2 * n /\ (2 * i) % 2 = 0 /\ (2 * i) \div 2 = i
    BY <1>1
  <2>2. text[2 * i - 1] = HexChar(bin[i] \div 16) /\ text[2 * i] = HexChar(bin[i] % 16)
    BY <1>2, <2>1
  <2>3. bin[i] \div 16 \in 0 .. 15 /\ bin[i] % 16 \in 0 .. 15
    BY <1>1, TwoDigits
  <2> QED BY <2>2, <2>3, DigitsReadBack
<1> QED BY <1>3, <1>4 DEF n, text

(* hexstring_to_binary gives back the bytes binary_to_hexstring was given: *)
(* a signature that went through its text is the signature that was made.  *)
THEOREM HexRoundTrip ==
  ASSUME NEW bin \in Seq(Bytes)
  PROVE  HexstringToBinary(BinaryToHexstring(bin)) = bin
<1> DEFINE n == Len(bin)
           text == BinaryToHexstring(bin)
           back == HexstringToBinary(text)
<1>1. n \in Nat /\ bin \in [1 .. n -> Bytes]
  BY LenProperties
<1>2. /\ Len(text) = 2 * n
      /\ \A i \in 1 .. n : /\ CharToByte(text[2 * i - 1]) = bin[i] \div 16
                           /\ CharToByte(text[2 * i]) = bin[i] % 16
  BY TextShape
<1> HIDE DEF text, n
<1>3. Len(text) % 2 # 1 /\ Len(text) \div 2 = n
  <2>1. (2 * n) % 2 = 0 /\ (2 * n) \div 2 = n
    BY <1>1
  <2> QED BY <1>2, <2>1
<1>4. back = [i \in 1 .. n |->
                (16 * CharToByte(text[2 * i - 1]) + CharToByte(text[2 * i])) % 256]
  BY <1>3, Zenon DEF HexstringToBinary
<1>5. ASSUME NEW i \in 1 .. n PROVE back[i] = bin[i]
  <2>1. bin[i] \in Bytes
    BY <1>1
  <2>2. back[i] = (16 * (bin[i] \div 16) + (bin[i] % 16)) % 256
    BY <1>2, <1>4
  <2> QED BY <2>1, <2>2, TwoDigits
<1>6. DOMAIN back = 1 .. n /\ back = [i \in 1 .. n |-> back[i]]
  BY <1>4
<1> HIDE DEF back
<1>7. back = bin
  BY <1>1, <1>5, <1>6
<1> QED BY <1>7 DEF back, text

(* is_hexstring accepts every text of even length: char_to_byte turns its  *)
(* -1 into the byte 255, and no byte equals -1.                            *)
THEOREM EvenIsHexstring ==
  ASSUME NEW text
  PROVE  IsHexstring(text) <=> Len(text) % 2 = 0
<1>1. \A c : CharToByte(c) # -1
  <2>1. TAKE c
  <2>2. CASE c \in 48 .. 57
    BY <2>2 DEF CharToByte
  <2>3. CASE c \in 97 .. 102
    BY <2>3 DEF CharToByte
  <2>4. CASE c \in 65 .. 70
    BY <2>4 DEF CharToByte
  <2>5. CASE c \notin 48 .. 57 \cup 97 .. 102 \cup 65 .. 70
    BY <2>5 DEF CharToByte
  <2> QED BY <2>2, <2>3, <2>4, <2>5
<1> QED BY <1>1 DEF IsHexstring

(***************************************************************************)
(* The inductive invariant.                                                *)
(***************************************************************************)
IsCall(c) ==
  c = [fn |-> c.fn, at |-> c.at, key |-> c.key, text |-> c.text,
       signature |-> c.signature, holds |-> c.holds, public |-> c.public,
       result |-> c.result]

CallsTyped ==
  /\ call = [t \in Threads |-> call[t]]
  /\ made \in [Threads -> Nat]

(* Each step belongs to its function, and a call that ends is kept.        *)
CallFits(c) ==
  /\ IsCall(c)
  /\ c.at \in {"once", "init", "lookup", "hash"} => c.fn = "sha256"
  /\ c.at = "curve" => c.fn \in {"generate_private_key", "get_address", "sign", "verify"}
  /\ c.at = "generate" => c.fn = "generate_private_key"
  /\ c.at = "load private" => c.fn \in {"get_address", "sign"}
  /\ c.at = "export" => c.fn = "get_address"
  /\ c.at = "sign" => c.fn = "sign"
  /\ c.at \in {"load public", "verify"} => c.fn = "verify"
  /\ c.fn \in {"sign", "verify"} => c.key \in Keys /\ c.text \in Texts
  /\ c.fn = "verify" => c.signature \in SignatureTexts
  /\ c.at = "destroy" => Kept(c)

(* A thread past the initialisation has its digests.                       *)
Initialised ==
  /\ once \in {"new", "running", "done"}
  /\ once = "done" => digests
  /\ \A t \in Threads : At(t, "lookup") => digests

(* A call without its object, the kinds of objects with an owner, and the  *)
(* kinds a failed multiplication leaves.                                   *)
Early == {"idle", "once", "init", "lookup", "curve"}
Owned == {"EC_KEY", "EVP_MD_CTX"}
Points == {"EC_POINT", "BN_CTX"}
Sibling(o, kind) == [thread |-> o.thread, call |-> o.call, kind |-> kind]

HeapFits ==
  \A o \in heap :
    /\ o = Sibling(o, o.kind)
    /\ o.thread \in Threads
    /\ o.kind \in Owned => /\ o = call[o.thread].holds
                           /\ o.call = made[o.thread]
                           /\ call[o.thread].at \notin Early
    /\ o.kind \in Points =>
         \A kind \in Points \cup {"BIGNUM"} : Sibling(o, kind) \in heap

Held(t) ==
  call[t].at \notin Early =>
    /\ call[t].holds \in heap
    /\ call[t].holds.thread = t
    /\ call[t].holds.kind \in Owned

CryptInv ==
  /\ CallsTyped
  /\ \A t \in Threads : CallFits(call[t])
  /\ Initialised
  /\ HeapFits
  /\ \A t \in Threads : Held(t)

(***************************************************************************)
(* The texts of signatures.                                                *)
(***************************************************************************)
(* The text of a signature names its key and what was signed.              *)
LEMMA SignatureOfText ==
  ASSUME NEW key \in Keys, NEW text \in Texts, NEW der \in Ders(key, text)
  PROVE  SignatureOf(BinaryToHexstring(der)) = Sign(key, text)
<1> DEFINE signature == BinaryToHexstring(der)
           IsOf(p) == \E d \in Ders(p[1], p[2]) : signature = BinaryToHexstring(d)
           made_by == CHOOSE p \in Keys \X Texts : IsOf(p)
<1>1. \A k \in Keys, x \in Texts : \A d \in Ders(k, x) : d \in Seq(Bytes)
  BY DersAssumption
<1>2. << key, text >> \in Keys \X Texts /\ IsOf(<< key, text >>)
  OBVIOUS
<1>3. made_by \in Keys \X Texts /\ IsOf(made_by)
  <2> HIDE DEF IsOf
  <2> QED BY <1>2
<1> HIDE DEF made_by
<1>4. PICK d \in Ders(made_by[1], made_by[2]) : signature = BinaryToHexstring(d)
  BY <1>3
<1>5. d \in Seq(Bytes) /\ der \in Seq(Bytes)
  BY <1>1, <1>3
<1>6. d = der
  BY <1>4, <1>5, HexRoundTrip
<1>7. made_by[1] = key /\ made_by[2] = text
  BY <1>3, <1>6, DersAssumption
<1>8. \E k \in Keys, x \in Texts : \E e \in Ders(k, x) : signature = BinaryToHexstring(e)
  OBVIOUS
<1>9. SignatureOf(signature) = Sign(made_by[1], made_by[2])
  BY <1>8 DEF SignatureOf, made_by
<1> QED BY <1>7, <1>9

(* verify() decides by the decoded bytes what Verify decides by the        *)
(* signature.                                                              *)
LEMMA DecodedVerifies ==
  ASSUME NEW key \in Keys, NEW text \in Texts, NEW signature \in SignatureTexts
  PROVE  HexstringToBinary(signature) \in Ders(key, text)
           <=> Verify(GetAddress(key), text, SignatureOf(signature))
<1>1. CASE signature \in { BinaryToHexstring(der) : der \in AllDers }
  <2>1. PICK der \in AllDers : signature = BinaryToHexstring(der)
    BY <1>1
  <2>2. PICK k \in Keys, x \in Texts : der \in Ders(k, x)
    BY DEF AllDers
  <2>3. der \in Seq(Bytes)
    BY <2>2, DersAssumption
  <2>4. HexstringToBinary(signature) = der
    BY <2>1, <2>3, HexRoundTrip
  <2>5. SignatureOf(signature) = Sign(k, x)
    BY <2>1, <2>2, SignatureOfText
  <2>6. der \in Ders(key, text) <=> k = key /\ x = text
    BY <2>2, DersAssumption
  <2>7. Verify(GetAddress(key), text, Sign(k, x)) <=> k = key /\ x = text
    BY DEF Verify, GetAddress, Sign
  <2> QED BY <2>2, <2>4, <2>5, <2>6, <2>7
<1>2. CASE signature = << >> /\ signature \notin { BinaryToHexstring(der) : der \in AllDers }
  <2>1. HexstringToBinary(signature) = << >>
    BY <1>2 DEF HexstringToBinary
  <2>2. << >> \notin Ders(key, text)
    BY DersAssumption
  <2>3. SignatureOf(signature) = NoSignature
    BY <1>2 DEF SignatureOf, AllDers
  <2> QED BY <2>1, <2>2, <2>3 DEF Verify, NoSignature
<1> QED BY <1>1, <1>2 DEF SignatureTexts

(***************************************************************************)
(* Steps of one thread.                                                    *)
(***************************************************************************)
LEMMA OneCallChanges ==
  ASSUME CallsTyped, NEW t \in Threads, NEW new,
         call' = [call EXCEPT ![t] = new], UNCHANGED made
  PROVE  /\ CallsTyped'
         /\ call'[t] = new
         /\ \A u \in Threads \ {t} : call'[u] = call[u]
BY DEF CallsTyped

(* A step that leaves the object of its call alone, and may leave other    *)
(* objects on the heap.                                                    *)
LEMMA KeepsObject ==
  ASSUME CryptInv, NEW t \in Threads, NEW new,
         call' = [call EXCEPT ![t] = new], UNCHANGED made,
         CallFits(new), new.holds = call[t].holds,
         new.at \in Early <=> call[t].at \in Early,
         NEW added, heap' = heap \cup added,
         \A o \in added : /\ o = Sibling(o, o.kind)
                          /\ o.thread = t /\ o.kind \notin Owned
                          /\ o.kind \in Points =>
                               \A kind \in Points \cup {"BIGNUM"} : Sibling(o, kind) \in added
  PROVE  /\ CallsTyped'
         /\ \A u \in Threads : CallFits(call[u])'
         /\ HeapFits'
         /\ \A u \in Threads : Held(u)'
<1>1. CallsTyped' /\ call'[t] = new /\ \A u \in Threads \ {t} : call'[u] = call[u]
  BY OneCallChanges DEF CryptInv
<1>2. \A u \in Threads : /\ CallFits(call'[u])
                         /\ call'[u].holds = call[u].holds
                         /\ call'[u].at \in Early <=> call[u].at \in Early
  BY <1>1 DEF CryptInv
<1>3. HeapFits'
  <2>1. ASSUME NEW o \in heap'
        PROVE  /\ o = Sibling(o, o.kind)
               /\ o.thread \in Threads
               /\ o.kind \in Owned => /\ o = call'[o.thread].holds
                                      /\ o.call = made'[o.thread]
                                      /\ call'[o.thread].at \notin Early
               /\ o.kind \in Points =>
                    \A kind \in Points \cup {"BIGNUM"} : Sibling(o, kind) \in heap'
    <3>1. CASE o \in heap
      BY <1>2, <3>1 DEF CryptInv, HeapFits
    <3>2. CASE o \in added
      BY <3>2
    <3> QED BY <3>1, <3>2
  <2> QED BY <2>1 DEF HeapFits, Sibling
<1>4. \A u \in Threads : Held(u)'
  BY <1>2 DEF CryptInv, Held
<1>5. \A u \in Threads : CallFits(call[u])'
  BY <1>2 DEF CallFits, Kept
<1> QED BY <1>1, <1>3, <1>4, <1>5

(* A step that makes the object of a call and moves it to the caller.      *)
LEMMA GetsObject ==
  ASSUME CryptInv, NEW t \in Threads, NEW new,
         call' = [call EXCEPT ![t] = new], UNCHANGED made,
         CallFits(new), NEW kind \in Owned, new.holds = Object(t, kind),
         call[t].at \in Early, new.at \notin Early,
         heap' = AfterMove(Object(t, kind))
  PROVE  /\ CallsTyped'
         /\ \A u \in Threads : CallFits(call[u])'
         /\ HeapFits'
         /\ \A u \in Threads : Held(u)'
<1> DEFINE object == Object(t, kind)
<1>1. CallsTyped' /\ call'[t] = new /\ \A u \in Threads \ {t} : call'[u] = call[u]
  BY OneCallChanges DEF CryptInv
<1>2. /\ object.thread = t /\ object.call = made[t] /\ object.kind = kind
      /\ object = Sibling(object, object.kind)
  BY DEF Object, Sibling
<1>3. \A o : o = Sibling(o, o.kind) => o # Null
  <2>1. \A o : o = Sibling(o, o.kind) => "thread" \in DOMAIN o
    BY DEF Sibling
  <2> QED BY <2>1, EmptyShape DEF Null
<1> HIDE DEF object
<1>4. heap' = heap \cup {object}
  <2>1. heap' = (heap \cup {object}) \ {Null}
    BY DEF AfterMove, MovedFrom, object
  <2>2. \A o \in heap \cup {object} : o # Null
    BY <1>2, <1>3 DEF CryptInv, HeapFits
  <2> QED BY <2>1, <2>2
<1>5. \A o \in heap : o.kind \in Owned => o.thread # t
  BY DEF CryptInv, HeapFits
<1>6. kind \notin Points
  BY DEF Owned, Points
<1>7. HeapFits'
  <2>1. ASSUME NEW o \in heap'
        PROVE  /\ o = Sibling(o, o.kind)
               /\ o.thread \in Threads
               /\ o.kind \in Owned => /\ o = call'[o.thread].holds
                                      /\ o.call = made'[o.thread]
                                      /\ call'[o.thread].at \notin Early
               /\ o.kind \in Points =>
                    \A k \in Points \cup {"BIGNUM"} : Sibling(o, k) \in heap'
    <3>1. CASE o \in heap
      <4>1. o.kind \in Owned => call'[o.thread] = call[o.thread]
        BY <1>1, <1>5, <3>1 DEF CryptInv, HeapFits
      <4> QED BY <1>4, <3>1, <4>1 DEF CryptInv, HeapFits
    <3>2. CASE o = object
      BY <1>1, <1>2, <1>6, <3>2 DEF object
    <3> QED BY <1>4, <3>1, <3>2
  <2> QED BY <2>1 DEF HeapFits, Sibling
<1>8. ASSUME NEW u \in Threads PROVE Held(u)'
  <2>1. CASE u = t
    BY <1>1, <1>2, <1>4, <2>1 DEF Held, object
  <2>2. CASE u # t
    BY <1>1, <1>4, <2>2 DEF CryptInv, Held
  <2> QED BY <2>1, <2>2
<1>9. \A u \in Threads : CallFits(call'[u])
  BY <1>1 DEF CryptInv
<1>10. \A u \in Threads : CallFits(call[u])'
  BY <1>9 DEF CallFits, Kept
<1> QED BY <1>1, <1>7, <1>8, <1>10

(* The destructor: the object of the call is freed and the call ends.      *)
LEMMA FreesObject ==
  ASSUME CryptInv, NEW t \in Threads, Destroy(t)
  PROVE  /\ CallsTyped'
         /\ \A u \in Threads : CallFits(call[u])'
         /\ HeapFits'
         /\ \A u \in Threads : Held(u)'
<1> DEFINE object == call[t].holds
<1>1. /\ CallsTyped' /\ call'[t] = NoCall /\ \A u \in Threads \ {t} : call'[u] = call[u]
      /\ heap' = heap \ {object} /\ UNCHANGED made /\ call[t].at = "destroy"
  BY OneCallChanges DEF CryptInv, Destroy, At, Becomes
<1>2. object \in heap /\ object.thread = t /\ object.kind \in Owned
  BY <1>1 DEF CryptInv, Held, Early
<1>3. /\ NoCall.at = "idle" /\ NoCall.fn = "none" /\ IsCall(NoCall)
  BY DEF NoCall, IsCall
<1>4. CallFits(NoCall)
  BY <1>3 DEF CallFits
<1>5. HeapFits'
  <2>1. ASSUME NEW o \in heap, o # object
        PROVE  /\ o = Sibling(o, o.kind)
               /\ o.thread \in Threads
               /\ o.kind \in Owned => /\ o = call'[o.thread].holds
                                      /\ o.call = made[o.thread]
                                      /\ call'[o.thread].at \notin Early
               /\ o.kind \in Points =>
                    \A k \in Points \cup {"BIGNUM"} : Sibling(o, k) \in heap /\ Sibling(o, k) # object
    <3>1. o.kind \in Owned => o.thread # t
      BY <2>1 DEF CryptInv, HeapFits
    <3>2. \A k \in Points \cup {"BIGNUM"} : Sibling(o, k) # object
      BY <1>2 DEF Points, Owned, Sibling
    <3> QED BY <1>1, <3>1, <3>2 DEF CryptInv, HeapFits
  <2>2. \A o \in heap' : o \in heap /\ o # object
    BY <1>1
  <2> QED BY <1>1, <2>1, <2>2 DEF HeapFits, Sibling
<1>6. ASSUME NEW u \in Threads PROVE Held(u)'
  <2>1. CASE u = t
    BY <1>1, <1>3, <2>1 DEF Held, Early
  <2>2. CASE u # t
    BY <1>1, <1>2, <2>2 DEF CryptInv, Held
  <2> QED BY <2>1, <2>2
<1>7. \A u \in Threads : CallFits(call'[u])
  BY <1>1, <1>4 DEF CryptInv
<1>8. \A u \in Threads : CallFits(call[u])'
  BY <1>7 DEF CallFits, Kept
<1> QED BY <1>1, <1>5, <1>6, <1>8

(* A new call: the count moves on and the earlier objects of the thread    *)
(* that are left have no owner.                                            *)
LEMMA StartsCall ==
  ASSUME CryptInv, NEW t \in Threads, NEW new, Start(t, new),
         CallFits(new), new.at \in {"once", "curve"}
  PROVE  CryptInv'
<1>1. /\ made' = [made EXCEPT ![t] = @ + 1] /\ call' = [call EXCEPT ![t] = new]
      /\ UNCHANGED << once, digests, heap >> /\ call[t].at = "idle"
  BY DEF Start, At, Becomes
<1>2. /\ CallsTyped' /\ call'[t] = new
      /\ \A u \in Threads \ {t} : call'[u] = call[u] /\ made'[u] = made[u]
  BY <1>1 DEF CryptInv, CallsTyped
<1>3. \A o \in heap : o.kind \in Owned => o.thread # t
  BY <1>1 DEF CryptInv, HeapFits, Early
<1>4. HeapFits'
  <2>1. ASSUME NEW o \in heap
        PROVE  /\ o = Sibling(o, o.kind)
               /\ o.thread \in Threads
               /\ o.kind \in Owned => /\ o = call'[o.thread].holds
                                      /\ o.call = made'[o.thread]
                                      /\ call'[o.thread].at \notin Early
               /\ o.kind \in Points =>
                    \A k \in Points \cup {"BIGNUM"} : Sibling(o, k) \in heap
    BY <1>2, <1>3 DEF CryptInv, HeapFits
  <2> QED BY <1>1, <2>1 DEF HeapFits, Sibling
<1>5. \A u \in Threads : Held(u)'
  BY <1>1, <1>2 DEF CryptInv, Held, Early
<1>6. \A u \in Threads : CallFits(call'[u])
  BY <1>2 DEF CryptInv
<1>7. \A u \in Threads : CallFits(call[u])'
  BY <1>6 DEF CallFits, Kept
<1>8. Initialised'
  BY <1>1, <1>2 DEF CryptInv, Initialised, At
<1> QED BY <1>2, <1>4, <1>5, <1>7, <1>8 DEF CryptInv

(* A step other than those of the initialisation.                          *)
LEMMA StaysInitialised ==
  ASSUME CryptInv, NEW t \in Threads, NEW new, Becomes(t, new), UNCHANGED made,
         UNCHANGED << once, digests >>, new.at # "lookup"
  PROVE  Initialised'
<1>1. call'[t] = new /\ \A u \in Threads \ {t} : call'[u] = call[u]
  BY OneCallChanges DEF CryptInv, Becomes
<1> QED BY <1>1 DEF CryptInv, Initialised, At

(* What returning from a call leaves of it.                                *)
LEMMA ReturnFits ==
  ASSUME NEW c, CallFits(c), NEW result,
         NEW new, new = [c EXCEPT !.result = result, !.at = "destroy"], Kept(new)
  PROVE  CallFits(new) /\ new.holds = c.holds /\ new.at = "destroy"
<1>1. IsCall(c)
  BY DEF CallFits
<1>2. IsCall(new)
  BY <1>1 DEF IsCall
<1>3. /\ new.at = "destroy" /\ new.fn = c.fn /\ new.key = c.key /\ new.text = c.text
      /\ new.signature = c.signature /\ new.holds = c.holds
  BY <1>1 DEF IsCall
<1> QED BY <1>2, <1>3 DEF CallFits

(* A call that returns without touching its object.                        *)
LEMMA ReturnKeeps ==
  ASSUME CryptInv, NEW t \in Threads, NEW result, Returns(t, result),
         UNCHANGED << once, digests, made >>, call[t].at \notin Early,
         \A new : new = [call[t] EXCEPT !.result = result, !.at = "destroy"] => Kept(new),
         NEW added, heap' = heap \cup added,
         \A o \in added : o = Sibling(o, o.kind) /\ o.thread = t /\ o.kind = "ECDSA_SIG"
  PROVE  CryptInv'
<1>1. PICK new : new = [call[t] EXCEPT !.result = result, !.at = "destroy"]
  OBVIOUS
<1>2. Becomes(t, new)
  BY <1>1 DEF Returns
<1>3. CallFits(new) /\ new.holds = call[t].holds /\ new.at = "destroy"
  <2>1. CallFits(call[t]) /\ Kept(new)
    BY <1>1 DEF CryptInv
  <2>2. PICK c : c = call[t]
    OBVIOUS
  <2>3. new = [c EXCEPT !.result = result, !.at = "destroy"]
    BY <1>1, <2>2
  <2>4. CallFits(c) /\ Kept(new)
    BY <2>1, <2>2
  <2>5. CallFits(new) /\ new.holds = c.holds /\ new.at = "destroy"
    BY <2>3, <2>4, ReturnFits
  <2> QED BY <2>2, <2>5
<1>4. new.at \notin Early /\ new.at # "lookup"
  BY <1>3 DEF Early
<1>5. \A o \in added : /\ o = Sibling(o, o.kind)
                       /\ o.thread = t /\ o.kind \notin Owned /\ o.kind \notin Points
  BY DEF Owned, Points
<1>6. /\ CallsTyped'
      /\ \A u \in Threads : CallFits(call[u])'
      /\ HeapFits'
      /\ \A u \in Threads : Held(u)'
  BY <1>2, <1>3, <1>4, <1>5, KeepsObject DEF Becomes
<1>7. Initialised'
  BY <1>2, <1>4, StaysInitialised
<1> QED BY <1>6, <1>7 DEF CryptInv

(* A step that moves a call from one place to another and no more.         *)
LEMMA GotoFits ==
  ASSUME NEW c, CallFits(c), NEW step, NEW new, new = [c EXCEPT !.at = step]
  PROVE  /\ IsCall(new)
         /\ new.at = step /\ new.fn = c.fn /\ new.key = c.key /\ new.text = c.text
         /\ new.signature = c.signature /\ new.holds = c.holds
<1>1. IsCall(c)
  BY DEF CallFits
<1> QED BY <1>1 DEF IsCall

(* A step that leaves everything but the call alone.                       *)
LEMMA CallMoves ==
  ASSUME CryptInv, NEW t \in Threads, NEW new, Becomes(t, new),
         UNCHANGED << heap, made >>,
         CallFits(new), new.holds = call[t].holds,
         new.at \in Early <=> call[t].at \in Early,
         Initialised'
  PROVE  CryptInv'
<1>1. PICK added : added = {}
  OBVIOUS
<1>2. heap' = heap \cup added /\ call' = [call EXCEPT ![t] = new]
  BY <1>1 DEF Becomes
<1>3. \A o \in added : /\ o = Sibling(o, o.kind)
                       /\ o.thread = t /\ o.kind \notin Owned
                       /\ o.kind \in Points =>
                            \A kind \in Points \cup {"BIGNUM"} : Sibling(o, kind) \in added
  BY <1>1
<1> QED BY <1>2, <1>3, KeepsObject DEF CryptInv

(***************************************************************************)
(* Every action keeps the invariant.                                       *)
(***************************************************************************)
LEMMA HashKeeps ==
  ASSUME CryptInv, NEW t \in Threads, Hash(t)
  PROVE  CryptInv'
<1>1. /\ Returns(t, Sha256(call[t].text)) /\ UNCHANGED << once, digests, made, heap >>
      /\ call[t].at = "hash"
  BY DEF Hash, At
<1>2. CallFits(call[t]) /\ call[t].at \notin Early
  BY <1>1 DEF CryptInv, Early
<1>3. call[t].fn = "sha256" /\ IsCall(call[t])
  BY <1>1, <1>2 DEF CallFits
<1>4. PICK result : result = Sha256(call[t].text)
  OBVIOUS
<1>5. ASSUME NEW new, new = [call[t] EXCEPT !.result = result, !.at = "destroy"]
      PROVE  Kept(new)
  <2>1. new.fn = "sha256" /\ new.text = call[t].text /\ new.result = result
    BY <1>3, <1>5 DEF IsCall
  <2> QED BY <1>4, <2>1 DEF Kept
<1>6. PICK added : added = {}
  OBVIOUS
<1>7. heap' = heap \cup added /\ Returns(t, result)
  BY <1>1, <1>4, <1>6
<1>8. \A o \in added : o = Sibling(o, o.kind) /\ o.thread = t /\ o.kind = "ECDSA_SIG"
  BY <1>6
<1> QED BY <1>1, <1>2, <1>5, <1>7, <1>8, ReturnKeeps

LEMMA SignKeeps ==
  ASSUME CryptInv, NEW t \in Threads, SignStep(t)
  PROVE  CryptInv'
<1>1. UNCHANGED << once, digests, made >> /\ call[t].at = "sign"
  BY DEF SignStep, At
<1>2. CallFits(call[t]) /\ call[t].at \notin Early
  BY <1>1 DEF CryptInv, Early
<1>3. /\ call[t].fn = "sign" /\ IsCall(call[t])
      /\ call[t].key \in Keys /\ call[t].text \in Texts
  BY <1>1, <1>2 DEF CallFits
<1>4. ASSUME NEW result,
             result = << >> \/ SignatureOf(result) = Sign(call[t].key, call[t].text),
             NEW new, new = [call[t] EXCEPT !.result = result, !.at = "destroy"]
      PROVE  Kept(new)
  <2>1. /\ new.fn = "sign" /\ new.text = call[t].text /\ new.key = call[t].key
        /\ new.result = result
    BY <1>3, <1>4 DEF IsCall
  <2> QED BY <1>4, <2>1 DEF Kept
<1>5. CASE /\ \E der \in Ders(call[t].key, call[t].text) : Returns(t, BinaryToHexstring(der))
           /\ heap' = heap \cup {Object(t, "ECDSA_SIG")}
  <2>1. PICK der \in Ders(call[t].key, call[t].text) : Returns(t, BinaryToHexstring(der))
    BY <1>5
  <2>2. PICK result : result = BinaryToHexstring(der)
    OBVIOUS
  <2>3. SignatureOf(result) = Sign(call[t].key, call[t].text)
    BY <1>3, <2>2, SignatureOfText
  <2>4. LET object == Object(t, "ECDSA_SIG")
        IN  object = Sibling(object, object.kind) /\ object.thread = t /\ object.kind = "ECDSA_SIG"
    BY DEF Object, Sibling
  <2>5. PICK added : added = {Object(t, "ECDSA_SIG")}
    OBVIOUS
  <2>6. \A o \in added : o = Sibling(o, o.kind) /\ o.thread = t /\ o.kind = "ECDSA_SIG"
    BY <2>4, <2>5
  <2>7. Returns(t, result) /\ heap' = heap \cup added
    BY <1>5, <2>1, <2>2, <2>5
  <2> QED BY <1>1, <1>2, <1>4, <2>3, <2>6, <2>7, ReturnKeeps
<1>6. CASE Returns(t, << >>) /\ UNCHANGED heap
  <2>1. PICK result : result = << >>
    OBVIOUS
  <2>2. PICK added : added = {}
    OBVIOUS
  <2>3. heap' = heap \cup added /\ Returns(t, result)
    BY <1>6, <2>1, <2>2
  <2>4. \A o \in added : o = Sibling(o, o.kind) /\ o.thread = t /\ o.kind = "ECDSA_SIG"
    BY <2>2
  <2>5. \A new : new = [call[t] EXCEPT !.result = result, !.at = "destroy"] => Kept(new)
    BY <1>4, <2>1
  <2> QED BY <1>1, <1>2, <2>3, <2>4, <2>5, ReturnKeeps
<1> QED BY <1>5, <1>6 DEF SignStep

LEMMA VerifyKeeps ==
  ASSUME CryptInv, NEW t \in Threads, VerifyStep(t)
  PROVE  CryptInv'
<1>1. /\ UNCHANGED << once, digests, made >> /\ call[t].at = "verify"
      /\ Returns(t, HexstringToBinary(call[t].signature) \in Ders(call[t].key, call[t].text))
      /\ heap' = heap \/ heap' = heap \cup {Object(t, "ECDSA_SIG")}
  BY DEF VerifyStep, At
<1>2. CallFits(call[t]) /\ call[t].at \notin Early
  BY <1>1 DEF CryptInv, Early
<1>3. /\ call[t].fn = "verify" /\ IsCall(call[t])
      /\ call[t].key \in Keys /\ call[t].text \in Texts
      /\ call[t].signature \in SignatureTexts
  BY <1>1, <1>2 DEF CallFits
<1>4. PICK result : result = (HexstringToBinary(call[t].signature)
                                \in Ders(call[t].key, call[t].text))
  OBVIOUS
<1>5. result = Verify(GetAddress(call[t].key), call[t].text, SignatureOf(call[t].signature))
  <2>1. HexstringToBinary(call[t].signature) \in Ders(call[t].key, call[t].text)
          <=> Verify(GetAddress(call[t].key), call[t].text, SignatureOf(call[t].signature))
    BY <1>3, DecodedVerifies
  <2>2. PICK promised : promised = Verify(GetAddress(call[t].key), call[t].text,
                                          SignatureOf(call[t].signature))
    OBVIOUS
  <2>3. promised \in BOOLEAN
    BY <2>2 DEF Verify
  <2>4. result \in BOOLEAN
    BY <1>4
  <2>5. result <=> promised
    BY <1>4, <2>1, <2>2, Zenon
  <2>6. result = promised
    BY <2>3, <2>4, <2>5
  <2> QED BY <2>2, <2>6
<1>6. ASSUME NEW new, new = [call[t] EXCEPT !.result = result, !.at = "destroy"]
      PROVE  Kept(new)
  <2>1. /\ new.fn = "verify" /\ new.text = call[t].text /\ new.key = call[t].key
        /\ new.signature = call[t].signature /\ new.result = result
    BY <1>3, <1>6 DEF IsCall
  <2> QED BY <1>5, <2>1 DEF Kept
<1>7. LET object == Object(t, "ECDSA_SIG")
      IN  object = Sibling(object, object.kind) /\ object.thread = t /\ object.kind = "ECDSA_SIG"
  BY DEF Object, Sibling
<1>8. PICK added : /\ added = {} \/ added = {Object(t, "ECDSA_SIG")}
                   /\ heap' = heap \cup added
  <2>1. heap = heap \cup {}
    OBVIOUS
  <2> QED BY <1>1, <2>1, Zenon
<1>9. \A o \in added : o = Sibling(o, o.kind) /\ o.thread = t /\ o.kind = "ECDSA_SIG"
  BY <1>7, <1>8
<1>10. Returns(t, result)
  BY <1>1, <1>4
<1> QED BY <1>1, <1>2, <1>6, <1>8, <1>9, <1>10, ReturnKeeps

LEMMA ExportKeeps ==
  ASSUME CryptInv, NEW t \in Threads, Export(t)
  PROVE  CryptInv'
<1>1. UNCHANGED << once, digests, made, heap >> /\ call[t].at = "export"
  BY DEF Export, At
<1>2. CallFits(call[t]) /\ call[t].at \notin Early
  BY <1>1 DEF CryptInv, Early
<1>3. call[t].fn = "get_address" /\ IsCall(call[t])
  BY <1>1, <1>2 DEF CallFits
<1>4. CASE Returns(t, GetAddress(call[t].key))
  <2>1. PICK result : result = GetAddress(call[t].key)
    OBVIOUS
  <2>2. ASSUME NEW new, new = [call[t] EXCEPT !.result = result, !.at = "destroy"]
        PROVE  Kept(new)
    <3>1. new.fn = "get_address" /\ new.key = call[t].key /\ new.result = result
      BY <1>3, <2>2 DEF IsCall
    <3> QED BY <2>1, <3>1 DEF Kept
  <2>3. PICK added : added = {}
    OBVIOUS
  <2>4. heap' = heap \cup added /\ Returns(t, result)
    BY <1>1, <1>4, <2>1, <2>3
  <2>5. \A o \in added : o = Sibling(o, o.kind) /\ o.thread = t /\ o.kind = "ECDSA_SIG"
    BY <2>3
  <2> QED BY <1>1, <1>2, <2>2, <2>4, <2>5, ReturnKeeps
<1>5. CASE Goto(t, "crashed")
  <2>1. PICK c : c = call[t]
    OBVIOUS
  <2>2. PICK new : new = [c EXCEPT !.at = "crashed"]
    OBVIOUS
  <2>3. Becomes(t, new)
    BY <1>5, <2>1, <2>2 DEF Goto
  <2>4. /\ IsCall(new) /\ new.at = "crashed" /\ new.fn = c.fn /\ new.holds = c.holds
    BY <1>2, <2>1, <2>2, GotoFits
  <2>5. new.fn = "get_address" /\ new.holds = call[t].holds
    BY <1>3, <2>1, <2>4
  <2>6. CallFits(new)
    BY <2>4, <2>5 DEF CallFits
  <2>7. new.at \notin Early /\ new.at # "lookup"
    BY <2>4 DEF Early
  <2>8. Initialised'
    BY <1>1, <2>3, <2>7, StaysInitialised
  <2> QED BY <1>1, <1>2, <2>3, <2>5, <2>6, <2>7, <2>8, CallMoves
<1> QED BY <1>4, <1>5 DEF Export

LEMMA GenerateKeeps ==
  ASSUME CryptInv, NEW t \in Threads, Generate(t)
  PROVE  CryptInv'
<1>1. UNCHANGED << once, digests, made, heap >> /\ call[t].at = "generate"
  BY DEF Generate, At
<1>2. PICK c : c = call[t]
  OBVIOUS
<1>3. /\ c.fn = "generate_private_key" /\ IsCall(c) /\ call[t].at \notin Early
  BY <1>1, <1>2 DEF CryptInv, CallFits, Early
<1>4. PICK result : Becomes(t, [c EXCEPT !.result = result, !.public = result # << >>,
                                         !.at = "destroy"])
  BY <1>2 DEF Generate
<1>5. PICK new : new = [c EXCEPT !.result = result, !.public = result # << >>,
                                 !.at = "destroy"]
  OBVIOUS
<1>6. Becomes(t, new)
  BY <1>4, <1>5
<1>7. IsCall(new)
  BY <1>3, <1>5 DEF IsCall
<1>8. new.at = "destroy" /\ new.fn = "generate_private_key" /\ new.holds = c.holds
  BY <1>3, <1>5 DEF IsCall
<1>9. CallFits(new)
  <2>1. Kept(new)
    BY <1>8 DEF Kept
  <2> QED BY <1>7, <1>8, <2>1 DEF CallFits
<1>10. new.at \notin Early /\ new.at # "lookup" /\ new.holds = call[t].holds
  BY <1>2, <1>8 DEF Early
<1>11. Initialised'
  BY <1>1, <1>6, <1>10, StaysInitialised
<1> QED BY <1>1, <1>3, <1>6, <1>9, <1>10, <1>11, CallMoves

LEMMA LoadPublicKeeps ==
  ASSUME CryptInv, NEW t \in Threads, LoadPublic(t)
  PROVE  CryptInv'
<1>1. UNCHANGED << once, digests, made, heap >> /\ call[t].at = "load public"
  BY DEF LoadPublic, At
<1>2. PICK c : c = call[t]
  OBVIOUS
<1>3. /\ c.fn = "verify" /\ IsCall(c) /\ call[t].at \notin Early
      /\ c.key \in Keys /\ c.text \in Texts /\ c.signature \in SignatureTexts
  BY <1>1, <1>2 DEF CryptInv, CallFits, Early
<1>4. PICK new : new = [c EXCEPT !.public = TRUE, !.at = "verify"]
  OBVIOUS
<1>5. Becomes(t, new)
  BY <1>2, <1>4 DEF LoadPublic
<1>6. IsCall(new)
  BY <1>3, <1>4 DEF IsCall
<1>7. /\ new.at = "verify" /\ new.fn = "verify" /\ new.holds = c.holds
      /\ new.key = c.key /\ new.text = c.text /\ new.signature = c.signature
  BY <1>3, <1>4 DEF IsCall
<1>8. CallFits(new)
  BY <1>3, <1>6, <1>7 DEF CallFits
<1>9. new.at \notin Early /\ new.at # "lookup" /\ new.holds = call[t].holds
  BY <1>2, <1>7 DEF Early
<1>10. Initialised'
  BY <1>1, <1>5, <1>9, StaysInitialised
<1> QED BY <1>1, <1>3, <1>5, <1>8, <1>9, <1>10, CallMoves

LEMMA LoadPrivateKeeps ==
  ASSUME CryptInv, NEW t \in Threads, LoadPrivate(t)
  PROVE  CryptInv'
<1>1. UNCHANGED << once, digests, made >> /\ call[t].at = "load private"
  BY DEF LoadPrivate, At
<1>2. PICK c : c = call[t]
  OBVIOUS
<1>3. /\ c.fn \in {"get_address", "sign"} /\ IsCall(c) /\ call[t].at \notin Early
      /\ c.fn = "sign" => c.key \in Keys /\ c.text \in Texts
  BY <1>1, <1>2 DEF CryptInv, CallFits, Early
<1>4. PICK multiplied \in BOOLEAN :
        /\ heap' = heap \cup { Object(t, kind) : kind \in LeftByLoad(multiplied) }
        /\ Becomes(t, [c EXCEPT !.public = multiplied,
                                !.at = IF c.fn = "sign" THEN "sign" ELSE "export"])
  BY <1>2 DEF LoadPrivate
<1>5. PICK next : next = IF c.fn = "sign" THEN "sign" ELSE "export"
  OBVIOUS
<1>6. PICK new : new = [c EXCEPT !.public = multiplied, !.at = next]
  OBVIOUS
<1>7. Becomes(t, new)
  BY <1>4, <1>5, <1>6
<1>8. IsCall(new)
  BY <1>3, <1>6 DEF IsCall
<1>9. /\ new.at = next /\ new.fn = c.fn /\ new.holds = c.holds
      /\ new.key = c.key /\ new.text = c.text
  BY <1>3, <1>6 DEF IsCall
<1>10. CallFits(new)
  <2>1. CASE c.fn = "sign"
    BY <1>3, <1>5, <1>8, <1>9, <2>1 DEF CallFits
  <2>2. CASE c.fn = "get_address"
    BY <1>3, <1>5, <1>8, <1>9, <2>2 DEF CallFits
  <2> QED BY <1>3, <2>1, <2>2
<1>11. new.at \notin Early /\ new.at # "lookup" /\ new.holds = call[t].holds
  BY <1>2, <1>5, <1>9 DEF Early
<1>12. PICK added : added = { Object(t, kind) : kind \in LeftByLoad(multiplied) }
  OBVIOUS
<1>13. ASSUME NEW o \in added
       PROVE  /\ o = Sibling(o, o.kind)
              /\ o.thread = t /\ o.kind \notin Owned
              /\ o.kind \in Points =>
                   \A kind \in Points \cup {"BIGNUM"} : Sibling(o, kind) \in added
  <2>1. PICK kind \in LeftByLoad(multiplied) : o = Object(t, kind)
    BY <1>12
  <2>2. /\ o.kind = kind /\ o.thread = t /\ o.call = made[t]
        /\ o = [thread |-> t, call |-> made[t], kind |-> kind]
    BY <2>1 DEF Object
  <2>3. \A k : Sibling(o, k) = Object(t, k)
    BY <2>2 DEF Sibling, Object
  <2>4. kind \in Points => LeftByLoad(multiplied) = Points \cup {"BIGNUM"}
    BY DEF LeftByLoad, Points
  <2>5. kind \in Points => \A k \in Points \cup {"BIGNUM"} : Object(t, k) \in added
    BY <1>12, <2>4
  <2>6. kind \notin Owned
    BY DEF LeftByLoad, Owned
  <2> QED BY <2>1, <2>2, <2>3, <2>5, <2>6
<1>14. heap' = heap \cup added
  BY <1>4, <1>12
<1>15. /\ CallsTyped'
       /\ \A u \in Threads : CallFits(call[u])'
       /\ HeapFits'
       /\ \A u \in Threads : Held(u)'
  BY <1>1, <1>3, <1>7, <1>10, <1>11, <1>13, <1>14, KeepsObject DEF Becomes
<1>16. Initialised'
  BY <1>1, <1>7, <1>11, StaysInitialised
<1> QED BY <1>15, <1>16 DEF CryptInv

LEMMA CallOnceKeeps ==
  ASSUME CryptInv, NEW t \in Threads, CallOnce(t)
  PROVE  CryptInv'
<1>1. /\ UNCHANGED << digests, made, heap >> /\ call[t].at = "once"
      /\ once' = (IF once = "new" THEN "running" ELSE once) /\ once # "running"
  BY DEF CallOnce, At
<1>2. PICK c : c = call[t]
  OBVIOUS
<1>3. CallFits(c) /\ c.fn = "sha256" /\ call[t].at \in Early
  BY <1>1, <1>2 DEF CryptInv, CallFits, Early
<1>4. PICK next : next = IF once = "new" THEN "init" ELSE "lookup"
  OBVIOUS
<1>5. PICK new : new = [c EXCEPT !.at = next]
  OBVIOUS
<1>6. Becomes(t, new)
  BY <1>2, <1>4, <1>5 DEF CallOnce, Goto
<1>7. IsCall(new) /\ new.at = next /\ new.fn = c.fn /\ new.holds = c.holds
  BY <1>3, <1>5, GotoFits
<1>8. CallFits(new)
  BY <1>3, <1>4, <1>7 DEF CallFits
<1>9. new.at \in Early /\ new.holds = call[t].holds
  BY <1>2, <1>4, <1>7 DEF Early
<1>10. call'[t] = new /\ \A u \in Threads \ {t} : call'[u] = call[u]
  BY <1>1, <1>6, OneCallChanges DEF CryptInv, Becomes
<1>11. Initialised'
  <2>1. once \in {"new", "done"} /\ (once = "done" => digests)
    BY <1>1 DEF CryptInv, Initialised
  <2>2. once' \in {"running", "done"} /\ (once' = "done" => digests')
    BY <1>1, <2>1
  <2>3. next = "lookup" => digests'
    BY <1>1, <1>4, <2>1
  <2>4. \A u \in Threads : call'[u].at = "lookup" => digests'
    BY <1>1, <1>7, <1>10, <2>3 DEF CryptInv, Initialised, At
  <2> QED BY <2>2, <2>4 DEF Initialised, At
<1> QED BY <1>1, <1>3, <1>6, <1>8, <1>9, <1>11, CallMoves

LEMMA InitMainKeeps ==
  ASSUME CryptInv, NEW t \in Threads, InitMain(t)
  PROVE  CryptInv'
<1>1. /\ UNCHANGED << made, heap >> /\ call[t].at = "init"
      /\ digests' = TRUE /\ once' = "done"
  BY DEF InitMain, At
<1>2. PICK c : c = call[t]
  OBVIOUS
<1>3. CallFits(c) /\ c.fn = "sha256" /\ call[t].at \in Early
  BY <1>1, <1>2 DEF CryptInv, CallFits, Early
<1>4. PICK new : new = [c EXCEPT !.at = "lookup"]
  OBVIOUS
<1>5. Becomes(t, new)
  BY <1>2, <1>4 DEF InitMain, Goto
<1>6. IsCall(new) /\ new.at = "lookup" /\ new.fn = c.fn /\ new.holds = c.holds
  BY <1>3, <1>4, GotoFits
<1>7. CallFits(new)
  BY <1>3, <1>6 DEF CallFits
<1>8. new.at \in Early /\ new.holds = call[t].holds
  BY <1>2, <1>6 DEF Early
<1>9. Initialised'
  BY <1>1 DEF Initialised
<1> QED BY <1>1, <1>3, <1>5, <1>7, <1>8, <1>9, CallMoves

LEMMA LookupKeeps ==
  ASSUME CryptInv, NEW t \in Threads, Lookup(t)
  PROVE  CryptInv'
<1>1. UNCHANGED << once, digests, made >> /\ call[t].at = "lookup" /\ digests
  BY DEF Lookup, At, CryptInv, Initialised
<1>2. PICK c : c = call[t]
  OBVIOUS
<1>3. CallFits(c) /\ IsCall(c) /\ c.fn = "sha256" /\ call[t].at \in Early
  BY <1>1, <1>2 DEF CryptInv, CallFits, Early
<1>4. PICK kind \in Owned : kind = "EVP_MD_CTX"
  BY DEF Owned
<1>5. PICK object : object = Object(t, kind)
  OBVIOUS
<1>6. PICK new : new = [c EXCEPT !.holds = object, !.at = "hash"]
  OBVIOUS
<1>7. Becomes(t, new) /\ heap' = AfterMove(Object(t, kind))
  BY <1>1, <1>2, <1>4, <1>5, <1>6 DEF Lookup
<1>8. IsCall(new)
  BY <1>3, <1>6 DEF IsCall
<1>9. new.at = "hash" /\ new.fn = c.fn /\ new.holds = object
  BY <1>3, <1>6 DEF IsCall
<1>10. CallFits(new)
  BY <1>3, <1>8, <1>9 DEF CallFits
<1>11. new.at \notin Early /\ new.at # "lookup" /\ new.holds = Object(t, kind)
  BY <1>5, <1>9 DEF Early
<1>12. /\ CallsTyped'
       /\ \A u \in Threads : CallFits(call[u])'
       /\ HeapFits'
       /\ \A u \in Threads : Held(u)'
  BY <1>1, <1>3, <1>7, <1>10, <1>11, GetsObject DEF Becomes
<1>13. Initialised'
  BY <1>1, <1>7, <1>11, StaysInitialised
<1> QED BY <1>12, <1>13 DEF CryptInv

LEMMA FromCurveKeeps ==
  ASSUME CryptInv, NEW t \in Threads, FromCurve(t)
  PROVE  CryptInv'
<1>1. UNCHANGED << once, digests, made >> /\ call[t].at = "curve"
  BY DEF FromCurve, At
<1>2. PICK c : c = call[t]
  OBVIOUS
<1>3. /\ CallFits(c) /\ IsCall(c) /\ call[t].at \in Early
      /\ c.fn \in {"generate_private_key", "get_address", "sign", "verify"}
      /\ c.fn \in {"sign", "verify"} => c.key \in Keys /\ c.text \in Texts
      /\ c.fn = "verify" => c.signature \in SignatureTexts
  BY <1>1, <1>2 DEF CryptInv, CallFits, Early
<1>4. PICK kind \in Owned : kind = "EC_KEY"
  BY DEF Owned
<1>5. PICK object : object = Object(t, kind)
  OBVIOUS
<1>6. PICK next : next = CASE c.fn = "generate_private_key" -> "generate"
                           [] c.fn = "verify" -> "load public"
                           [] OTHER -> "load private"
  OBVIOUS
<1>7. PICK new : new = [c EXCEPT !.holds = object, !.at = next]
  OBVIOUS
<1>8. Becomes(t, new) /\ heap' = AfterMove(Object(t, kind))
  BY <1>2, <1>4, <1>5, <1>6, <1>7 DEF FromCurve
<1>9. IsCall(new)
  BY <1>3, <1>7 DEF IsCall
<1>10. /\ new.at = next /\ new.fn = c.fn /\ new.holds = object
       /\ new.key = c.key /\ new.text = c.text /\ new.signature = c.signature
  BY <1>3, <1>7 DEF IsCall
<1>11. CallFits(new)
  <2>1. CASE c.fn = "generate_private_key"
    BY <1>6, <1>9, <1>10, <2>1 DEF CallFits
  <2>2. CASE c.fn = "get_address"
    BY <1>6, <1>9, <1>10, <2>2 DEF CallFits
  <2>3. CASE c.fn = "sign"
    BY <1>3, <1>6, <1>9, <1>10, <2>3 DEF CallFits
  <2>4. CASE c.fn = "verify"
    BY <1>3, <1>6, <1>9, <1>10, <2>4 DEF CallFits
  <2> QED BY <1>3, <2>1, <2>2, <2>3, <2>4
<1>12. new.at \notin Early /\ new.at # "lookup" /\ new.holds = Object(t, kind)
  BY <1>5, <1>6, <1>10 DEF Early
<1>13. /\ CallsTyped'
       /\ \A u \in Threads : CallFits(call[u])'
       /\ HeapFits'
       /\ \A u \in Threads : Held(u)'
  BY <1>1, <1>3, <1>8, <1>11, <1>12, GetsObject DEF Becomes
<1>14. Initialised'
  BY <1>1, <1>8, <1>12, StaysInitialised
<1> QED BY <1>13, <1>14 DEF CryptInv

LEMMA DestroyKeeps ==
  ASSUME CryptInv, NEW t \in Threads, Destroy(t)
  PROVE  CryptInv'
<1>1. UNCHANGED << once, digests, made >> /\ Becomes(t, NoCall)
  BY DEF Destroy
<1>2. NoCall.at # "lookup"
  BY DEF NoCall
<1>3. Initialised'
  BY <1>1, <1>2, StaysInitialised
<1> QED BY <1>3, FreesObject DEF CryptInv

(* A new call fits the function it calls.                                  *)
LEMMA CallKeeps ==
  ASSUME CryptInv, NEW t \in Threads, Call(t)
  PROVE  CryptInv'
<1>1. IsCall(NoCall)
  BY DEF NoCall, IsCall
<1>2. ASSUME NEW text \in Texts, CallSha256(t, text)
      PROVE  CryptInv'
  <2>1. PICK new : new = [NoCall EXCEPT !.fn = "sha256", !.at = "once", !.text = text]
    OBVIOUS
  <2>2. new.fn = "sha256" /\ new.at = "once"
    BY <1>1, <2>1 DEF IsCall
  <2>3. IsCall(new)
    BY <1>1, <2>1 DEF IsCall
  <2>4. CallFits(new)
    BY <1>2, <2>2, <2>3 DEF CallFits
  <2>5. Start(t, new)
    BY <1>2, <2>1 DEF CallSha256
  <2> QED BY <2>2, <2>4, <2>5, StartsCall
<1>3. ASSUME CallGeneratePrivateKey(t)
      PROVE  CryptInv'
  <2>1. PICK new : new = [NoCall EXCEPT !.fn = "generate_private_key", !.at = "curve"]
    OBVIOUS
  <2>2. new.fn = "generate_private_key" /\ new.at = "curve"
    BY <1>1, <2>1 DEF IsCall
  <2>3. IsCall(new)
    BY <1>1, <2>1 DEF IsCall
  <2>4. CallFits(new)
    BY <2>2, <2>3 DEF CallFits
  <2>5. Start(t, new)
    BY <1>3, <2>1 DEF CallGeneratePrivateKey
  <2> QED BY <2>2, <2>4, <2>5, StartsCall
<1>4. ASSUME NEW key \in Keys, CallGetAddress(t, key)
      PROVE  CryptInv'
  <2>1. PICK new : new = [NoCall EXCEPT !.fn = "get_address", !.at = "curve", !.key = key]
    OBVIOUS
  <2>2. new.fn = "get_address" /\ new.at = "curve"
    BY <1>1, <2>1 DEF IsCall
  <2>3. IsCall(new)
    BY <1>1, <2>1 DEF IsCall
  <2>4. CallFits(new)
    BY <1>4, <2>2, <2>3 DEF CallFits
  <2>5. Start(t, new)
    BY <1>4, <2>1 DEF CallGetAddress
  <2> QED BY <2>2, <2>4, <2>5, StartsCall
<1>5. ASSUME NEW key \in Keys, NEW text \in Texts, CallSign(t, key, text)
      PROVE  CryptInv'
  <2>1. PICK new : new = [NoCall EXCEPT !.fn = "sign", !.at = "curve", !.key = key,
                                     !.text = text]
    OBVIOUS
  <2>2. /\ new.fn = "sign" /\ new.at = "curve"
        /\ new.key = key /\ new.text = text
    BY <1>1, <2>1 DEF IsCall
  <2>3. IsCall(new)
    BY <1>1, <2>1 DEF IsCall
  <2>4. CallFits(new)
    BY <1>5, <2>2, <2>3 DEF CallFits
  <2>5. Start(t, new)
    BY <1>5, <2>1 DEF CallSign
  <2> QED BY <2>2, <2>4, <2>5, StartsCall
<1>6. ASSUME NEW key \in Keys, NEW text \in Texts,
             NEW signature \in SignatureTexts, CallVerify(t, key, text, signature)
      PROVE  CryptInv'
  <2>1. PICK new : new = [NoCall EXCEPT !.fn = "verify", !.at = "curve", !.key = key,
                                     !.text = text, !.signature = signature]
    OBVIOUS
  <2>2. /\ new.fn = "verify" /\ new.at = "curve"
        /\ new.key = key /\ new.text = text /\ new.signature = signature
    BY <1>1, <2>1 DEF IsCall
  <2>3. IsCall(new)
    BY <1>1, <2>1 DEF IsCall
  <2>4. CallFits(new)
    BY <1>6, <2>2, <2>3 DEF CallFits
  <2>5. Start(t, new)
    BY <1>6, <2>1 DEF CallVerify
  <2> QED BY <2>2, <2>4, <2>5, StartsCall
<1> QED BY <1>2, <1>3, <1>4, <1>5, <1>6 DEF Call

LEMMA InitCrypt == Init => CryptInv
<1> SUFFICES ASSUME Init PROVE CryptInv
  OBVIOUS
<1>1. CallsTyped /\ \A t \in Threads : call[t] = NoCall
  BY DEF Init, CallsTyped
<1>2. NoCall.at = "idle" /\ NoCall.fn = "none" /\ IsCall(NoCall)
  BY DEF NoCall, IsCall
<1>3. CallFits(NoCall)
  BY <1>2 DEF CallFits
<1>4. \A t \in Threads : CallFits(call[t]) /\ call[t].at = "idle"
  BY <1>1, <1>2, <1>3
<1>5. Initialised /\ HeapFits
  BY <1>4 DEF Init, Initialised, HeapFits, At
<1>6. \A t \in Threads : Held(t)
  BY <1>4 DEF Held, Early
<1> QED BY <1>1, <1>4, <1>5, <1>6 DEF CryptInv

LEMMA StutterCrypt ==
  ASSUME CryptInv, UNCHANGED cryptVars
  PROVE  CryptInv'
BY ZenonT(60) DEF CryptInv, cryptVars, CallsTyped, CallFits, Kept, IsCall, Initialised, HeapFits, Held, At

LEMMA NextCrypt == CryptInv /\ [Next]_cryptVars => CryptInv'
<1> SUFFICES ASSUME CryptInv, [Next]_cryptVars PROVE CryptInv'
  OBVIOUS
<1>1. ASSUME NEW t \in Threads, Step(t) PROVE CryptInv'
  BY <1>1, CallOnceKeeps, InitMainKeeps, LookupKeeps, HashKeeps, FromCurveKeeps,
     GenerateKeeps, LoadPrivateKeeps, LoadPublicKeeps, ExportKeeps, SignKeeps,
     VerifyKeeps, DestroyKeeps DEF Step
<1>2. ASSUME NEW t \in Threads, Call(t) PROVE CryptInv'
  BY <1>2, CallKeeps
<1>3. CASE UNCHANGED cryptVars
  BY <1>3, StutterCrypt
<1> QED BY <1>1, <1>2, <1>3 DEF Next

THEOREM CryptInvariant == Spec => []CryptInv
BY InitCrypt, NextCrypt, PTL DEF Spec

(***************************************************************************)
(* What the runs check of two threads.                                     *)
(***************************************************************************)
(* The object the next step of a call hands to the library is allocated:   *)
(* a destructor runs once for each, after its last use.                    *)
THEOREM HandedStayLive == Spec => []HandedAreLive
<1>1. CryptInv => HandedAreLive
  BY DEF CryptInv, Held, HandedAreLive, BeforeObject, Early
<1> QED BY <1>1, CryptInvariant, PTL

(* A call that ended left no key and no digest context, whichever library  *)
(* call failed in it.                                                      *)
THEOREM EndedStayClean == Spec => []EndedCallsClean
<1>1. CryptInv => EndedCallsClean
  <2> SUFFICES ASSUME CryptInv, NEW t \in Threads, NEW n \in 1 .. made[t], Ended(t, n)
               PROVE  /\ Left(t, n) \cap {"EC_KEY", "EVP_MD_CTX"} = {}
                      /\ Left(t, n) \cap {"EC_POINT", "BN_CTX"} # {} =>
                           {"EC_POINT", "BN_CTX", "BIGNUM"} \subseteq Left(t, n)
    BY DEF EndedCallsClean
  <2>1. \A kind : kind \in Left(t, n) <=>
          \E o \in heap : o.thread = t /\ o.call = n /\ o.kind = kind
    BY DEF Left
  <2>2. made[t] \in Nat
    BY DEF CryptInv, CallsTyped
  <2>3. n = made[t] => call[t].at \in Early
    BY <2>2 DEF Ended, At, Early
  <2>4. \A o \in heap : o.thread = t /\ o.call = n => o.kind \notin Owned
    BY <2>3 DEF CryptInv, HeapFits
  <2>5. ASSUME NEW o \in heap, o.thread = t, o.call = n, o.kind \in Points,
               NEW kind \in Points \cup {"BIGNUM"}
        PROVE  kind \in Left(t, n)
    <3>1. Sibling(o, kind) \in heap
      BY <2>5 DEF CryptInv, HeapFits
    <3>2. LET p == Sibling(o, kind) IN p.thread = t /\ p.call = n /\ p.kind = kind
      BY <2>5 DEF Sibling
    <3> QED BY <2>1, <3>1, <3>2
  <2> QED BY <2>1, <2>4, <2>5 DEF Owned, Points
<1> QED BY <1>1, CryptInvariant, PTL

(* A call that is about to return gives what Crypt promises: the race for  *)
(* the initialisation and the passage through text do not show.            *)
THEOREM PromisesKept == Spec => []CallsKeepPromise
<1>1. CryptInv => CallsKeepPromise
  BY DEF CryptInv, CallFits, CallsKeepPromise, At
<1> QED BY <1>1, CryptInvariant, PTL
=============================================================================
