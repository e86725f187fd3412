----------------------------- MODULE CryptCalls -----------------------------
(***************************************************************************)
(* The five functions of crypt.cpp as sequences of OpenSSL calls: which    *)
(* library objects each step creates, uses and frees, what becomes of them *)
(* when a library call fails, and the one-time initialisation.  Module     *)
(* Crypt says what the functions promise; here they are shown to keep it.  *)
(*                                                                         *)
(* init_() uses std::call_once, so the functions may be called from several *)
(* threads.  A step is one method of md_ctx, md or ec_key.                 *)
(***************************************************************************)
EXTENDS Crypt, HexText

CONSTANTS
  Threads,    \* the threads that call the functions
  Texts,      \* the texts that are hashed and signed
  Ders(_, _), \* Ders(key, text): the DER encodings of the signatures of text
              \* by key; ECDSA makes a new one each time
  MaxCalls    \* bound on the calls of a thread

ASSUME DersAssumption ==
  \A key \in Keys, text \in Texts :
    /\ \A der \in Ders(key, text) : der \in Seq(Bytes) /\ der # << >>
    /\ \A key2 \in Keys, text2 \in Texts :
         Ders(key, text) \cap Ders(key2, text2) # {} => key = key2 /\ text = text2

VARIABLES
  once,     \* s_openssl_init: "new", "running" or "done"
  digests,  \* whether OpenSSL_add_all_digests() has run
  heap,     \* the library objects that are allocated
  made,     \* made[t]: how many calls thread t has started
  call      \* call[t]: the call of thread t that runs, or NoCall

cryptVars == << once, digests, heap, made, call >>

(***************************************************************************)
(* Objects, calls and the texts of signatures.                             *)
(***************************************************************************)
(* A call creates at most one object of a kind.                            *)
Object(t, kind) == [thread |-> t, call |-> made[t], kind |-> kind]
Null == << >>

(* A faulty move constructor: the pointer stays in the moved-from object.  *)
MovedFromKeeps(pointer) == pointer

(* The pointer a move constructor leaves behind, and what is allocated     *)
(* after new is made in a factory function and moved to the caller: the    *)
(* destructor of the moved-from object frees what that still points to.    *)
MovedFrom(pointer) == Null
AfterMove(new) == (heap \cup {new}) \ {MovedFrom(new)}

NoCall == [fn |-> "none", at |-> "idle", key |-> GenesisKey, text |-> << >>,
           signature |-> << >>, holds |-> Null, public |-> FALSE, result |-> << >>]

AllDers == UNION { Ders(key, text) : key \in Keys, text \in Texts }

(* The text of every signature, and the empty one of an unsigned input.    *)
SignatureTexts == { BinaryToHexstring(der) : der \in AllDers } \cup {<< >>}

(* Where thread t is in its call, and how the call goes on.                *)
At(t, step) == call[t].at = step
Becomes(t, new) == call' = [call EXCEPT ![t] = new]
Goto(t, step) == Becomes(t, [call[t] EXCEPT !.at = step])
Returns(t, result) ==
  Becomes(t, [call[t] EXCEPT !.result = result, !.at = "destroy"])

Init ==
  /\ once = "new"
  /\ digests = FALSE
  /\ heap = {}
  /\ made = [t \in Threads |-> 0]
  /\ call = [t \in Threads |-> NoCall]

(***************************************************************************)
(* A thread calls one of the functions.                                    *)
(***************************************************************************)
Start(t, new) ==
  /\ At(t, "idle")
  /\ made[t] < MaxCalls
  /\ made' = [made EXCEPT ![t] = @ + 1]
  /\ Becomes(t, new)
  /\ UNCHANGED << once, digests, heap >>

CallSha256(t, text) ==
  Start(t, [NoCall EXCEPT !.fn = "sha256", !.at = "once", !.text = text])
CallGeneratePrivateKey(t) ==
  Start(t, [NoCall EXCEPT !.fn = "generate_private_key", !.at = "curve"])
CallGetAddress(t, key) ==
  Start(t, [NoCall EXCEPT !.fn = "get_address", !.at = "curve", !.key = key])
CallSign(t, key, text) ==
  Start(t, [NoCall EXCEPT !.fn = "sign", !.at = "curve", !.key = key, !.text = text])
CallVerify(t, key, text, signature) ==
  Start(t, [NoCall EXCEPT !.fn = "verify", !.at = "curve", !.key = key,
                          !.text = text, !.signature = signature])

(***************************************************************************)
(* sha256: init_(), the lookup of the digest, and its use.                 *)
(***************************************************************************)
(* A faulty init_: it does not wait for the thread that initialises.       *)
CallOnceNoWait(t) ==
  /\ At(t, "once")
  /\ once' = IF once = "new" THEN "running" ELSE once
  /\ Goto(t, IF once = "new" THEN "init" ELSE "lookup")
  /\ UNCHANGED << digests, heap, made >>

CallOnce(t) ==
  /\ At(t, "once")
  /\ once # "running"
  /\ once' = IF once = "new" THEN "running" ELSE once
  /\ Goto(t, IF once = "new" THEN "init" ELSE "lookup")
  /\ UNCHANGED << digests, heap, made >>

(* A faulty end of the initialisation: the flag stays "running".           *)
InitMainUnmarked(t) ==
  /\ At(t, "init")
  /\ digests' = TRUE
  /\ Goto(t, "lookup")
  /\ UNCHANGED << once, heap, made >>

InitMain(t) ==
  /\ At(t, "init")
  /\ digests' = TRUE
  /\ once' = "done"
  /\ Goto(t, "lookup")
  /\ UNCHANGED << heap, made >>

(* from_name() and create_ctx(), or the text returned without a digest.    *)
Lookup(t) ==
  /\ At(t, "lookup")
  /\ IF digests
     THEN /\ heap' = AfterMove(Object(t, "EVP_MD_CTX"))
          /\ Becomes(t, [call[t] EXCEPT !.holds = Object(t, "EVP_MD_CTX"),
                                        !.at = "hash"])
     ELSE /\ Returns(t, Sha256("md_sha256 not found"))
          /\ UNCHANGED heap
  /\ UNCHANGED << once, digests, made >>

Hash(t) ==
  /\ At(t, "hash")
  /\ Returns(t, Sha256(call[t].text))
  /\ UNCHANGED << once, digests, heap, made >>

(***************************************************************************)
(* The functions on keys: from_curve(), then the methods of ec_key.        *)
(***************************************************************************)
FromCurve(t) ==
  /\ At(t, "curve")
  /\ heap' = AfterMove(Object(t, "EC_KEY"))
  /\ Becomes(t, [call[t] EXCEPT
       !.holds = Object(t, "EC_KEY"),
       !.at = CASE call[t].fn = "generate_private_key" -> "generate"
                [] call[t].fn = "verify" -> "load public"
                [] OTHER -> "load private"])
  /\ UNCHANGED << once, digests, made >>

(* generate_key() and get_private_key(), or "" when the first fails.       *)
Generate(t) ==
  /\ At(t, "generate")
  /\ \E result \in { << >> } \cup { << key >> : key \in Keys } :
       Becomes(t, [call[t] EXCEPT !.result = result, !.public = result # << >>,
                                  !.at = "destroy"])
  /\ UNCHANGED << once, digests, heap, made >>

(* load_private_key_from_hex().  The BIGNUM on the stack is filled from    *)
(* the heap and never cleared.  When EC_POINT_mul() fails, the public key  *)
(* is not set, the point and the context stay allocated, and neither       *)
(* caller looks at the result.                                             *)
LeftByLoad(multiplied) ==
  {"BIGNUM"} \cup (IF multiplied THEN {} ELSE {"EC_POINT", "BN_CTX"})
LoadPrivate(t) ==
  /\ At(t, "load private")
  /\ \E multiplied \in BOOLEAN :
       /\ heap' = heap \cup { Object(t, kind) : kind \in LeftByLoad(multiplied) }
       /\ Becomes(t, [call[t] EXCEPT !.public = multiplied,
            !.at = IF call[t].fn = "sign" THEN "sign" ELSE "export"])
  /\ UNCHANGED << once, digests, made >>

(* load_public_key_from_hex(): the key takes a copy of the point.          *)
LoadPublic(t) ==
  /\ At(t, "load public")
  /\ Becomes(t, [call[t] EXCEPT !.public = TRUE, !.at = "verify"])
  /\ UNCHANGED << once, digests, heap, made >>

(* get_public_key(); without a public key the library is given a null      *)
(* point and the process stops.                                            *)
Export(t) ==
  /\ At(t, "export")
  /\ IF call[t].public THEN Returns(t, GetAddress(call[t].key))
                       ELSE Goto(t, "crashed")
  /\ UNCHANGED << once, digests, heap, made >>

(* ec_key::sign() and the text of its result.  The signature object is     *)
(* not freed.  When ECDSA_do_sign() fails, the text is empty.              *)
SignStep(t) ==
  /\ At(t, "sign")
  /\ \/ /\ \E der \in Ders(call[t].key, call[t].text) :
             Returns(t, BinaryToHexstring(der))
        /\ heap' = heap \cup {Object(t, "ECDSA_SIG")}
     \/ /\ Returns(t, << >>)
        /\ UNCHANGED heap
  /\ UNCHANGED << once, digests, made >>

(* hexstring_to_binary() and ec_key::verify().  When the text is no        *)
(* signature, the object made for it is left to d2i_ECDSA_SIG(), which may *)
(* or may not free it; otherwise it is freed.                              *)
VerifyStep(t) ==
  /\ At(t, "verify")
  /\ LET der == HexstringToBinary(call[t].signature)
     IN  /\ Returns(t, der \in Ders(call[t].key, call[t].text))
         /\ \/ UNCHANGED heap
            \/ /\ der \notin AllDers
               /\ heap' = heap \cup {Object(t, "ECDSA_SIG")}
  /\ UNCHANGED << once, digests, made >>

(* A faulty end of a call: the destructor does not run.                    *)
DestroyNothing(t) ==
  /\ At(t, "destroy")
  /\ Becomes(t, NoCall)
  /\ UNCHANGED << once, digests, heap, made >>

(* The destructor of md_ctx or ec_key, and the return to the caller.       *)
Destroy(t) ==
  /\ At(t, "destroy")
  /\ heap' = heap \ {call[t].holds}
  /\ Becomes(t, NoCall)
  /\ UNCHANGED << once, digests, made >>

Call(t) ==
  \/ \E text \in Texts : CallSha256(t, text)
  \/ CallGeneratePrivateKey(t)
  \/ \E key \in Keys : CallGetAddress(t, key)
  \/ \E key \in Keys, text \in Texts : CallSign(t, key, text)
  \/ \E key \in Keys, text \in Texts, signature \in SignatureTexts :
       CallVerify(t, key, text, signature)

(* A crash stops the process with all its threads.                         *)
Alive == \A t \in Threads : ~ At(t, "crashed")

Step(t) ==
  /\ Alive
  /\ \/ CallOnce(t) \/ InitMain(t) \/ Lookup(t) \/ Hash(t)
     \/ FromCurve(t) \/ Generate(t) \/ LoadPrivate(t) \/ LoadPublic(t)
     \/ Export(t) \/ SignStep(t) \/ VerifyStep(t) \/ Destroy(t)

Next == \E t \in Threads : (Alive /\ Call(t)) \/ Step(t)

(* A thread inside a function keeps running; nothing makes it call one.    *)
Spec == Init /\ [][Next]_cryptVars /\ \A t \in Threads : WF_cryptVars(Step(t))

(***************************************************************************)
(* Properties.                                                             *)
(***************************************************************************)
(* HandedAreLive: the EC_KEY or EVP_MD_CTX that the next step of a call    *)
(* hands to the library is allocated: no use after a free, and no second   *)
(* free by the destructor of a moved-from md_ctx or ec_key.                *)
BeforeObject == {"idle", "crashed", "once", "init", "lookup", "curve"}
HandedAreLive ==
  \A t \in Threads :
    call[t].at \notin BeforeObject =>
      \/ call[t].holds \in heap
      \/ At(t, "destroy") /\ call[t].holds = Null

(* EndedCallsClean: a call that ended left no EC_KEY and no EVP_MD_CTX,    *)
(* whichever library call failed in it; it left a point only together with *)
(* the context and the number of a failed multiplication.                  *)
Ended(t, n) == n < made[t] \/ (n = made[t] /\ At(t, "idle"))
Left(t, n) == { o.kind : o \in { p \in heap : p.thread = t /\ p.call = n } }
EndedCallsClean ==
  \A t \in Threads : \A n \in 1 .. made[t] :
    Ended(t, n) =>
      /\ Left(t, n) \cap {"EC_KEY", "EVP_MD_CTX"} = {}
      /\ Left(t, n) \cap {"EC_POINT", "BN_CTX"} # {} =>
           {"EC_POINT", "BN_CTX", "BIGNUM"} \subseteq Left(t, n)

(* CallsKeepPromise: a call that is about to return gives what module      *)
(* Crypt says: the digest (never the text for a digest that is not         *)
(* registered, although threads may race for the initialisation), the      *)
(* address of the key, a signature by the key over the text or nothing,    *)
(* and verify() is true exactly of the signatures by the key over the      *)
(* text, after their bytes went through hexadecimal text and back.         *)
SignatureOf(signature) ==
  IF \E key \in Keys, text \in Texts :
       \E der \in Ders(key, text) : signature = BinaryToHexstring(der)
  THEN LET made_by == CHOOSE p \in Keys \X Texts :
             \E der \in Ders(p[1], p[2]) : signature = BinaryToHexstring(der)
       IN  Sign(made_by[1], made_by[2])
  ELSE NoSignature
Kept(c) ==
  CASE c.fn = "sha256"      -> c.result = Sha256(c.text)
    [] c.fn = "get_address" -> c.result = GetAddress(c.key)
    [] c.fn = "sign"        -> \/ c.result = << >>
                               \/ SignatureOf(c.result) = Sign(c.key, c.text)
    [] c.fn = "verify"      -> c.result = Verify(GetAddress(c.key), c.text,
                                                 SignatureOf(c.signature))
    [] OTHER                -> TRUE
CallsKeepPromise ==
  \A t \in Threads : At(t, "destroy") => Kept(call[t])

(* CallsReturn: every call returns, unless the process crashes.  A thread  *)
(* that meets a running initialisation waits for another thread's.         *)
CallsReturn == \A t \in Threads : ~ At(t, "idle") ~> At(t, "idle") \/ ~ Alive
=============================================================================
