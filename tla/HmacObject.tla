------------------------------ MODULE HmacObject ------------------------------
(***************************************************************************)
(* class libaan::hmac (libaan/crypto.cc): the constructor takes a          *)
(* reference to the caller's string, update() takes pieces of text, the   *)
(* destructor puts the HMAC into the string.  Objects may share a string.  *)
(* What a string holds is symbolic; only sizes 0 and at least 20 matter.   *)
(***************************************************************************)
EXTENDS Naturals, Sequences

CONSTANTS Hmacs, Outputs,  \* objects, and the caller's strings
          PieceBound       \* bound: pieces given to one object

VARIABLES
  hmac_state,  \* of each object: "none", "true", "false"
  refers_to,   \* the string each object refers to (out)
  offered,     \* history: pieces update() was called with
  refused,     \* history: whether the constructor or an update() failed
  strings      \* what each string holds

hvars == <<hmac_state, refers_to, offered, refused, strings>>

Empty == <<"empty">>
Callers == <<"callers">>  \* anything of the caller's, of 20 bytes or more
Sized == <<"sized">>      \* 20 bytes left by a constructor
Zeros == <<"zeros">>      \* 20 bytes 0
Digest(pieces) == <<"digest">> \o pieces

-----------------------------------------------------------------------------
HmacInit ==
  /\ hmac_state = [o \in Hmacs |-> "none"] /\ refers_to \in [Hmacs -> Outputs]
  /\ offered = [o \in Hmacs |-> <<>>] /\ refused = [o \in Hmacs |-> FALSE]
  /\ strings \in [Outputs -> {Empty, Callers}]

\* out.resize(SIZE), and HMAC_Init_ex, which may fail.
ConstructHmac(o, s) ==
  /\ hmac_state[o] = "none"
  /\ refers_to' = [refers_to EXCEPT ![o] = s]
  /\ strings' = [strings EXCEPT ![s] = Sized]
  /\ offered' = [offered EXCEPT ![o] = <<>>]
  /\ \E works \in {"true", "false"} :
       /\ hmac_state' = [hmac_state EXCEPT ![o] = works]
       /\ refused' = [refused EXCEPT ![o] = works = "false"]

\* Mutated form: a failed update is forgotten.
Forgotten == "true"

Failed == "false"

\* update(): refused after a failure; HMAC_Update may fail.
UpdateHmac(o, piece) ==
  /\ hmac_state[o] # "none" /\ Len(offered[o]) < PieceBound
  /\ offered' = [offered EXCEPT ![o] = Append(@, piece)]
  /\ \/ hmac_state[o] = "true" /\ UNCHANGED <<hmac_state, refused>>
     \/ /\ hmac_state' = [hmac_state EXCEPT ![o] = Failed]
        /\ refused' = [refused EXCEPT ![o] = TRUE]
  /\ UNCHANGED <<refers_to, strings>>

\* HMAC_Final writes 20 bytes whatever the string's size is; resize() behind it
\* fills a string that was empty with zeros.
Final(o) == IF strings[refers_to[o]] = Empty THEN Zeros ELSE Digest(offered[o])

\* What the destructor leaves: nothing when HMAC_Final fails.
Left(o) == {Empty} \cup IF hmac_state[o] = "true" THEN {Final(o)} ELSE {}

DestroyHmac(o) ==
  /\ hmac_state[o] # "none"
  /\ \E t \in Left(o) : strings' = [strings EXCEPT ![refers_to[o]] = t]
  /\ hmac_state' = [hmac_state EXCEPT ![o] = "none"]
  /\ UNCHANGED <<refers_to, offered, refused>>

\* The caller clears the string, or puts another text there.
CallerWrites(s) ==
  /\ \E t \in {Empty, Callers} : strings' = [strings EXCEPT ![s] = t]
  /\ UNCHANGED <<hmac_state, refers_to, offered, refused>>

HmacNext ==
  \/ \E o \in Hmacs, s \in Outputs : ConstructHmac(o, s)
  \/ \E o \in Hmacs, piece \in {"a", "b"} : UpdateHmac(o, piece)
  \/ \E o \in Hmacs : DestroyHmac(o)
  \/ \E s \in Outputs : CallerWrites(s)

HmacSpec == HmacInit /\ [][HmacNext]_hvars

-----------------------------------------------------------------------------
(* Properties.                                                             *)

\* What strings and lists of pieces are made of.
Marks == {"empty", "callers", "sized", "zeros", "digest", "a", "b"}

\* Every variable has its type.
HmacTypeOK ==
  /\ hmac_state \in [Hmacs -> {"none", "true", "false"}] /\ refused \in [Hmacs -> BOOLEAN]
  /\ refers_to \in [Hmacs -> Outputs] /\ offered \in [Hmacs -> Seq(Marks)]
  /\ strings \in [Outputs -> Seq(Marks)]

Destroyed(o) == hmac_state[o] # "none" /\ hmac_state'[o] = "none"

\* crypto.hh: "It is empty on failure".  At its end an object leaves the HMAC of
\* all pieces it was offered, or nothing; nothing, if it ever said false.  Only
\* when its string was emptied before, by the caller or by another object on it
\* that had failed, does it leave 20 zeros for an HMAC.
AllOrNothing ==
  [][\A o \in Hmacs : Destroyed(o) =>
       LET t == strings'[refers_to[o]]
       IN  \/ t = Empty
           \/ ~refused[o] /\ t = Digest(offered[o])
           \/ ~refused[o] /\ t = Zeros /\ strings[refers_to[o]] = Empty]_hvars
=============================================================================
