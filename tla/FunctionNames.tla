--------------------------- MODULE FunctionNames ----------------------------
(***************************************************************************)
(* The names a provider is given for the Tools of a request (model/names.go*)
(* ): Tool IDs that it does not take are rewritten, two may come out the   *)
(* same, and what the Model calls by name is a Tool again.  IDs are given  *)
(* by what they are rewritten to, the hash of one by the ID itself.        *)
(***************************************************************************)
EXTENDS Naturals, Sequences, SequencesExt

CONSTANTS
  Rewritten,   \* providerFunctionName, of every Tool ID
  Hashed,      \* hashedFunctionName
  NameLoads    \* the Tool IDs of requests: those of its Tools, of those not
               \* loaded and of the calls in its history, in that order

VARIABLES
  ids,      \* the IDs still to be named
  names,    \* provider name -> Tool ID
  encoded,  \* the request as it is sent: what each ID goes out as
  naming    \* the step, and the request

nameVars == <<ids, names, encoded, naming>>

\* plainFunctionName: a name the provider takes as it is.
Plain(id) == Rewritten[id] = id

Init ==
  /\ \E load \in NameLoads : ids = load /\ naming = [at |-> "plain", request |-> load]
  /\ names = <<>>
  /\ encoded = <<>>

With(f, key, value) == [k \in DOMAIN f \cup {key} |-> IF k = key THEN value ELSE f[k]]

\* functionNames: the IDs that go out unchanged claim their names first.
ClaimPlain ==
  /\ naming.at = "plain"
  /\ names' = [id \in {i \in ToSet(ids) : Plain(i)} |-> id]
  /\ naming' = [naming EXCEPT !.at = "assign"]
  /\ UNCHANGED <<ids, encoded>>

Taken(name, id) == name \in DOMAIN names /\ names[name] # id

\* assignFunctionName.
NameOf(id) == IF Taken(Rewritten[id], id) THEN Hashed[id] ELSE Rewritten[id]

Collide == naming' = [naming EXCEPT !.at = "refused"] /\ UNCHANGED <<ids, names, encoded>>

Assign ==
  /\ naming.at = "assign"
  /\ IF ids = <<>>
     THEN /\ ids' = naming.request
          /\ naming' = [naming EXCEPT !.at = "encode"]
          /\ UNCHANGED <<names, encoded>>
     ELSE LET id == Head(ids)
          IN IF Taken(NameOf(id), id) THEN Collide
             ELSE /\ names' = With(names, NameOf(id), id)
                  /\ ids' = Tail(ids)
                  /\ UNCHANGED <<encoded, naming>>

\* The encoders of the three wire APIs name each Tool and each call again.
Encode ==
  /\ naming.at = "encode"
  /\ IF ids = <<>>
     THEN naming' = [naming EXCEPT !.at = "sent"] /\ UNCHANGED <<ids, names, encoded>>
     ELSE LET id == Head(ids)
          IN IF Taken(NameOf(id), id) THEN Collide
             ELSE /\ names' = With(names, NameOf(id), id)
                  /\ encoded' = With(encoded, id, NameOf(id))
                  /\ ids' = Tail(ids)
                  /\ UNCHANGED naming

Next == ClaimPlain \/ Assign \/ Encode
Goes == Next

-----------------------------------------------------------------------------

\* Of a request that is sent: what the Model calls by a name it was shown is the
\* Tool that went out under it, no two Tools share a name, and a Tool whose ID
\* the provider takes goes out under its ID, whatever order the others come in,
\* so that the names in the history mean in every request what they meant.
CallsNameTheirTool ==
  naming.at = "sent" =>
    \A id \in ToSet(naming.request) :
      /\ id \in DOMAIN encoded
      /\ names[encoded[id]] = id
      /\ Plain(id) => encoded[id] = id
      /\ \A other \in ToSet(naming.request) : encoded[other] = encoded[id] => other = id

\* A request is refused only for an ID that is the hashed name of another.
RefusedForHashesOnly ==
  naming.at = "refused" =>
    \E id, other \in ToSet(naming.request) : id # other /\ Hashed[id] \in {Rewritten[other], Hashed[other]}

\* The request is named.
NamesEnd == naming.at \in {"sent", "refused"}
=============================================================================
