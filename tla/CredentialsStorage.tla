------------------------- MODULE CredentialsStorage --------------------------
(***************************************************************************)
(* CredentialsStorage: the credentials of devices, each encrypted with a   *)
(* key made of the passphrase of the gateway and of parameters kept beside *)
(* it.  save() writes them into a configuration that outlives the process, *)
(* load() reads it; other people write into that configuration, too.       *)
(***************************************************************************)
EXTENDS Naturals, Functions

CONSTANTS Devices, Salts,         \* Salts: what randomString() may return
          Contents,               \* what is put: functions from fields to texts
          Algorithms, Iterations, \* what CryptoConfig may be set to
          Foreign                 \* what others have in the configuration: key |-> fields

VARIABLES storage,  \* m_credentialsMap
          conf,     \* the configuration: key |-> its fields
          crypto,   \* CryptoConfig
          put,      \* device |-> what somebody has put into the storage
          saved,    \* the same when it was saved
          loaded    \* load() has just been called

credentialsVars == <<storage, conf, crypto, put, saved, loaded>>

Fields == [password |-> {"username", "password"}, pin |-> {"pin"}]  \* m_factory

DefaultAlgorithm == "aes256"
DefaultIterations == 2000  \* CipherKey::DEFAULT_ITERATION_COUNT

CredentialsInit ==
  /\ storage = <<>> /\ conf = <<>> /\ put = <<>> /\ saved = <<>> /\ loaded = FALSE
  /\ crypto = [algorithm |-> DefaultAlgorithm, it |-> DefaultIterations]

(* The fields of both; where they meet, those of the first. *)
Over(first, second) ==
  [field \in DOMAIN first \cup DOMAIN second |->
     IF field \in DOMAIN first THEN first[field] ELSE second[field]]

Insert(map, device, value) == Over([d \in {device} |-> value], map)

(* Somebody else writes into the configuration. *)
Edit ==
  /\ conf = <<>> /\ conf' = Foreign /\ loaded' = FALSE
  /\ UNCHANGED <<storage, crypto, put, saved>>

(* deriveParams(): without a salt none, with one a random one. *)
DeriveParams(salt) ==
  {[name |-> crypto.algorithm, salt |-> s, it |-> crypto.it] :
     s \in IF salt = "" THEN {""} ELSE Salts}

(* toString() leaves out what is empty, parse() has it empty again. *)
EmptyParams == [name |-> "", salt |-> "", it |-> 0]
ParamsText(params) == Restrict(params, {field \in DOMAIN params : params[field] # EmptyParams[field]})
ParseParams(text) == Over(text, EmptyParams)

(* A cipher of Poco gives the text back to the key it was encrypted with.  *)
Encrypt(key, text) == [key |-> key, text |-> text]
Decrypt(key, cipher) == IF cipher.key = key THEN cipher.text ELSE "garbage"

(* createKey(): of the parameters; only the algorithm has to be ours. *)
CreateKey(params) == IF params.name = crypto.algorithm THEN {params} ELSE {}

TypeOf(text) == CHOOSE type \in DOMAIN Fields : Fields[type] = DOMAIN text

(* insertOrUpdate() of credentials that have just been made. *)
InsertOrUpdate(device, type, salt, text) ==
  /\ \E params \in DeriveParams(salt) : \E key \in CreateKey(params) :
       storage' = Insert(storage, device, [type |-> type, params |-> params,
                           ciphers |-> [f \in Fields[type] |-> Encrypt(key, text[f])]])
  /\ put' = Insert(put, device, text)
  /\ loaded' = FALSE
  /\ UNCHANGED <<conf, crypto, saved>>

RemoveCredentials(device) ==
  /\ device \in DOMAIN storage
  /\ storage' = Restrict(storage, DOMAIN storage \ {device})
  /\ put' = Restrict(put, DOMAIN put \ {device})
  /\ loaded' = FALSE
  /\ UNCHANGED <<conf, crypto, saved>>

(* save(): field by field over what is there; nothing is taken out. *)
SavedFields(credential) ==
  Over([type |-> credential.type, params |-> ParamsText(credential.params)], credential.ciphers)

Save ==
  /\ conf' = [key \in DOMAIN storage \cup DOMAIN conf |->
                IF key \notin DOMAIN storage THEN conf[key]
                ELSE Over(SavedFields(storage[key]), IF key \in DOMAIN conf THEN conf[key] ELSE <<>>)]
  /\ saved' = Over(put, saved)
  /\ loaded' = FALSE
  /\ UNCHANGED <<storage, crypto, put>>

(* The factories take the fields of their type; create() throws without.  *)
Creatable(fields) ==
  /\ {"type", "params"} \subseteq DOMAIN fields /\ fields.type \in DOMAIN Fields
  /\ Fields[fields.type] \subseteq DOMAIN fields

Create(fields) ==
  [type |-> fields.type, params |-> ParseParams(fields.params),
   ciphers |-> Restrict(fields, Fields[fields.type])]

(* load(): what is no device or cannot be created is skipped. *)
Load ==
  LET keys == {key \in DOMAIN conf \cap Devices : Creatable(conf[key])}
  IN  /\ storage' = Over([key \in keys |-> Create(conf[key])], storage)
      /\ put' = Over(Restrict(saved, keys \cap DOMAIN saved), Restrict(put, DOMAIN put \ keys))
      /\ loaded' = TRUE
      /\ UNCHANGED <<conf, crypto, saved>>

Restart ==
  /\ storage' = <<>> /\ put' = <<>> /\ loaded' = FALSE
  /\ crypto' \in [algorithm : Algorithms, it : Iterations]
  /\ UNCHANGED <<conf, saved>>

CredentialsNext ==
  \/ \E device \in Devices, text \in Contents, salt \in {"", "given"} :
       InsertOrUpdate(device, TypeOf(text), salt, text)
  \/ \E device \in Devices : RemoveCredentials(device)
  \/ Edit \/ Save \/ Load \/ Restart

(* Whoever finds the credentials of a device and decrypts them gets what   *)
(* somebody has put there or what was saved last, whichever type was saved *)
(* for the device before and however many iterations are configured since; *)
(* or is refused, when the algorithm is another one.  And load() finds     *)
(* everything that was saved, whatever else is in the configuration.       *)
CredentialsReadBack ==
  /\ \A device \in DOMAIN storage \cap DOMAIN put :
       LET credential == storage[device]
       IN  /\ DOMAIN credential.ciphers = DOMAIN put[device]
           /\ \A key \in CreateKey(credential.params), field \in DOMAIN put[device] :
                Decrypt(key, credential.ciphers[field]) = put[device][field]
  /\ loaded => DOMAIN saved \subseteq DOMAIN storage
=============================================================================
