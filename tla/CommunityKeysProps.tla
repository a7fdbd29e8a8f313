------------------------- MODULE CommunityKeysProps -------------------------
(* What the keys of a community promise while members come and go.          *)
EXTENDS CommunityKeys

(* The state has the shape of the tables and of the clients' stores; K_meta *)
(* is kept for one epoch, and nothing is granted beyond the current one.    *)
KeysTypeOK ==
  /\ epoch \in [Key -> Epochs]
  /\ commitment \in [Key -> [Epochs -> Account \cup {NoOne}]]
  /\ grants \in [Key -> SUBSET [epoch : Epochs, to : Account, minter : Account]]
  /\ held \in [Key -> [Account -> [Epochs -> Account \cup {NoOne}]]]
  /\ highWater \in [Account -> Epochs]
  /\ \A k \in Key : \A g \in grants[k] : g.epoch <= epoch[k]
  /\ \A d \in Account : Cardinality(HeldEpochs("meta", d)) <= 1

(* A grant of the current key exists for x, or is about to be written. *)
Reaches(k, x) ==
  \/ x \in GrantedTo(k, epoch[k])
  \/ \E d \in Account :
       /\ Doing(d, IF k = "meta" THEN "metaGrant" ELSE "grant", "insert")
       /\ task[d].epoch = epoch[k] /\ x \in task[d].to

Out(k, x) == member[x] # "active" \/ (k = "channel" /\ ~InChannel(x))

(* The handler that put x out has yet to ask for a new key. *)
Asking(k, x) ==
  \E s \in Slot : call[s] # NoCall /\ call[s].step = "flag" /\ x \in call[s].on
                  /\ (k = "meta" <=> call[s].op \in {"remove", "leave"})
                  /\ call[s].op # "moderator" /\ call[s].op # "role"

(* Whoever is out while the current key still reaches them has left a       *)
(* durable request for a new one, or the handler is about to write it:      *)
(* whatever rotations and grants cross the exits, if the server's handlers   *)
(* come one at a time.                                                       *)
OutIsFlagged ==
  load.serial /\ ~load.crash => \A k \in Key, x \in Account :
    Out(k, x) /\ Reaches(k, x) => pending[k] \/ Asking(k, x)

(* One key for each epoch: whatever device holds one for an epoch holds the *)
(* key whose commitment is published, however rotations cross.              *)
OneKeyPerEpoch ==
  \A k \in Key, d \in Account, e \in Epochs :
    held[k][d][e] # NoOne => held[k][d][e] = commitment[k][e]

(* The current K_channel is never lost: its minter holds it or finds it in  *)
(* a grant, also when the answer to the rotation never arrived.             *)
KeyRecoverable ==
  LET e == epoch["channel"]
      m == commitment["channel"][e]
  IN  m # NoOne /\ (held["channel"][m][e] = m \/ m \in GrantedTo("channel", e))

(* A key is the one that was committed to, and is never lost, however       *)
(* rotations cross and whatever answer is lost.                              *)
KeyInvariant == KeysTypeOK /\ OneKeyPerEpoch /\ KeyRecoverable

(* A device that was told of the current key when it fetched, and knows who *)
(* minted it, never seals a message under an older one; and one that holds   *)
(* the community's current K_meta adopts only an owner's, a leader's or a     *)
(* moderator's K_channel.                                                      *)
KeysVetted ==
  [][\A d \in Account :
       /\ SendSeal(d) /\ task[d].who # NoOne =>
            Latest("channel", d) >= task[d].epoch
       /\ \A e \in Epochs :
            held["channel"][d][e] = NoOne /\ held["channel"]'[d][e] \notin {NoOne, d} /\ Fresh(d) =>
              MayMint(d, held["channel"]'[d][e])]_allVars

(* A request for a new K_channel does not stay unanswered: not while some   *)
(* manager whose client stays open stays in the channel, whatever crosses.  *)
Rotates ==
  ~load.lossy => \A d \in Account :
    ~ <>[](/\ pending["channel"] /\ epoch["channel"] < load.epochs
           /\ MayDo(d, "rotate")
           /\ IsManager(d) /\ Entitled("channel", d))
=============================================================================
