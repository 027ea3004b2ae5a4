----------------------------- MODULE Authorization -----------------------------
(***************************************************************************)
(* The two decisions of src/src/model_interface.rs that say whether an     *)
(* adapter may be created: resolve_index, before the registration is sent, *)
(* and decode_authorization, on the mirror's reply.                        *)
(*                                                                         *)
(* A key is [digest, adapter, profile, version].  A reply is [kind,        *)
(* extension], its modelInterface member a record or NoExtension:          *)
(*   strict      the line is strict JSON, its members and their types are  *)
(*               those the code accepts                                    *)
(*   schema      it names mirrors.model-interface-negotiation/v1           *)
(*   status, descriptorSchema, digest, expected, code                      *)
(*   payload     it carries descriptor or descriptorBytes                  *)
(*   provenance  it carries provenanceDigest                               *)
(* with Absent for a member that is missing or null.  The code has a few   *)
(* more names for a reply that is not strict (a malformed digest, say);    *)
(* here every one of them is negotiation_status_unexpected.                *)
(***************************************************************************)
EXTENDS Naturals, Sequences, FiniteSets

CONSTANTS
    NoExtension, Absent,
    DescriptorSchema        \* mirrors.model-interface/v1

Refused(code)  == [verdict |-> "error", code |-> code]
Granted(how)   == [verdict |-> how, code |-> ""]
Unexpected     == Refused("negotiation_status_unexpected")

(***************************************************************************)
(* resolve_index.  A registry is a sequence of keys.                       *)
(***************************************************************************)
Exact(registry, key) == {i \in 1..Len(registry) : registry[i] = key}

Identity(registry, key) ==
    {registry[i] : i \in {j \in 1..Len(registry) : /\ registry[j].digest = key.digest
                                                   /\ registry[j].adapter = key.adapter}}

Resolved(registry, key) == Cardinality(Exact(registry, key)) = 1

ResolveIndex(registry, key) == CHOOSE i \in Exact(registry, key) : TRUE

ResolveError(registry, key) ==
    IF Exact(registry, key) # {} THEN "adapter_ambiguous"
    ELSE IF Identity(registry, key) = {} THEN "adapter_not_registered"
    ELSE IF \A k \in Identity(registry, key) : k.profile # key.profile
         THEN "target_profile_mismatch"
    ELSE "state_computer_contract_mismatch"

(***************************************************************************)
(* decode_authorization.                                                   *)
(***************************************************************************)
Statuses == {"matched", "resolved", "not_modified", "mismatch", "unsupported",
             "unavailable", "too_large"}

FallbackOr(policy, offered, code) ==
    IF policy = "prefer" /\ offered THEN Granted("fallback") ELSE Refused(code)

Matches(ext, pin) ==
    ext.descriptorSchema = DescriptorSchema /\ ext.digest = pin /\ ~ext.payload

Bare_Unchecked(ext) == TRUE
Bare(ext) == ext.descriptorSchema = Absent /\ ext.digest = Absent
                 /\ ~ext.provenance /\ ~ext.payload

OnValid(ext, policy, offered, pin) ==
    CASE ext.status = "matched" ->
           IF Absent \in {ext.descriptorSchema, ext.digest} THEN Unexpected
           ELSE IF Matches(ext, pin) THEN Granted("matched")
           ELSE Refused("interface_digest_mismatch")
      [] ext.status \in {"unsupported", "unavailable"} ->
           IF Bare(ext) THEN FallbackOr(policy, offered, "negotiation_status_unexpected")
           ELSE Unexpected
      [] ext.status = "mismatch" /\ ~ext.payload -> Refused("interface_digest_mismatch")
      [] OTHER -> Unexpected

OnRegisterError(ext, pin) ==
    IF \/ ext.status \notin {"mismatch", "unsupported", "unavailable"}
       \/ ext.code = "" THEN Unexpected
    ELSE IF ext.expected \notin {Absent, pin} THEN Refused("interface_digest_mismatch")
    ELSE IF \/ ext.status = "mismatch" /\ ext.expected = Absent
            \/ ext.payload THEN Unexpected
    ELSE Refused(ext.code)

\* The first check of either branch; a status that is unknown is not accepted.
Sound(ext) == ext.strict /\ ext.schema /\ ext.status \in Statuses

Missing(policy, offered) ==
    FallbackOr(policy, offered, IF policy = "prefer" THEN "legacy_fallback_unavailable"
                                ELSE "negotiation_missing")

DecodeAuthorization(reply, policy, offered, pin) ==
    CASE reply.kind = "spec_valid" ->
           IF reply.extension = NoExtension THEN Missing(policy, offered)
           ELSE IF Sound(reply.extension) THEN OnValid(reply.extension, policy, offered, pin)
           ELSE Unexpected
      [] reply.kind = "register_error" ->
           IF reply.extension = NoExtension THEN Refused("register_error")
           ELSE IF Sound(reply.extension) THEN OnRegisterError(reply.extension, pin)
           ELSE Unexpected
      [] reply.kind \in {"transport_closed", "spec_invalid", "protocol_error"} ->
           Refused(reply.kind)
      [] OTHER -> Unexpected
=============================================================================
