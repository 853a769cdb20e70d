----------------------------- MODULE Definitions -----------------------------
(***************************************************************************)
(* src/src/amqp_definitions.c, the code that the generator wrote for the   *)
(* composite types of AMQP: one table entry per function, each read from   *)
(* its own function.  Indices are those of the code, from 0.               *)
(*                                                                         *)
(*   T_create          the descriptor (also that of is_T_type_by_descriptor) *)
(*                     and the items that T_create sets;                   *)
(*   amqpvalue_get_T   what the items of a received list must be;          *)
(*   T_f               item, type and default that T_get_f reads, and item *)
(*                     and type that T_set_f writes;                       *)
(*   T_type            the functions of the type.                          *)
(*                                                                         *)
(* Composites.tla says what the functions do with their entries.           *)
(***************************************************************************)
EXTENDS Naturals, Sequences, TLC

\* An argument of T_create: the item it becomes and the type it is created as;
\* "any" is an AMQP_VALUE that is stored as it is.
Arg(name, at, type) == [name |-> name, at |-> at, type |-> type]
Create(descriptor, args) == [descriptor |-> descriptor, args |-> args]

\* The checks of amqpvalue_get_T on an item.
Check(must, many, type) == [must |-> must, many |-> many, type |-> type]
Must(type) == Check(TRUE, FALSE, type)        \* mandatory
May(type) == Check(FALSE, FALSE, type)        \* absent, null or of the type
MustMany(type) == Check(TRUE, TRUE, type)     \* or an array
MayMany(type) == Check(FALSE, TRUE, type)
Unchecked == Check(FALSE, FALSE, "any")             \* not looked at

\* The getters.  One that reads many makes an array of a single item and
\* writes it back to item `back'.
NoDefault == "MU_FAILURE"
Getter(at, type, default, many, back) ==
    [at |-> at, type |-> type, default |-> default, many |-> many, back |-> back]
Get(at, type) == Getter(at, type, NoDefault, FALSE, at)
GetAny(at) == Getter(at, "any", NoDefault, FALSE, at)
GetOr(at, type, default) == Getter(at, type, default, FALSE, at)
GetMany(at, type, back) == Getter(at, type, NoDefault, TRUE, back)
Set(at, type) == [at |-> at, type |-> type]

Field(name, get, set) == [name |-> name, get |-> get, set |-> set]
Composite(create, checks, fields) == [create |-> create, checks |-> checks, fields |-> fields]

-----------------------------------------------------------------------------
\* The types that are other names of a primitive type, for both
\* amqpvalue_create_T and amqpvalue_get_T.

transport_types ==
    [role |-> "boolean", sender_settle_mode |-> "ubyte", receiver_settle_mode |-> "ubyte",
     handle |-> "uint", seconds |-> "uint", milliseconds |-> "uint",
     delivery_tag |-> "binary", sequence_no |-> "uint", delivery_number |-> "uint",
     transfer_number |-> "uint", message_format |-> "uint",
     ietf_language_tag |-> "symbol", fields |-> "map"]

sasl_types == [sasl_code |-> "ubyte"]

terminus_types ==
    [terminus_durability |-> "uint", terminus_expiry_policy |-> "symbol",
     node_properties |-> "map", filter_set |-> "map"]

aliases == transport_types @@ sasl_types @@ terminus_types

primitive(type) == IF type \in DOMAIN aliases THEN aliases[type] ELSE type

-----------------------------------------------------------------------------

\* error
error_create == Create(29, <<Arg("condition", 0, "symbol")>>)
amqpvalue_get_error == <<Must("symbol"), May("string"), May("fields")>>
error_condition == Field("condition", Get(0, "symbol"), Set(0, "symbol"))
error_description == Field("description", Get(1, "string"), Set(1, "string"))
error_info == Field("info", Get(2, "fields"), Set(2, "fields"))
error_type == Composite(error_create, amqpvalue_get_error, <<error_condition,
        error_description, error_info>>)

\* open
open_create == Create(16, <<Arg("container_id", 0, "string")>>)
amqpvalue_get_open == <<Must("string"), May("string"), May("uint"), May("ushort"),
        May("milliseconds"), MayMany("ietf_language_tag"),
        MayMany("ietf_language_tag"), MayMany("symbol"), MayMany("symbol"),
        May("fields")>>
open_container_id == Field("container_id", Get(0, "string"), Set(0, "string"))
open_hostname == Field("hostname", Get(1, "string"), Set(1, "string"))
open_max_frame_size ==
    Field("max_frame_size", GetOr(2, "uint", "4294967295"), Set(2, "uint"))
open_channel_max == Field("channel_max", GetOr(3, "ushort", "65535"), Set(3, "ushort"))
open_idle_time_out == Field("idle_time_out", Get(4, "milliseconds"), Set(4, "milliseconds"))
open_outgoing_locales ==
    Field("outgoing_locales", GetMany(5, "ietf_language_tag", 5), Set(5, "any"))
open_incoming_locales ==
    Field("incoming_locales", GetMany(6, "ietf_language_tag", 6), Set(6, "any"))
open_offered_capabilities ==
    Field("offered_capabilities", GetMany(7, "symbol", 7), Set(7, "any"))
open_desired_capabilities ==
    Field("desired_capabilities", GetMany(8, "symbol", 8), Set(8, "any"))
open_properties == Field("properties", Get(9, "fields"), Set(9, "fields"))
open_type == Composite(open_create, amqpvalue_get_open, <<open_container_id,
        open_hostname, open_max_frame_size, open_channel_max, open_idle_time_out,
        open_outgoing_locales, open_incoming_locales, open_offered_capabilities,
        open_desired_capabilities, open_properties>>)

\* begin
begin_create == Create(17, <<Arg("next_outgoing_id", 1, "transfer_number"),
        Arg("incoming_window", 2, "uint"), Arg("outgoing_window", 3, "uint")>>)
amqpvalue_get_begin == <<May("ushort"), Must("transfer_number"), Must("uint"),
        Must("uint"), May("handle"), MayMany("symbol"), MayMany("symbol"),
        May("fields")>>
begin_remote_channel == Field("remote_channel", Get(0, "ushort"), Set(0, "ushort"))
begin_next_outgoing_id ==
    Field("next_outgoing_id", Get(1, "transfer_number"), Set(1, "transfer_number"))
begin_incoming_window == Field("incoming_window", Get(2, "uint"), Set(2, "uint"))
begin_outgoing_window == Field("outgoing_window", Get(3, "uint"), Set(3, "uint"))
begin_handle_max == Field("handle_max", GetOr(4, "handle", "4294967295"), Set(4, "handle"))
begin_offered_capabilities ==
    Field("offered_capabilities", GetMany(5, "symbol", 5), Set(5, "any"))
begin_desired_capabilities ==
    Field("desired_capabilities", GetMany(6, "symbol", 6), Set(6, "any"))
begin_properties == Field("properties", Get(7, "fields"), Set(7, "fields"))
begin_type == Composite(begin_create, amqpvalue_get_begin, <<begin_remote_channel,
        begin_next_outgoing_id, begin_incoming_window, begin_outgoing_window,
        begin_handle_max, begin_offered_capabilities, begin_desired_capabilities,
        begin_properties>>)

\* attach
attach_create == Create(18, <<Arg("name", 0, "string"),
        Arg("handle", 1, "handle"), Arg("role", 2, "role")>>)
amqpvalue_get_attach == <<Must("string"), Must("handle"), Must("role"),
        May("sender_settle_mode"), May("receiver_settle_mode"), Unchecked,
        Unchecked, May("map"), May("boolean"), May("sequence_no"), May("ulong"),
        MayMany("symbol"), MayMany("symbol"), May("fields")>>
attach_name == Field("name", Get(0, "string"), Set(0, "string"))
attach_handle == Field("handle", Get(1, "handle"), Set(1, "handle"))
attach_role == Field("role", Get(2, "role"), Set(2, "role"))
attach_snd_settle_mode ==
    Field("snd_settle_mode", GetOr(3, "sender_settle_mode", "sender_settle_mode_mixed"),
          Set(3, "sender_settle_mode"))
attach_rcv_settle_mode ==
    Field("rcv_settle_mode", GetOr(4, "receiver_settle_mode", "receiver_settle_mode_first"),
          Set(4, "receiver_settle_mode"))
attach_source == Field("source", GetAny(5), Set(5, "any"))
attach_target == Field("target", GetAny(6), Set(6, "any"))
attach_unsettled == Field("unsettled", Get(7, "map"), Set(7, "any"))
attach_incomplete_unsettled ==
    Field("incomplete_unsettled", GetOr(8, "boolean", "false"), Set(8, "boolean"))
attach_initial_delivery_count ==
    Field("initial_delivery_count", Get(9, "sequence_no"), Set(9, "sequence_no"))
attach_max_message_size == Field("max_message_size", Get(10, "ulong"), Set(10, "ulong"))
attach_offered_capabilities ==
    Field("offered_capabilities", GetMany(11, "symbol", 11), Set(11, "any"))
attach_desired_capabilities ==
    Field("desired_capabilities", GetMany(12, "symbol", 12), Set(12, "any"))
attach_properties == Field("properties", Get(13, "fields"), Set(13, "fields"))
attach_type == Composite(attach_create, amqpvalue_get_attach, <<attach_name,
        attach_handle, attach_role, attach_snd_settle_mode,
        attach_rcv_settle_mode, attach_source, attach_target, attach_unsettled,
        attach_incomplete_unsettled, attach_initial_delivery_count,
        attach_max_message_size, attach_offered_capabilities,
        attach_desired_capabilities, attach_properties>>)

\* flow
flow_create == Create(19, <<Arg("incoming_window", 1, "uint"),
        Arg("next_outgoing_id", 2, "transfer_number"),
        Arg("outgoing_window", 3, "uint")>>)
amqpvalue_get_flow == <<May("transfer_number"), Must("uint"),
        Must("transfer_number"), Must("uint"), May("handle"), May("sequence_no"),
        May("uint"), May("uint"), May("boolean"), May("boolean"), May("fields")>>
flow_next_incoming_id ==
    Field("next_incoming_id", Get(0, "transfer_number"), Set(0, "transfer_number"))
flow_incoming_window == Field("incoming_window", Get(1, "uint"), Set(1, "uint"))
flow_next_outgoing_id ==
    Field("next_outgoing_id", Get(2, "transfer_number"), Set(2, "transfer_number"))
flow_outgoing_window == Field("outgoing_window", Get(3, "uint"), Set(3, "uint"))
flow_handle == Field("handle", Get(4, "handle"), Set(4, "handle"))
flow_delivery_count == Field("delivery_count", Get(5, "sequence_no"), Set(5, "sequence_no"))
flow_link_credit == Field("link_credit", Get(6, "uint"), Set(6, "uint"))
flow_available == Field("available", Get(7, "uint"), Set(7, "uint"))
flow_drain == Field("drain", GetOr(8, "boolean", "false"), Set(8, "boolean"))
flow_echo == Field("echo", GetOr(9, "boolean", "false"), Set(9, "boolean"))
flow_properties == Field("properties", Get(10, "fields"), Set(10, "fields"))
flow_type == Composite(flow_create, amqpvalue_get_flow, <<flow_next_incoming_id,
        flow_incoming_window, flow_next_outgoing_id, flow_outgoing_window,
        flow_handle, flow_delivery_count, flow_link_credit, flow_available,
        flow_drain, flow_echo, flow_properties>>)

\* transfer
transfer_create == Create(20, <<Arg("handle", 0, "handle")>>)
amqpvalue_get_transfer == <<Must("handle"), May("delivery_number"),
        May("delivery_tag"), May("message_format"), May("boolean"),
        May("boolean"), May("receiver_settle_mode"), Unchecked, May("boolean"),
        May("boolean"), May("boolean")>>
transfer_handle == Field("handle", Get(0, "handle"), Set(0, "handle"))
transfer_delivery_id ==
    Field("delivery_id", Get(1, "delivery_number"), Set(1, "delivery_number"))
transfer_delivery_tag ==
    Field("delivery_tag", Get(2, "delivery_tag"), Set(2, "delivery_tag"))
transfer_message_format ==
    Field("message_format", Get(3, "message_format"), Set(3, "message_format"))
transfer_settled == Field("settled", Get(4, "boolean"), Set(4, "boolean"))
transfer_more == Field("more", GetOr(5, "boolean", "false"), Set(5, "boolean"))
transfer_rcv_settle_mode ==
    Field("rcv_settle_mode", Get(6, "receiver_settle_mode"), Set(6, "receiver_settle_mode"))
transfer_state == Field("state", GetAny(7), Set(7, "any"))
transfer_resume == Field("resume", GetOr(8, "boolean", "false"), Set(8, "boolean"))
transfer_aborted == Field("aborted", GetOr(9, "boolean", "false"), Set(9, "boolean"))
transfer_batchable == Field("batchable", GetOr(10, "boolean", "false"), Set(10, "boolean"))
transfer_type == Composite(transfer_create, amqpvalue_get_transfer, <<
        transfer_handle, transfer_delivery_id, transfer_delivery_tag,
        transfer_message_format, transfer_settled, transfer_more,
        transfer_rcv_settle_mode, transfer_state, transfer_resume,
        transfer_aborted, transfer_batchable>>)

\* disposition
disposition_create == Create(21, <<Arg("role", 0, "role"),
        Arg("first", 1, "delivery_number")>>)
amqpvalue_get_disposition == <<Must("role"), Must("delivery_number"),
        May("delivery_number"), May("boolean"), Unchecked, May("boolean")>>
disposition_role == Field("role", Get(0, "role"), Set(0, "role"))
disposition_first == Field("first", Get(1, "delivery_number"), Set(1, "delivery_number"))
disposition_last == Field("last", Get(2, "delivery_number"), Set(2, "delivery_number"))
disposition_settled == Field("settled", GetOr(3, "boolean", "false"), Set(3, "boolean"))
disposition_state == Field("state", GetAny(4), Set(4, "any"))
disposition_batchable == Field("batchable", GetOr(5, "boolean", "false"), Set(5, "boolean"))
disposition_type == Composite(disposition_create, amqpvalue_get_disposition, <<
        disposition_role, disposition_first, disposition_last,
        disposition_settled, disposition_state, disposition_batchable>>)

\* detach
detach_create == Create(22, <<Arg("handle", 0, "handle")>>)
amqpvalue_get_detach == <<Must("handle"), May("boolean"), May("error")>>
detach_handle == Field("handle", Get(0, "handle"), Set(0, "handle"))
detach_closed == Field("closed", GetOr(1, "boolean", "false"), Set(1, "boolean"))
detach_error == Field("error", Get(2, "error"), Set(2, "error"))
detach_type == Composite(detach_create, amqpvalue_get_detach, <<detach_handle,
        detach_closed, detach_error>>)

\* end
end_create == Create(23, <<>>)
amqpvalue_get_end == <<May("error")>>
end_error == Field("error", Get(0, "error"), Set(0, "error"))
end_type == Composite(end_create, amqpvalue_get_end, <<end_error>>)

\* close
close_create == Create(24, <<>>)
amqpvalue_get_close == <<May("error")>>
close_error == Field("error", Get(0, "error"), Set(0, "error"))
close_type == Composite(close_create, amqpvalue_get_close, <<close_error>>)

\* sasl_mechanisms
sasl_mechanisms_create == Create(64, <<Arg("sasl_server_mechanisms", 0, "any")>>)
amqpvalue_get_sasl_mechanisms == <<MustMany("symbol")>>
sasl_mechanisms_sasl_server_mechanisms ==
    Field("sasl_server_mechanisms", GetMany(0, "symbol", 0), Set(0, "any"))
sasl_mechanisms_type == Composite(sasl_mechanisms_create, amqpvalue_get_sasl_mechanisms, <<
        sasl_mechanisms_sasl_server_mechanisms>>)

\* sasl_init
sasl_init_create == Create(65, <<Arg("mechanism", 0, "symbol")>>)
amqpvalue_get_sasl_init == <<Must("symbol"), May("binary"), May("string")>>
sasl_init_mechanism == Field("mechanism", Get(0, "symbol"), Set(0, "symbol"))
sasl_init_initial_response == Field("initial_response", Get(1, "binary"), Set(1, "binary"))
sasl_init_hostname == Field("hostname", Get(2, "string"), Set(2, "string"))
sasl_init_type == Composite(sasl_init_create, amqpvalue_get_sasl_init, <<
        sasl_init_mechanism, sasl_init_initial_response, sasl_init_hostname>>)

\* sasl_challenge
sasl_challenge_create == Create(66, <<Arg("challenge", 0, "binary")>>)
amqpvalue_get_sasl_challenge == <<Must("binary")>>
sasl_challenge_challenge == Field("challenge", Get(0, "binary"), Set(0, "binary"))
sasl_challenge_type == Composite(sasl_challenge_create, amqpvalue_get_sasl_challenge, <<
        sasl_challenge_challenge>>)

\* sasl_response
sasl_response_create == Create(67, <<Arg("response", 0, "binary")>>)
amqpvalue_get_sasl_response == <<Must("binary")>>
sasl_response_response == Field("response", Get(0, "binary"), Set(0, "binary"))
sasl_response_type == Composite(sasl_response_create, amqpvalue_get_sasl_response, <<
        sasl_response_response>>)

\* sasl_outcome
sasl_outcome_create == Create(68, <<Arg("code", 0, "sasl_code")>>)
amqpvalue_get_sasl_outcome == <<Must("sasl_code"), May("binary")>>
sasl_outcome_code == Field("code", Get(0, "sasl_code"), Set(0, "sasl_code"))
sasl_outcome_additional_data == Field("additional_data", Get(1, "binary"), Set(1, "binary"))
sasl_outcome_type == Composite(sasl_outcome_create, amqpvalue_get_sasl_outcome, <<
        sasl_outcome_code, sasl_outcome_additional_data>>)

\* source
source_create == Create(40, <<>>)
amqpvalue_get_source == <<Unchecked, May("terminus_durability"),
        May("terminus_expiry_policy"), May("seconds"), May("boolean"),
        May("node_properties"), May("symbol"), May("filter_set"), Unchecked,
        MayMany("symbol"), MayMany("symbol")>>
source_address == Field("address", GetAny(0), Set(0, "any"))
source_durable ==
    Field("durable", GetOr(1, "terminus_durability", "terminus_durability_none"),
          Set(1, "terminus_durability"))
source_expiry_policy ==
    Field("expiry_policy", GetOr(2, "terminus_expiry_policy", "terminus_expiry_policy_session_end"),
          Set(2, "terminus_expiry_policy"))
source_timeout == Field("timeout", GetOr(3, "seconds", "0"), Set(3, "seconds"))
source_dynamic == Field("dynamic", GetOr(4, "boolean", "false"), Set(4, "boolean"))
source_dynamic_node_properties ==
    Field("dynamic_node_properties", Get(5, "node_properties"), Set(5, "node_properties"))
source_distribution_mode == Field("distribution_mode", Get(6, "symbol"), Set(6, "symbol"))
source_filter == Field("filter", Get(7, "filter_set"), Set(7, "filter_set"))
source_default_outcome == Field("default_outcome", GetAny(8), Set(8, "any"))
source_outcomes == Field("outcomes", GetMany(9, "symbol", 9), Set(9, "any"))
source_capabilities == Field("capabilities", GetMany(10, "symbol", 10), Set(10, "any"))
source_type == Composite(source_create, amqpvalue_get_source, <<source_address,
        source_durable, source_expiry_policy, source_timeout, source_dynamic,
        source_dynamic_node_properties, source_distribution_mode, source_filter,
        source_default_outcome, source_outcomes, source_capabilities>>)

\* target
target_create == Create(41, <<>>)
amqpvalue_get_target == <<Unchecked, May("terminus_durability"),
        May("terminus_expiry_policy"), May("seconds"), May("boolean"),
        May("node_properties"), MayMany("symbol")>>
target_address == Field("address", GetAny(0), Set(0, "any"))
target_durable ==
    Field("durable", GetOr(1, "terminus_durability", "terminus_durability_none"),
          Set(1, "terminus_durability"))
target_expiry_policy ==
    Field("expiry_policy", GetOr(2, "terminus_expiry_policy", "terminus_expiry_policy_session_end"),
          Set(2, "terminus_expiry_policy"))
target_timeout == Field("timeout", GetOr(3, "seconds", "0"), Set(3, "seconds"))
target_dynamic == Field("dynamic", GetOr(4, "boolean", "false"), Set(4, "boolean"))
target_dynamic_node_properties ==
    Field("dynamic_node_properties", Get(5, "node_properties"), Set(5, "node_properties"))
target_capabilities == Field("capabilities", GetMany(6, "symbol", 6), Set(6, "any"))
target_type == Composite(target_create, amqpvalue_get_target, <<target_address,
        target_durable, target_expiry_policy, target_timeout, target_dynamic,
        target_dynamic_node_properties, target_capabilities>>)

\* header
header_create == Create(112, <<>>)
amqpvalue_get_header == <<May("boolean"), May("ubyte"), May("milliseconds"),
        May("boolean"), May("uint")>>
header_durable == Field("durable", GetOr(0, "boolean", "false"), Set(0, "boolean"))
header_priority == Field("priority", GetOr(1, "ubyte", "4"), Set(1, "ubyte"))
header_ttl == Field("ttl", Get(2, "milliseconds"), Set(2, "milliseconds"))
header_first_acquirer ==
    Field("first_acquirer", GetOr(3, "boolean", "false"), Set(3, "boolean"))
header_delivery_count == Field("delivery_count", GetOr(4, "uint", "0"), Set(4, "uint"))
header_type == Composite(header_create, amqpvalue_get_header, <<header_durable,
        header_priority, header_ttl, header_first_acquirer,
        header_delivery_count>>)

\* properties
properties_create == Create(115, <<>>)
amqpvalue_get_properties == <<Unchecked, May("binary"), Unchecked, May("string"),
        Unchecked, Unchecked, May("symbol"), May("symbol"), May("timestamp"),
        May("timestamp"), May("string"), May("sequence_no"), May("string")>>
properties_message_id == Field("message_id", GetAny(0), Set(0, "any"))
properties_user_id == Field("user_id", Get(1, "binary"), Set(1, "binary"))
properties_to == Field("to", GetAny(2), Set(2, "any"))
properties_subject == Field("subject", Get(3, "string"), Set(3, "string"))
properties_reply_to == Field("reply_to", GetAny(4), Set(4, "any"))
properties_correlation_id == Field("correlation_id", GetAny(5), Set(5, "any"))
properties_content_type == Field("content_type", Get(6, "symbol"), Set(6, "symbol"))
properties_content_encoding == Field("content_encoding", Get(7, "symbol"), Set(7, "symbol"))
properties_absolute_expiry_time ==
    Field("absolute_expiry_time", Get(8, "timestamp"), Set(8, "timestamp"))
properties_creation_time == Field("creation_time", Get(9, "timestamp"), Set(9, "timestamp"))
properties_group_id == Field("group_id", Get(10, "string"), Set(10, "string"))
properties_group_sequence ==
    Field("group_sequence", Get(11, "sequence_no"), Set(11, "sequence_no"))
properties_reply_to_group_id ==
    Field("reply_to_group_id", Get(12, "string"), Set(12, "string"))
properties_type == Composite(properties_create, amqpvalue_get_properties, <<
        properties_message_id, properties_user_id, properties_to,
        properties_subject, properties_reply_to, properties_correlation_id,
        properties_content_type, properties_content_encoding,
        properties_absolute_expiry_time, properties_creation_time,
        properties_group_id, properties_group_sequence,
        properties_reply_to_group_id>>)

\* received
received_create == Create(35, <<Arg("section_number", 0, "uint"),
        Arg("section_offset", 1, "ulong")>>)
amqpvalue_get_received == <<Must("uint"), Must("ulong")>>
received_section_number == Field("section_number", Get(0, "uint"), Set(0, "uint"))
received_section_offset == Field("section_offset", Get(1, "ulong"), Set(1, "ulong"))
received_type == Composite(received_create, amqpvalue_get_received, <<
        received_section_number, received_section_offset>>)

\* accepted
accepted_create == Create(36, <<>>)
amqpvalue_get_accepted == <<>>
accepted_type == Composite(accepted_create, amqpvalue_get_accepted, <<>>)

\* rejected
rejected_create == Create(37, <<>>)
amqpvalue_get_rejected == <<May("error")>>
rejected_error == Field("error", Get(0, "error"), Set(0, "error"))
rejected_type == Composite(rejected_create, amqpvalue_get_rejected, <<
        rejected_error>>)

\* released
released_create == Create(38, <<>>)
amqpvalue_get_released == <<>>
released_type == Composite(released_create, amqpvalue_get_released, <<>>)

\* modified
modified_create == Create(39, <<>>)
amqpvalue_get_modified == <<May("boolean"), May("boolean"), May("fields")>>
modified_delivery_failed == Field("delivery_failed", Get(0, "boolean"), Set(0, "boolean"))
modified_undeliverable_here ==
    Field("undeliverable_here", Get(1, "boolean"), Set(1, "boolean"))
modified_message_annotations ==
    Field("message_annotations", Get(2, "fields"), Set(2, "fields"))
modified_type == Composite(modified_create, amqpvalue_get_modified, <<
        modified_delivery_failed, modified_undeliverable_here,
        modified_message_annotations>>)

-----------------------------------------------------------------------------

composites ==
    [error |-> error_type, open |-> open_type,
     begin |-> begin_type, attach |-> attach_type,
     flow |-> flow_type, transfer |-> transfer_type,
     disposition |-> disposition_type, detach |-> detach_type,
     end |-> end_type, close |-> close_type,
     sasl_mechanisms |-> sasl_mechanisms_type, sasl_init |-> sasl_init_type,
     sasl_challenge |-> sasl_challenge_type, sasl_response |-> sasl_response_type,
     sasl_outcome |-> sasl_outcome_type, source |-> source_type,
     target |-> target_type, header |-> header_type,
     properties |-> properties_type, received |-> received_type,
     accepted |-> accepted_type, rejected |-> rejected_type,
     released |-> released_type, modified |-> modified_type]
=============================================================================
