------------------------------- MODULE Codecs -------------------------------
(***************************************************************************)
(* The two encodings of a message: TcpProtocol.h, and WebSocketProtocol.h   *)
(* whose client end masks what it sends; net/Net.h for integers, and        *)
(* MessageMeta of Protocol.h.  A String is its bytes up to the end of the   *)
(* meta, and the size of the code behind them, whose bytes say nothing here. *)
(***************************************************************************)
EXTENDS Integers, Sequences, Bitwise

String(b, code) == [b |-> b, code |-> code]
size(s) == Len(s.b) + s.code
at(s, pos) == s.b[pos + 1]
Zeros(n) == [i \in 1..n |-> 0]

\* Bits of m_category and m_option.
Flag == [message |-> 1, heartbeat |-> 2, authority |-> 4, checksum |-> 8,
         encrypted |-> 16, sync |-> 32, session |-> 64,
         last |-> 1, type |-> 2, req4 |-> 4, req8 |-> 8, sess |-> 16]
has(v, f) == (v \div Flag[f]) % 2 = 1
set(v, f, is) ==
  IF is THEN (IF has(v, f) THEN v ELSE v + Flag[f])
        ELSE (IF has(v, f) THEN v - Flag[f] ELSE v)
add(v, f) == set(v, f, TRUE)

\* Integers of 16 and 32 bits; one of 64 bits is <<high, low>>.
hton16(v) == <<(v \div 256) % 256, v % 256>>
hton32(v) == hton16(v \div 65536) \o hton16(v % 65536)
hton64(v) == hton32(v[1]) \o hton32(v[2])
ntoh16(s, pos) == at(s, pos) * 256 + at(s, pos + 1)
ntoh32(s, pos) == ntoh16(s, pos) * 65536 + ntoh16(s, pos + 2)
ntoh64(s, pos) == <<ntoh32(s, pos), ntoh32(s, pos + 4)>>

-----------------------------------------------------------------------------
(* MessageMeta *)

none_session == 0
set_session_id(meta, id) ==
  [meta EXCEPT !.session_id = id, !.option = set(@, "sess", id # none_session)]
set_message_type(meta, type) ==
  [meta EXCEPT !.message_type = type, !.option = add(@, "type")]
set_last(meta, is) == [meta EXCEPT !.option = set(@, "last", is)]
set_request4(meta, v) == [meta EXCEPT !.request_data = <<0, v>>, !.option = add(@, "req4")]
set_request8(meta, v) == [meta EXCEPT !.request_data = v, !.option = add(@, "req8")]
\* Fault: request data always comes back in four bytes.
set_request_opt_4(meta, v, opt) ==
  [meta EXCEPT !.request_data = v,
               !.option = set(set(@, "req4", has(opt, "req4") \/ has(opt, "req8")), "req8", FALSE)]
set_request_opt(meta, v, opt) ==
  [meta EXCEPT !.request_data = v,
               !.option = set(set(@, "req4", has(opt, "req4")), "req8", has(opt, "req8"))]

MessageMeta(session_id, type, encrypted) ==
  LET blank == [category |-> set(set(Flag["message"], "encrypted", encrypted),
                                 "session", session_id # none_session),
                model |-> 0, option |-> 0, session_id |-> none_session,
                message_type |-> 0, request_data |-> <<0, 0>>, code |-> 0]
  IN  set_message_type(set_session_id(blank, session_id), type)

\* Of TcpProtocol, which carries session ids (sess), and of WebSocketProtocol.
get_meta_size(meta, sess) ==
  2 + (IF sess /\ has(meta.option, "sess") THEN 4 ELSE 0)
    + (IF has(meta.option, "type") THEN 2 ELSE 0)
    + (IF has(meta.option, "req4") THEN 4 ELSE IF has(meta.option, "req8") THEN 8 ELSE 0)

\* Fault: the request data is encoded before the type.
encode_meta_swapped(meta, sess) ==
  <<meta.model, meta.option>>
  \o (IF sess /\ has(meta.option, "sess") THEN hton32(meta.session_id) ELSE <<>>)
  \o (IF has(meta.option, "req4") THEN hton32(meta.request_data[2])
      ELSE IF has(meta.option, "req8") THEN hton64(meta.request_data) ELSE <<>>)
  \o (IF has(meta.option, "type") THEN hton16(meta.message_type) ELSE <<>>)
\* encode(), step 3: model, option and what the options announce.
encode_meta(meta, sess) ==
  <<meta.model, meta.option>>
  \o (IF sess /\ has(meta.option, "sess") THEN hton32(meta.session_id) ELSE <<>>)
  \o (IF has(meta.option, "type") THEN hton16(meta.message_type) ELSE <<>>)
  \o (IF has(meta.option, "req4") THEN hton32(meta.request_data[2])
      ELSE IF has(meta.option, "req8") THEN hton64(meta.request_data) ELSE <<>>)

Failed == [ok |-> FALSE]
\* decode() from the end of the head, start, on; category comes from the head.
decode_meta(s, start, category, sess) ==
  IF size(s) < start + 2 THEN Failed ELSE
  LET meta == [category |-> category, model |-> at(s, start), option |-> at(s, start + 1)]
      o == meta.option
      type_pos == start + 2 + (IF sess /\ has(o, "sess") THEN 4 ELSE 0)
      req_pos == type_pos + (IF has(o, "type") THEN 2 ELSE 0)
      end == start + get_meta_size(meta, sess)
  IN  IF size(s) < end THEN Failed ELSE
      [ok |-> TRUE, category |-> category, model |-> meta.model, option |-> o,
       session_id |-> IF sess /\ has(o, "sess") THEN ntoh32(s, start + 2) ELSE none_session,
       message_type |-> IF has(o, "type") THEN ntoh16(s, type_pos) ELSE 0,
       request_data |-> IF has(o, "req4") THEN <<0, ntoh32(s, req_pos)>>
                        ELSE IF has(o, "req8") THEN ntoh64(s, req_pos) ELSE <<0, 0>>,
       code |-> size(s) - end]

-----------------------------------------------------------------------------
(* TcpProtocolHead and TcpProtocol.  m_crypt and m_check are null. *)

version == 1
size_head == 4

tcp_decode_data_size(head) == [ok |-> TRUE, data_size |-> ntoh16(head, 2)]

tcp_head(s) ==
  [ok |-> has(at(s, 1), "message") \/ has(at(s, 1), "heartbeat"),
   version |-> at(s, 0), category |-> at(s, 1)]

tcp_encode_heartbeat == String(<<255, Flag["heartbeat"]>> \o Zeros(2), 0)

\* The cast to uint16_t takes place in hton16.
tcp_encode(meta) ==
  String(<<version, meta.category % 256>>
         \o hton16(get_meta_size(meta, TRUE) + meta.code)
         \o encode_meta(meta, TRUE), meta.code)

tcp_decode(s, category) == decode_meta(s, size_head, category, TRUE)

-----------------------------------------------------------------------------
(* WebSocketProtocolHeadEx and WebSocketProtocol *)

size_ws_head == 2
frame_close == 8
eco_masking_key == <<35, 50, 94, 49>>

mask_data(s, start, key) ==
  [s EXCEPT !.b = [i \in DOMAIN @ |->
     IF i > start THEN @[i] ^^ key[((i - 1 - start) % 4) + 1] ELSE @[i]]]

get_payload_len_size(len) == CASE len = 126 -> 2 [] len = 127 -> 8 [] OTHER -> 0

\* Of the first n bytes of s.
decode_head(s, n) ==
  LET len == at(s, 1) % 128
      end == size_ws_head + get_payload_len_size(len)
  IN  IF n < end \/ (len = 127 /\ ntoh32(s, 2) > 0) THEN Failed ELSE
      [ok |-> TRUE, frame |-> at(s, 0) % 16, mask |-> at(s, 1) >= 128, pos |-> end,
       payload_len |-> CASE len = 126 -> ntoh16(s, 2)
                         [] len = 127 -> ntoh32(s, 6)
                         [] OTHER -> len]

\* Fault: the boundary of the short payloads is off by one.
ws_decode_data_size_126(head) ==
  LET h == decode_head(head, size_head) IN
  IF ~h.ok THEN Failed ELSE
  IF h.frame = frame_close THEN Failed ELSE
  [ok |-> TRUE, data_size |-> h.payload_len + (IF h.mask THEN 4 ELSE 0)
                              - (IF h.payload_len <= 126 THEN 2 ELSE 0)]
\* The head read first has two bytes more than a frame needs: of the length,
\* of the mask, or version and category, which every payload has.
ws_decode_data_size(head) ==
  LET h == decode_head(head, size_head) IN
  IF ~h.ok THEN Failed ELSE
  IF h.frame = frame_close THEN Failed ELSE
  [ok |-> TRUE, data_size |-> h.payload_len + (IF h.mask THEN 4 ELSE 0)
                              - (IF h.payload_len < 126 THEN 2 ELSE 0)]

MaskingKey(s, pos) == SubSeq(s.b, pos + 1, pos + 4)
\* WebSocketProtocolHead::decode() of the bytes: the payload, in clear.
ws_unmask(s, h) ==
  IF h.mask THEN mask_data(s, h.pos + 4, MaskingKey(s, h.pos)) ELSE s
ws_payload(h) == h.pos + (IF h.mask THEN 4 ELSE 0)

ws_head(s) ==
  LET h == decode_head(s, size(s)) IN
  IF ~h.ok THEN Failed ELSE
  [ok |-> TRUE, version |-> at(ws_unmask(s, h), ws_payload(h)),
   category |-> at(ws_unmask(s, h), ws_payload(h) + 1)]

ws_encode_heartbeat == String(<<0, 2, 255, Flag["heartbeat"]>>, 0)

\* encode_mask(): the head of the frame in as few bytes as its size needs, so
\* that the bytes reserved before it are not sent, then the masking.
encode_mask(payload, masked) ==
  LET n == size(payload)
      bit == IF masked THEN 128 ELSE 0
      len == IF n < 126 THEN <<bit + n>>
             ELSE IF n <= 65535 THEN <<bit + 126>> \o hton16(n)
             ELSE <<bit + 127>> \o hton64(<<0, n>>)
      head == <<130>> \o len \o (IF masked THEN eco_masking_key ELSE <<>>)
      bytes == String(head \o payload.b, payload.code)
  IN  IF masked THEN mask_data(bytes, Len(head), eco_masking_key) ELSE bytes

\* The category has a frame masked.
ws_encode(meta, mask) ==
  LET category == set(meta.category, "encrypted", mask)
  IN  encode_mask(String(<<version, category % 256>> \o encode_meta(meta, FALSE),
                         meta.code), has(category, "encrypted"))

ws_decode(s, category) ==
  LET h == decode_head(s, size(s)) IN
  IF ~h.ok THEN Failed ELSE
  decode_meta(ws_unmask(s, h), ws_payload(h) + 2, category, FALSE)

=============================================================================
