------------------------------ MODULE Requests ------------------------------
(***************************************************************************)
(* URLs and requests, as operators: js_parse_url and js_request_serialize  *)
(* (src/src/js_web.c), and the making of a request from an item of the     *)
(* script's default export (src/src/js_runtime.c).                         *)
(*                                                                         *)
(* The text of a URL is a record of its parts, "" or 0 for one that is not *)
(* there: without scheme it is a path or, without path too, something that *)
(* is no URL.  A js_url_t is a record of the same shape; is_tls says that  *)
(* the scheme is https, port_str is the text of the port.  Texts longer    *)
(* than their fields are left out.                                         *)
(***************************************************************************)
EXTENDS Integers

Url(scheme, host, port, path) ==
  [scheme |-> scheme, host |-> host, port |-> port, path |-> path]

NoUrl == Url("", "", 0, "")

IsPath(text) == text.scheme = "" /\ text.path # ""
IsTls(url)   == url.scheme = "https"

DefaultPort(scheme) == IF scheme = "https" THEN 443 ELSE 80

\* Whether js_parse_url returns 0,
Parses(text) == text.scheme # "" /\ text.host # ""

\* and what it leaves: nothing without a scheme, and without a host what comes
\* before it.
ParseUrl(text) ==
  IF text.scheme = "" THEN NoUrl
  ELSE LET port == IF text.port = 0 THEN DefaultPort(text.scheme) ELSE text.port
           path == IF text.path = "" THEN "/" ELSE text.path
       IN  Url(text.scheme, text.host, port, IF text.host = "" THEN "" ELSE path)

Origin(url) == <<url.scheme, url.host, url.port>>

-----------------------------------------------------------------------------
(* extract_single_request: an item is a record of its type, its url and,   *)
(* for an object, its method, headers and body.                            *)

\* The text of a path below the target.
Below(target, path) ==
  LET t == ParseUrl(target) IN Url(t.scheme, t.host, t.port, path.path)

\* Mutant: the scheme stays.
MovedKeepingScheme(url, target) ==
  LET t == ParseUrl(target) IN Url(url.scheme, t.host, t.port, url.path)

\* The URL, at the origin of the target.
Moved(url, target) ==
  LET t == ParseUrl(target) IN Url(t.scheme, t.host, t.port, url.path)

\* Whether an item can be taken at all: a string must be a URL, or a path with
\* a target that is one; an object is not looked at.
Taken(item, hasTarget, target) ==
  \/ item.type = "object"
  \/ /\ item.type = "string"
     /\ hasTarget => Parses(target)
     /\ Parses(item.url) \/ (hasTarget /\ IsPath(item.url))

\* req.url of an item that is taken.
RequestUrl(item, hasTarget, target) ==
  CASE ~hasTarget \/ ~Parses(target)             -> ParseUrl(item.url)
    [] hasTarget /\ Parses(target) /\ IsPath(item.url)
                                                 -> ParseUrl(Below(target, item.url))
    [] hasTarget /\ Parses(target) /\ ~IsPath(item.url)
                                                 -> Moved(ParseUrl(item.url), target)

\* js_request_serialize: the Host line has the host given for all requests, or
\* the one of the URL with its port unless that is the default.
HostLine(url, hostOverride) ==
  IF hostOverride # "" THEN <<hostOverride, 0>>
  ELSE <<url.host, IF url.port = (IF IsTls(url) THEN 443 ELSE 80) THEN 0 ELSE url.port>>

Serialize(item, url, hostOverride) ==
  [method  |-> IF item.type = "string" \/ item.method = "" THEN "GET" ELSE item.method,
   path    |-> IF url.path = "" THEN "/" ELSE url.path,
   host    |-> HostLine(url, hostOverride),
   headers |-> IF item.type = "string" THEN {} ELSE item.headers,
   body    |-> IF item.type = "string" THEN 0 ELSE item.body]
=============================================================================
