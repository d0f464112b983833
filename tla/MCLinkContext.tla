---------------------------- MODULE MCLinkContext ----------------------------
(***************************************************************************)
(* LinkContext for the model checker: a URI for each way a call can take,  *)
(* of a dongle, of USB, with a host that is no number or missing, and of   *)
(* another scheme.                                                         *)
(***************************************************************************)
EXTENDS LinkContext

RadioUri(host) == Uri("radio", host, <<80, 2, <<14, 7>>>>, << >>)

MixedUris ==
    {RadioUri(0), RadioUri(NotANumber)}
        \cup {Uri(scheme, NotANumber, << >>, << >>) : scheme \in {"usb", "http"}}
        \cup {Uri("usb", NoHost, << >>, << >>)}
=============================================================================
