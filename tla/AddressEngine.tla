---------------------------- MODULE AddressEngine ----------------------------
(***************************************************************************)
(* packages/address_engine: what the CloudNova provider derives from a     *)
(* postal address, and how the client of the address-structuring service   *)
(* reads an answer.  Pure operators; the state of the client (its circuit  *)
(* breaker) is in AnalysisPipeline.                                        *)
(*                                                                         *)
(* A text value is a token.  Two tokens that differ only in case or in     *)
(* white space are different tokens related by Upper and Squeeze.  An      *)
(* address line is the sequence of its comma-separated tokens.             *)
(***************************************************************************)
EXTENDS Integers, Sequences, FiniteSets, SequencesExt

CONSTANTS
    CountryCodes,  \* VALID_COUNTRY_CODES
    NameToCode,    \* COUNTRY_NAME_TO_CODE, from upper-case names
    Upper,         \* str.upper, on the tokens that it changes
    Squeeze,       \* " ".join(value.split()), on the tokens that it changes
    TownLike       \* tokens of 2 to 35 characters with a leading capital

None == "none"

(* payment_domain.models.AddressReadiness, from the best to the worst. *)
ReadinessLevels == <<"READY", "REPAIRABLE", "REVIEW_REQUIRED", "UNRESOLVED">>
EvidenceLevels == {"HIGH", "MEDIUM", "LOW"}

(* payment_domain.models.PostalAddress.  street_name, building_number and
   postcode are only ever tested for presence, and are one Boolean; path
   says whether source_path is set. *)
PostalAddress(Tokens) ==
    [country : Tokens \cup {None}, town : Tokens \cup {None},
     lines : Seq(Seq(Tokens)), street : BOOLEAN, path : BOOLEAN]

upper(t) == IF t \in DOMAIN Upper THEN Upper[t] ELSE t

(* The codes are texts, in upper case. *)
ASSUME CodesAreUpperCase == None \notin CountryCodes /\ \A c \in CountryCodes : upper(c) = c

(* A country name stands for a code. *)
ASSUME NamesAreOfCodes == \A n \in DOMAIN NameToCode : NameToCode[n] \in CountryCodes

normalize_whitespace(t) == IF t \in DOMAIN Squeeze THEN Squeeze[t] ELSE t

is_valid_country_code(t) == t \in CountryCodes
normalize_country_name(t) ==
    IF upper(t) \in DOMAIN NameToCode THEN NameToCode[upper(t)] ELSE None

-----------------------------------------------------------------------------
(* Country and town from the address lines. *)

CountryOfToken(t) ==
    IF is_valid_country_code(upper(t)) THEN upper(t) ELSE normalize_country_name(t)

(* The first token of the first line that names a country. *)
extract_country_from_lines(lines) ==
    LET tokens == FlattenSeq(lines)
        hit == SelectInSeq(tokens, LAMBDA t : CountryOfToken(t) # None)
    IN  IF hit = 0 THEN None ELSE CountryOfToken(tokens[hit])

_is_country_token(t, code) ==
    \/ CountryOfToken(t) # None
    \/ code # None /\ upper(t) = code

(* The token just before a country, when it looks like a town: the first
   such place, line by line. *)
extract_town_from_lines(lines, code) ==
    LET Places == {p \in UNION {{l} \X (2..Len(lines[l])) : l \in DOMAIN lines} :
                      /\ _is_country_token(lines[p[1]][p[2]], code)
                      /\ lines[p[1]][p[2] - 1] \in TownLike}
        first == CHOOSE p \in Places : \A q \in Places :
                     p[1] < q[1] \/ (p[1] = q[1] /\ p[2] <= q[2])
    IN  IF Places = {} THEN None ELSE lines[first[1]][first[2] - 1]

-----------------------------------------------------------------------------
(* The CloudNova provider. *)

classify_readiness(countryOk, townOk, countryRepairable, townRepairable, signal) ==
    IF countryOk /\ townOk THEN "READY"
    ELSE IF countryRepairable \/ townRepairable THEN "REPAIRABLE"
    ELSE IF signal THEN "REVIEW_REQUIRED" ELSE "UNRESOLVED"

_overall_level(country, town) ==
    IF country /\ town THEN "HIGH" ELSE IF country \/ town THEN "MEDIUM" ELSE "LOW"

(* CloudNovaAddressProvider.analyze. *)
CloudNovaAnalyze(addr) ==
    LET fromField == addr.country # None
        countryOk == fromField /\ is_valid_country_code(addr.country)
        country == IF countryOk THEN upper(addr.country)
                   ELSE IF fromField THEN normalize_country_name(addr.country)
                   ELSE extract_country_from_lines(addr.lines)
        townOk == addr.town # None
        town == IF townOk THEN normalize_whitespace(addr.town)
                ELSE extract_town_from_lines(addr.lines, country)
        countryRepairable == country # None /\ ~countryOk
        townRepairable == town # None /\ ~townOk
    IN  [provider |-> "cloudnova", available |-> TRUE, fallback |-> FALSE,
         country |-> country, town |-> town,
         readiness |-> classify_readiness(countryOk, townOk, countryRepairable,
                           townRepairable, fromField \/ townOk \/ addr.lines # <<>>),
         level |-> _overall_level(countryOk \/ countryRepairable, townOk \/ townRepairable)]

-----------------------------------------------------------------------------
(* The client of the address-structuring service.  An answer carries a
   country and a town and two confidences in per cent; all are missing
   (NoConf for a number) when the service's engine returned no result.  An
   engine that finds no country or no town answers a text that says so, with
   the least confidence it gives: the client takes it for the name. *)

NoConf == -1

AtLeast(conf, bound) == conf # NoConf /\ conf >= bound

_classify(answer) ==
    IF /\ answer.country # None /\ answer.town # None
       /\ AtLeast(answer.countryConf, 15) /\ AtLeast(answer.townConf, 15)
    THEN "READY"
    ELSE IF answer.country # None \/ answer.town # None THEN "REVIEW_REQUIRED"
    ELSE "UNRESOLVED"

_level(answer) ==
    IF AtLeast(answer.countryConf, 50) /\ AtLeast(answer.townConf, 50) THEN "HIGH"
    ELSE IF answer.countryConf # NoConf \/ answer.townConf # NoConf THEN "MEDIUM"
    ELSE "LOW"

_build_analysis(answer) ==
    [provider |-> "swift_derived", available |-> TRUE, fallback |-> FALSE,
     country |-> answer.country, town |-> answer.town,
     readiness |-> _classify(answer), level |-> _level(answer)]

_unavailable ==
    [provider |-> "swift_derived", available |-> FALSE, fallback |-> FALSE,
     country |-> None, town |-> None, readiness |-> "UNRESOLVED", level |-> "LOW"]

(* There is something to send: a line, or a structured field to compose. *)
_address_lines(addr) ==
    addr.lines # <<>> \/ addr.street \/ addr.town # None \/ addr.country # None

\* Mutant: the suggestion is never forced.
_suggestion_weak(addr) == [country |-> addr.country, force |-> FALSE]

(* (suggested_country, force): the country the service must not contradict. *)
_suggestion(addr) ==
    [country |-> addr.country, force |-> is_valid_country_code(addr.country)]

(* FallbackAddressProvider.analyze, given the primary provider's result. *)
FallbackAnalyze(primary, addr) ==
    IF primary.available THEN primary
    ELSE [CloudNovaAnalyze(addr) EXCEPT !.fallback = TRUE]

=============================================================================
