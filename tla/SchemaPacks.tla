------------------------------ MODULE SchemaPacks ------------------------------
(***************************************************************************)
(* The schema engine's data: the vocabulary pack, of which the types keep  *)
(* the properties that the rich-result profiles ask for and a few of every *)
(* other kind, and the profile pack, which is whole.                       *)
(***************************************************************************)
EXTENDS Sequences, TLC

Type(parents, properties) == [parents |-> parents, properties |-> properties]
Of(expected, names) == [n \in names |-> expected]
Inherited == [n \in {} |-> {}]

WorkTypes ==
  [Thing |-> Type(<<>>, Of({"Text"}, {"name", "description"}) @@ Of({"URL"}, {"url", "sameAs"})
                          @@ Of({"URL", "ImageObject"}, {"image"})),
   CreativeWork |-> Type(<<"Thing">>,
     Of({"Text"}, {"headline"}) @@ Of({"URL"}, {"thumbnailUrl", "contentUrl"})
       @@ Of({"Date", "DateTime"}, {"datePublished", "dateModified"})
       @@ Of({"Person", "Organization", "Text"}, {"author"})
       @@ Of({"Organization", "Person"}, {"publisher"}) @@ Of({"Boolean"}, {"isAccessibleForFree"})),
   WebSite |-> Type(<<"CreativeWork">>, Inherited),
   WebPage |-> Type(<<"CreativeWork">>, Of({"Thing"}, {"mainEntity"})),
   Article |-> Type(<<"CreativeWork">>, Of({"Integer"}, {"wordCount"})),
   NewsArticle |-> Type(<<"Article">>, Inherited), BlogPosting |-> Type(<<"Article">>, Inherited),
   MediaObject |-> Type(<<"CreativeWork">>,
     Of({"Date", "DateTime"}, {"uploadDate"}) @@ Of({"Duration", "Text"}, {"duration"})),
   ImageObject |-> Type(<<"MediaObject">>, Inherited),
   VideoObject |-> Type(<<"MediaObject">>, Of({"URL"}, {"thumbnailUrl"}))]

PlaceTypes ==
  [Organization |-> Type(<<"Thing">>,
     Of({"URL", "ImageObject"}, {"logo"}) @@ Of({"ContactPoint"}, {"contactPoint"})
       @@ Of({"PostalAddress", "Text"}, {"address"}) @@ Of({"Text"}, {"telephone"})
       @@ Of({"AggregateRating"}, {"aggregateRating"})),
   LocalBusiness |-> Type(<<"Organization", "Place">>, Of({"Text"}, {"priceRange"})),
   Brand |-> Type(<<"Thing">>, Inherited), Person |-> Type(<<"Thing">>, Of({"Date"}, {"birthDate"})),
   Place |-> Type(<<"Thing">>, Of({"GeoCoordinates", "GeoShape"}, {"geo"})
                                 @@ Of({"OpeningHoursSpecification"}, {"openingHoursSpecification"})),
   PostalAddress |-> Type(<<"Thing">>, Inherited), GeoCoordinates |-> Type(<<"Thing">>, Inherited),
   OpeningHoursSpecification |-> Type(<<"Thing">>, Of({"Time"}, {"opens"})
                                                    @@ Of({"DayOfWeek", "URL"}, {"dayOfWeek"}))]

OfferTypes ==
  [Product |-> Type(<<"Thing">>,
     Of({"Text"}, {"sku"}) @@ Of({"Brand", "Organization"}, {"brand"})
       @@ Of({"Offer", "AggregateOffer"}, {"offers"})
       @@ Of({"AggregateRating"}, {"aggregateRating"}) @@ Of({"Review"}, {"review"})),
   Vehicle |-> Type(<<"Product">>, Inherited), Car |-> Type(<<"Vehicle">>, Inherited),
   Offer |-> Type(<<"Thing">>, Of({"Number", "Text"}, {"price"})
                                 @@ Of({"ItemAvailability", "URL"}, {"availability"})),
   Rating |-> Type(<<"Thing">>, Of({"Number", "Text"}, {"ratingValue", "bestRating"})),
   AggregateRating |-> Type(<<"Rating">>, Of({"Integer"}, {"reviewCount"}) @@ Of({"Thing"}, {"itemReviewed"})),
   Review |-> Type(<<"CreativeWork">>,
     Of({"Thing"}, {"itemReviewed"}) @@ Of({"Rating"}, {"reviewRating"}) @@ Of({"Text"}, {"reviewBody"}))]

EventTypes ==
  [ItemList |-> Type(<<"Thing">>, Of({"ListItem", "Thing", "Text"}, {"itemListElement"})),
   BreadcrumbList |-> Type(<<"ItemList">>, Inherited), FAQPage |-> Type(<<"WebPage">>, Inherited),
   Event |-> Type(<<"Thing">>,
     Of({"Date", "DateTime"}, {"startDate", "endDate"}) @@ Of({"Place", "VirtualLocation", "Text"}, {"location"})
       @@ Of({"Offer", "AggregateOffer"}, {"offers"}) @@ Of({"Person", "Organization"}, {"performer"})
       @@ Of({"EventStatusType", "URL"}, {"eventStatus"})
       @@ Of({"EventAttendanceModeEnumeration", "URL"}, {"eventAttendanceMode"})),
   JobPosting |-> Type(<<"Thing">>,
     Of({"Text"}, {"title", "employmentType"}) @@ Of({"Date", "DateTime"}, {"datePosted", "validThrough"})
       @@ Of({"Organization", "Text"}, {"hiringOrganization"}) @@ Of({"Place"}, {"jobLocation"})
       @@ Of({"MonetaryAmount", "Number"}, {"baseSalary"}))]

VocabTypes == WorkTypes @@ PlaceTypes @@ OfferTypes @@ EventTypes

Enumerations ==
  [ItemAvailability |-> {"InStock", "SoldOut"}, EventStatusType |-> {"EventScheduled"},
   EventAttendanceModeEnumeration |-> {"OnlineEventAttendanceMode"}, DayOfWeek |-> {"Monday", "Sunday"}]

DeprecatedProperties == {"reviews", "itemreviewed"}

VOCAB_PACK == [types |-> VocabTypes, enumerations |-> Enumerations, deprecatedProperties |-> DeprecatedProperties]

-----------------------------------------------------------------------------
Profile(appliesTo, required, recommended) ==
  [appliesTo |-> appliesTo, required |-> required, recommended |-> recommended]

PROFILE_PACK ==
  [Article |-> Profile({"Article", "NewsArticle", "BlogPosting"}, {"headline"},
     {"image", "datePublished", "dateModified", "author", "publisher"}),
   Product |-> Profile({"Product", "Vehicle", "Car"}, {"name", "image"},
     {"offers", "review", "aggregateRating", "brand", "sku"}),
   Review |-> Profile({"Review"}, {"itemReviewed", "reviewRating", "author"},
     {"datePublished", "reviewBody", "publisher"}),
   AggregateRating |-> Profile({"AggregateRating"}, {"ratingValue", "reviewCount"},
     {"bestRating", "itemReviewed"}),
   Breadcrumb |-> Profile({"BreadcrumbList"}, {"itemListElement"}, {}),
   FAQ |-> Profile({"FAQPage"}, {"mainEntity"}, {}),
   Event |-> Profile({"Event"}, {"name", "startDate", "location"},
     {"endDate", "offers", "performer", "image", "eventStatus", "eventAttendanceMode"}),
   Video |-> Profile({"VideoObject"}, {"name", "thumbnailUrl", "uploadDate"},
     {"description", "duration", "contentUrl"}),
   JobPosting |-> Profile({"JobPosting"},
     {"title", "description", "datePosted", "hiringOrganization", "jobLocation"},
     {"baseSalary", "employmentType", "validThrough"}),
   Organization |-> Profile({"Organization", "LocalBusiness"}, {"name"},
     {"url", "logo", "sameAs", "contactPoint"}),
   LocalBusiness |-> Profile({"LocalBusiness"}, {"name", "address"},
     {"telephone", "openingHoursSpecification", "geo", "priceRange", "aggregateRating"})]
=============================================================================
