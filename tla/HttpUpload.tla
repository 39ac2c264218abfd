----------------------------- MODULE HttpUpload -----------------------------
(***************************************************************************)
(* A multipart request: FileUploadGenerator finds the limits of the        *)
(* handler, FileUploadGuard has the adapter parse the request, and the     *)
(* parameters of the handler read the files and fields of it.              *)
(*                                                                         *)
(* Express parses with busboy, which emits events: a file stream closes    *)
(* when it likes after its part was parsed, and the listeners share the    *)
(* flag `failed'. Fastify takes one part after the other.                  *)
(***************************************************************************)
EXTENDS Integers, Sequences, FiniteSets, Functions, Selection

CONSTANTS
    NotSet,                \* undefined
    UploadAdapters,
    UploadConfigurations,  \* FileUploadOptions of the plugin, class and method: each
                           \* [maxFileSize, maxFiles, allowedMimeTypes], or NotSet
    UploadRequests,        \* sequences of parts, [type, name, mime, size], or NotMultipart
    NotMultipart,
    DefaultMaxFileSize, DefaultMaxFiles,
    UploadParameters       \* what the handler asks for: <<parameter, field>>

FileUploadOptions ==
    {NotSet} \cup [maxFileSize : Nat \cup {NotSet}, maxFiles : Nat \cup {NotSet},
                  allowedMimeTypes : {NotSet} \cup SUBSET STRING]
MultipartParts == [type : {"file", "field"}, name : STRING, mime : STRING \cup {NotSet}, size : Nat]

\* The parameter of a body names its field.
ASSUME UploadAssumptions ==
    /\ DefaultMaxFiles \in Nat /\ NotSet \notin Seq(Nat)
    /\ UploadConfigurations \subseteq
            [plugin : FileUploadOptions, class : FileUploadOptions, method : FileUploadOptions]
    /\ \A r \in UploadRequests : r # NotMultipart => r \in Seq(MultipartParts)
    /\ \A p \in UploadParameters :
            p[1] \in {"uploadedFile", "uploadedFiles"} \/ (p[1] = "body" /\ p[2] # NotSet)

VARIABLES
    uploadAdapter, uploadOptions,
    multipart,   \* the request
    parts,       \* how many parts were parsed
    streams,     \* Express: the parts whose file streams are open
    parser,      \* "none", "parsing", "closed"; of Express
    failed,      \* the flag of the listeners
    parsed,      \* the files and fields so far, as indices of parts
    outcome,     \* of the promise of the guard: "none", "pending", "resolved", or the error
    exposed      \* request.files and request.body: the parts, or NotSet

input == <<uploadAdapter, uploadOptions, multipart>>
uploadVars == <<input, parts, streams, parser, failed, parsed, outcome, exposed>>

-----------------------------------------------------------------------------
\* FileUploadGenerator.generate: handler before controller before global uploadOptions.
Merged(field) ==
    LET given == {s \in {"plugin", "class", "method"} : uploadOptions[s] # NotSet /\ uploadOptions[s][field] # NotSet} IN
    IF given = {} THEN NotSet
    ELSE uploadOptions[IF "method" \in given THEN "method" ELSE IF "class" \in given THEN "class" ELSE "plugin"][field]
OrDefault(v, otherwise) == IF v = NotSet THEN otherwise ELSE v
MaxFileSize == OrDefault(Merged("maxFileSize"), DefaultMaxFileSize)
MaxFiles == OrDefault(Merged("maxFiles"), DefaultMaxFiles)
IsMimeTypeAllowed(mime) == IF Merged("allowedMimeTypes") = NotSet THEN TRUE ELSE mime \in Merged("allowedMimeTypes")

\* FileUploadGuard.toHttpError
ToHttpError(reason) ==
    CASE reason = "mimeType" -> "UnsupportedMediaTypeError"
      [] reason \in {"fileSize", "files"} -> "ContentTooLargeError"
      [] OTHER -> "BadRequestError"

UploadInit ==
    /\ uploadAdapter \in UploadAdapters /\ uploadOptions \in UploadConfigurations
    /\ multipart \in UploadRequests
    /\ parts = 0 /\ streams = {} /\ parser = "none" /\ failed = FALSE
    /\ parsed = <<>> /\ outcome = "none" /\ exposed = NotSet

Part == multipart[parts + 1]
FilesSeen == Cardinality({i \in 1 .. parts : multipart[i].type = "file"})
\* Of a file of exactly the limit the libraries decide.
MayFit == Part.size <= MaxFileSize
MayExceed == Part.size >= MaxFileSize

CheckFileUpload ==
    /\ outcome = "none"
    /\ IF multipart = NotMultipart THEN outcome' = "resolved" /\ UNCHANGED parser
       ELSE \/ outcome' = "pending" /\ parser' = "parsing"
            \/ outcome' = "BadRequestError" /\ UNCHANGED parser   \* busboy refuses the headers
    /\ UNCHANGED <<input, parts, streams, failed, parsed, exposed>>

-----------------------------------------------------------------------------
(* ExpressHttpRequest.parseMultipart.                                      *)

OnExpress == uploadAdapter = "express" /\ parser = "parsing" /\ outcome # "none"
Fail(reason) ==
    /\ failed' = TRUE
    /\ outcome' = IF failed THEN outcome ELSE ToHttpError(reason)

\* The listeners of one part: field, file with its stream and limit, filesLimit.
ExpressPart ==
    /\ OnExpress /\ parts < Len(multipart)
    /\ parts' = parts + 1
    /\ CASE Part.type = "field" ->
                parsed' = Append(parsed, parts + 1) /\ UNCHANGED <<streams, failed, outcome>>
         [] Part.type = "file" /\ FilesSeen >= MaxFiles -> Fail("files") /\ UNCHANGED <<streams, parsed>>
         [] OTHER ->
                /\ UNCHANGED parsed
                /\ IF ~IsMimeTypeAllowed(Part.mime) THEN Fail("mimeType") /\ UNCHANGED streams
                   ELSE /\ streams' = streams \cup {parts + 1}
                        /\ \/ MayFit /\ UNCHANGED <<failed, outcome>>
                           \/ MayExceed /\ Fail("fileSize")
    /\ UNCHANGED <<input, parser, exposed>>

StreamCloses ==
    /\ \E i \in streams : streams' = streams \ {i} /\ parsed' = Append(parsed, i)
    /\ UNCHANGED <<input, parts, parser, failed, outcome, exposed>>

\* The end of the request, complete or not. A parser that was unpiped before
\* sees none, unless it was in the last chunk.
ParserCloses ==
    /\ OnExpress /\ parts = Len(multipart)
    /\ parser' = "closed"
    /\ UNCHANGED <<input, parts, streams, failed, parsed, outcome, exposed>>

ParserFails ==
    /\ OnExpress /\ ~failed
    /\ Fail("malformed")
    /\ parser' = "none"
    /\ UNCHANGED <<input, parts, streams, parsed, exposed>>

\* Not the code: for the mutants.
ParserIsClosed == parser = "closed"

MayExpose == ~failed
FilesClosed == streams = {}
ExpressDone ==
    /\ parser = "closed" /\ FilesClosed
    /\ parser' = "none"
    /\ IF MayExpose THEN exposed' = parsed /\ outcome' = "resolved"
       ELSE UNCHANGED <<exposed, outcome>>
    /\ UNCHANGED <<input, parts, streams, failed, parsed>>

-----------------------------------------------------------------------------
(* FastifyHttpRequest.parseMultipart: the first error ends the loop.       *)

OnFastify == uploadAdapter = "fastify" /\ outcome = "pending"
Reject(reason) == outcome' = ToHttpError(reason) /\ UNCHANGED <<parts, parsed>>

FastifyPart ==
    /\ OnFastify /\ parts < Len(multipart)
    /\ \/ Part.type = "file" /\ FilesSeen >= MaxFiles /\ Reject("files")
       \/ Part.type = "file" /\ FilesSeen < MaxFiles /\ ~IsMimeTypeAllowed(Part.mime) /\ Reject("mimeType")
       \/ Part.type = "file" /\ FilesSeen < MaxFiles /\ IsMimeTypeAllowed(Part.mime) /\ MayExceed /\ Reject("fileSize")
       \/ Reject("malformed")
       \/ /\ Part.type = "field" \/ (FilesSeen < MaxFiles /\ IsMimeTypeAllowed(Part.mime) /\ MayFit)
          /\ parts' = parts + 1 /\ parsed' = Append(parsed, parts + 1) /\ UNCHANGED outcome
    /\ UNCHANGED <<input, streams, parser, failed, exposed>>

FastifyDone ==
    /\ OnFastify /\ parts = Len(multipart)
    /\ exposed' = parsed /\ outcome' = "resolved"
    /\ UNCHANGED <<input, parts, streams, parser, failed, parsed>>

Parse == ExpressPart \/ StreamCloses \/ ParserCloses \/ ExpressDone \/ FastifyPart \/ FastifyDone
UploadNext == CheckFileUpload \/ ParserFails \/ Parse

\* The client sends its request to the end, and the libraries emit their events.
UploadSpec == UploadInit /\ [][UploadNext]_uploadVars /\ WF_uploadVars(CheckFileUpload) /\ WF_uploadVars(Parse)

-----------------------------------------------------------------------------
(* The parameters of the handler.                                          *)

FilesOf(field) ==
    Select(exposed, {k \in DOMAIN exposed : /\ multipart[exposed[k]].type = "file"
                                           /\ field \in {NotSet, multipart[exposed[k]].name}})

\* appendMultipartField: repeated names become an array, in the order of the parts.
FieldsOf(name) ==
    Select(exposed, {k \in DOMAIN exposed : /\ multipart[exposed[k]].type = "field"
                                           /\ multipart[exposed[k]].name = name})

Resolve(parameter, field) ==
    IF exposed = NotSet THEN NotSet
    ELSE CASE parameter = "uploadedFile" -> IF FilesOf(field) = <<>> THEN NotSet ELSE Head(FilesOf(field))
           [] parameter = "uploadedFiles" -> FilesOf(field)
           [] parameter = "body" -> FieldsOf(field)

-----------------------------------------------------------------------------
(* Properties.                                                             *)

PartsOf(type, field) ==
    {i \in DOMAIN multipart : multipart[i].type = type /\ field \in {NotSet, multipart[i].name}}
Fits == /\ Cardinality(PartsOf("file", NotSet)) <= MaxFiles
        /\ \A i \in PartsOf("file", NotSet) :
                multipart[i].size <= MaxFileSize /\ IsMimeTypeAllowed(multipart[i].mime)

InOrderOfParts(s) == \A x, y \in DOMAIN s : x < y => s[x] < s[y]

\* A handler runs with all the files and fields of its request, in whatever
\* order streams closed and listeners ran, and only if they keep the limits;
\* a request that is refused exposes nothing, and is refused for a reason it has.
UploadIsAllOrNothing ==
    /\ outcome = "resolved" /\ multipart # NotMultipart =>
        /\ Fits
        /\ \A p \in UploadParameters :
            CASE p[1] = "uploadedFiles" -> Range(Resolve(p[1], p[2])) = PartsOf("file", p[2])
              [] p[1] = "uploadedFile" ->
                    IF PartsOf("file", p[2]) = {} THEN Resolve(p[1], p[2]) = NotSet
                    ELSE Resolve(p[1], p[2]) \in PartsOf("file", p[2])
              [] p[1] = "body" -> /\ Range(Resolve(p[1], p[2])) = PartsOf("field", p[2])
                                  /\ InOrderOfParts(Resolve(p[1], p[2]))
    /\ outcome # "resolved" => exposed = NotSet
    /\ outcome = "UnsupportedMediaTypeError" =>
        \E i \in PartsOf("file", NotSet) : ~IsMimeTypeAllowed(multipart[i].mime)
    /\ outcome = "ContentTooLargeError" =>
        \/ Cardinality(PartsOf("file", NotSet)) > MaxFiles
        \/ \E i \in PartsOf("file", NotSet) : multipart[i].size >= MaxFileSize
=============================================================================
